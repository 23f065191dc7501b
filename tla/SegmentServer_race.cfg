\* start: the accept loop tests isWork before start has set it.
SPECIFICATION Spec
CONSTANTS
    MaxId = 2
    MaxStarts = 1
    multiConnect = TRUE
    Inputs = {}
    Commands = {}
INVARIANTS
    ServingAccepts
