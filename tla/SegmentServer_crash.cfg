\* stop while the second of two clients has been refused.
SPECIFICATION Spec
CONSTANTS
    MaxId = 3
    MaxStarts = 1
    multiConnect = FALSE
    Inputs = {}
    Commands = {}
INVARIANTS
    NoCrash
