\* A client sends a JSON document without "type", then closes.
SPECIFICATION FairSpec
CONSTANTS
    MaxId = 2
    MaxStarts = 1
    multiConnect = TRUE
    Inputs = {"no_type"}
    Commands = {}
PROPERTIES
    PeerCloseRemoves
