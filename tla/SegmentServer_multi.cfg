\* Two starts, two clients at a time, every input, the operator writes and disconnects.
SPECIFICATION FairSpec
CONSTANTS
    MaxId = 3
    MaxStarts = 2
    multiConnect = TRUE
    Inputs = {"request", "raw", "syntax", "incomplete", "magic", "no_type"}
    Commands = {"write", "disconnect"}
INVARIANTS
    TypeOK
    OpenSocketOwned
    FailedSessionGone
    StopLeavesLastAccepted
    ClientServed
PROPERTIES
    StopTerminates
    PeerCloseNoticed
