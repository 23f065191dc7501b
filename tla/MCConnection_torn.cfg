\* One request, and one line of the operator.
SPECIFICATION FairSpec
CONSTANTS
    MaxFrames = 1
    MaxLines = 1
    MaxReads = 2
    Capacity = 1
    Closers = {"operator"}
    Size <- MCSize
    Lengths <- MCLengths
    SyncWords <- MCSyncWords
    AsyncWords <- MCAsyncWords
PROPERTY
    EveryRequestAnswered
