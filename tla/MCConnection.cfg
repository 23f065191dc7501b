\* Two lines of the client's user, one of the operator, one word in each direction.
SPECIFICATION FairSpec
CONSTANTS
    MaxFrames = 2
    MaxLines = 1
    MaxReads = 2
    Capacity = 1
    Closers = {"operator"}
    Size <- MCSize
    Lengths <- MCLengths
    SyncWords <- MCSyncWords
    AsyncWords <- MCAsyncWords
INVARIANTS
    TypeOK
    NothingInvented
    InOrder
    AnswersMatch
    TextArrives
    TornNeedsTwoWriters
PROPERTIES
    UpIsChannel
    RequestsAnswered
