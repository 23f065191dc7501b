\* Two starts that connect or not, every input, writes, disconnect and stop.
SPECIFICATION FairSpec
CONSTANTS
    MaxStarts = 2
    Inputs = {"raw", "syntax", "incomplete", "magic", "no_type"}
INVARIANTS
    TypeOK
    StoppedQuietly
    ReadsUntilRestart
PROPERTIES
    CallsReturn
    ErrorEndsReader
