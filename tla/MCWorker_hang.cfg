\* flush after stop(false) left a task behind: no thread will ever run it.
SPECIFICATION FairSpec
CONSTANTS
    t1 = t1
    t2 = t2
    t3 = t3
    t4 = t4
    Tasks = {t1, t2}
    NoTask = NoTask
    Controllers = {c1}
    Calls = {"stop", "flush"}
    Preset <- NoPreset
PROPERTIES
    FlushReturns
CHECK_DEADLOCK FALSE
