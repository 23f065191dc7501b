\* Two threads call flush at the same time, while tasks are submitted.
SPECIFICATION FairSpec
CONSTANTS
    t1 = t1
    t2 = t2
    t3 = t3
    t4 = t4
    Tasks = {t1, t2, t3}
    NoTask = NoTask
    Controllers = {c1, c2}
    Calls = {"flush"}
    Preset <- NoPreset
INVARIANTS
    OneJoiner
PROPERTIES
    FlushReturnsIfServed
