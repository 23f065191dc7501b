\* One controller that makes every call in every order; four tasks, two of them given to the constructor.
SPECIFICATION FairSpec
CONSTANTS
    t1 = t1
    t2 = t2
    t3 = t3
    t4 = t4
    Tasks = {t1, t2, t3, t4}
    NoTask = NoTask
    Controllers = {c1}
    Calls = {"start", "stop", "stop_clear", "flush", "destroy"}
    Preset <- TwoPreset
INVARIANTS
    TypeOK
    TaskAccounting
    OpenHasThread
    NoTerminate
    StopIsQuiescent
PROPERTIES
    FlushReturnsDrained
    ImplementsTaskQueue
    AcceptedTaskEnds
    FlushReturnsIfServed
    StopReturns
\* flush after stop(false) left tasks behind waits forever: see MCWorker_hang.cfg.
CHECK_DEADLOCK FALSE
