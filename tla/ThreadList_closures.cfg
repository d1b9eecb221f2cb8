SPECIFICATION Spec
CONSTANTS
    Threads = {t1, t2, t3}
    Attached = {t1, t2, t3}
    NoThread = NoThread
    DebugThread = NoThread
    kMaxCheckpoints = 1
    MaxDebugSuspends = 0
    Ops = {"suspend_all", "checkpoint", "sample", "flip", "exit"}
SYMMETRY Symmetry
CHECK_DEADLOCK TRUE
INVARIANTS
    FlippedBeforeManaged
    BarrierMeansDone
    NoLostWakeup
