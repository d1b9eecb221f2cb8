SPECIFICATION Spec
CONSTANTS
    Threads = {t1, t2, t3}
    Attached = {t1, t2, t3}
    NoThread = NoThread
    DebugThread = t3
    kMaxCheckpoints = 1
    MaxDebugSuspends = 1
    Ops = {"suspend_all", "debug_resume"}
SYMMETRY Symmetry
CHECK_DEADLOCK FALSE
INVARIANT NoAbort
