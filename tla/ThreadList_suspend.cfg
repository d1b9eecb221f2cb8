SPECIFICATION SessionSpec
CONSTANTS
    Threads = {t1, t2, t3}
    Attached = {t1, t2, t3}
    NoThread = NoThread
    DebugThread = NoThread
    kMaxCheckpoints = 1
    MaxDebugSuspends = 2
    Ops = {"suspend_all", "id", "peer", "timeout", "exit"}
    DebugOps = {"debug", "debug_all", "debug_self", "debug_resume"}
    GcOps = {"debug", "debug_all", "debug_self", "suspend_all"}
SYMMETRY Symmetry
CHECK_DEADLOCK TRUE
INVARIANTS
    TypeOK
    StopTheWorld
    CountsMatchRequests
    SuspendedStaysSuspended
    NoSuspendCycle
    DebugCountsFit
