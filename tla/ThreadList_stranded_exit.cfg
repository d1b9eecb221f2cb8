SPECIFICATION LiveSpec
CONSTANTS
    Threads = {t1, t2}
    Attached = {t1, t2}
    NoThread = NoThread
    DebugThread = NoThread
    kMaxCheckpoints = 1
    MaxDebugSuspends = 0
    MaxStarts = 2
    Ops = {"peer", "exit"}
CHECK_DEADLOCK FALSE
PROPERTY ExitCompletes
