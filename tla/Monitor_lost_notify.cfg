SPECIFICATION RaceSpec
CONSTANTS
    LockParts = {"monitor"}
    MuThreads = {t1, t2, t3}
    MuNoThread = none
    MuRecursive = TRUE
    MuCalls = 6
    RwThreads = {t1, t2, t3}
    RwNoThread = none
    RwCalls = 4
    MonThreads = {t1, t2, t3}
    MonNone = none
    MonIds = {m1}
    MonMaxThin = 1
    MonHashes = {}
    MonInterrupts = TRUE
    MonCalls = 7
    TpWorkers = {t1, t2, t3}
    TpTasks = {k1, k2, k3}
    TpNoTask = none
    TpCalls = 6
    cA = cA
    cB = cB
    cC = cC
    CiThreads = {u1, u2}
    CiNoThread = none
    CiClasses = {cA, cB, cC}
    CiNoClass = noClass
    CiSuper <- MCSuper
    CiUses <- MCUses
    CiCalls = 4
    n1 = n1
    Threads = {v1, v2}
    Dexes = {d1, d2}
    Names = {n1}
    NoName = NoName
    Strings <- MCStrings
    ImageSize <- MCImageSize
    Configs <- EachLevel
    NoFile = NoFile
    NumClassDefs = 1
    MaxDepth = 1
    MaxCalls = 2
    MaxRestarts = 1
    DiskFaults = TRUE
SYMMETRY RaceSymmetry
CHECK_DEADLOCK FALSE
INVARIANT MonNotifyFindsWaiter
