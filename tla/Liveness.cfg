SPECIFICATION LivenessSpec
CONSTANTS
    LockParts = {"none", "mutex", "rwmutex", "monitor", "pool", "class"}
    HeapParts = {"none", "unpack", "heap", "references"}
    MuThreads = {t1, t2}
    MuNoThread = none
    MuRecursive = FALSE
    MuCalls = 5
    RwThreads = {t1, t2}
    RwNoThread = none
    RwCalls = 4
    MonThreads = {t1, t2}
    MonNone = none
    MonIds = {m1}
    MonMaxThin = 1
    MonHashes = {1}
    MonInterrupts = TRUE
    MonCalls = 4
    TpWorkers = {t1, t2}
    TpTasks = {k1, k2}
    TpNoTask = none
    TpCalls = 5
    cA = cA
    cB = cB
    cC = cC
    CiThreads = {t1, t2}
    CiNoThread = none
    CiClasses = {cA, cB, cC}
    CiNoClass = noClass
    CiSuper <- MCSuper
    CiUses <- MCUsesAcyclic
    CiCalls = 3
    n1 = n1
    o1 = o1
    o2 = o2
    rSoft = rSoft
    rWeak = rWeak
    rFinalizer = rFinalizer
    rPhantom = rPhantom
    Threads = {t1, t2}
    Dexes = {d1}
    Names = {n1}
    NoName = NoName
    Strings <- MCStrings
    ImageSize <- MCImageSize
    Configs <- LevelThree
    NoFile = NoFile
    NumClassDefs = 1
    MaxDepth = 2
    MaxCalls = 2
    MaxRestarts = 0
    DiskFaults = FALSE
    FiOpcodes <- MCOpcodes
    FiWord = 64
    FiLen = 1
    FiRuns = 0
    DbClassKinds <- MCClassKinds
    DbClassCount = 1
    DbPads = {0}
    HtThreads = {t1, t2}
    HtDaemon = daemon
    HtRequests = 3
    RpThreads = {t1}
    RpObjects = {o1, o2}
    RpRefs <- MCRefsFew
    RpNull = null
    RpHolder <- MCHolder
    RpPoints <- MCPoints
    RpCycles = 1
    RpCalls = 2
    IrObjects = {o1}
    IrNull = null
    IrMaxEntries = 1
    IrPrevCount = 2
    IrFrames = 0
    IrCalls = 0
    AsThreads = {t1}
    AsDaemon = daemon
    AsObjects = {o1}
    AsNull = null
    AsSegmentSize = 1
    AsGrowthLimit = 2
    AsCapacity = 3
    AsAllocations = 0
    AsCollections = 0
    TrStrings = {o1, o2}
    TrText <- MCText
    TrNull = null
    TrStale = stale
    TrCalls = 0
    TrCollections = 0
    TlThreads = {t1, t2}
    NoThread = NoThread
    kMaxCheckpoints = 1
    MaxStarts = 5
    Ops = {"suspend_all", "id", "exit", "checkpoint", "flip"}
CHECK_DEADLOCK FALSE
INVARIANT RebuildIsNotRecursive
PROPERTIES
    CallsEnd
    BacklogIsCleared
