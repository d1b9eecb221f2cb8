SPECIFICATION HeapSpec
CONSTANTS
    HeapParts = {"transaction"}
    n1 = n1
    o1 = o1
    o2 = o2
    rSoft = rSoft
    rWeak = rWeak
    rFinalizer = rFinalizer
    rPhantom = rPhantom
    Threads = {t1}
    Dexes = {d1, d2}
    Names = {n1}
    NoName = NoName
    Strings <- MCStrings
    ImageSize <- MCImageSize
    Configs <- AllConfigs
    NoFile = NoFile
    NumClassDefs = 2
    MaxDepth = 3
    MaxCalls = 4
    MaxRestarts = 1
    DiskFaults = FALSE
    FiOpcodes <- MCOpcodes
    FiWord = 64
    FiLen = 3
    FiRuns = 1
    DbClassKinds <- MCClassKinds
    DbClassCount = 2
    DbPads = {0, 5}
    HtThreads = {t1, t2}
    HtDaemon = daemon
    HtRequests = 5
    RpThreads = {t1}
    RpObjects = {o1, o2}
    RpRefs <- MCRefs
    RpNull = null
    RpHolder <- MCHolder
    RpPoints <- MCPoints
    RpCycles = 2
    RpCalls = 1
    IrObjects = {o1}
    IrNull = null
    IrMaxEntries = 4
    IrPrevCount = 3
    IrFrames = 2
    IrCalls = 8
    AsThreads = {t1, t2}
    AsDaemon = daemon
    AsObjects = {x1, x2, x3}
    AsNull = null
    AsSegmentSize = 2
    AsGrowthLimit = 3
    AsCapacity = 6
    AsAllocations = 5
    AsCollections = 1
    TrStrings = {o1, o2}
    TrText <- MCText
    TrNull = null
    TrStale = stale
    TrCalls = 3
    TrCollections = 1
CHECK_DEADLOCK FALSE
INVARIANT TrUndoesAllChanges
