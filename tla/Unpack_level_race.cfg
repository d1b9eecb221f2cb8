SPECIFICATION Spec
CONSTANTS
    n1 = n1
    Threads = {t1, t2}
    Dexes = {d1}
    Names = {n1}
    NoName = NoName
    Strings <- MCStrings
    ImageSize <- MCImageSize
    Configs <- LevelThree
    NoFile = NoFile
    NumClassDefs = 1
    MaxDepth = 1
    MaxCalls = 2
    MaxRestarts = 0
    DiskFaults = FALSE
CHECK_DEADLOCK FALSE
INVARIANT
    DumpsKeepLevel
