SPECIFICATION FairSpec
CONSTANTS
    s1 = s1
    s2 = s2
    Scripts = {s1, s2}
    GpuCount = 5
    Wanted <- OneAndThree
    Limit <- FourEach
    Base <- Desktop
    Healthy = {0, 1, 2, 3}
    LockMem = 4
    MaxPolls = 2
    Timed = {s1}
    ErrExit = {s2}
    MayCrash = {s2}
    MayFail = {0, 2}
INVARIANTS
    TypeOK
    OnlyCrashesLeak
    WorksOnWhatItWanted
PROPERTIES
    EveryScriptEnds
