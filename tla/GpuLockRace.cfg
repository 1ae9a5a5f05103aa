SPECIFICATION Spec
CONSTANTS
    s1 = s1
    s2 = s2
    Scripts = {s1, s2}
    GpuCount = 2
    Wanted <- OneAndTwo
    Limit <- FourEach
    Base <- TwoGpus
    Healthy = {0, 1}
    LockMem = 4
    MaxPolls = 2
    Timed = {}
    ErrExit = {}
    MayCrash = {}
    MayFail = {}
INVARIANTS
    OneScriptPerGpu
