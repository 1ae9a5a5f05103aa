SPECIFICATION Spec
CONSTANTS
    s1 = s1
    s2 = s2
    p1 = p1
    Search <- TwoSearches
    Plain <- NoPlain
    BeamWidth = 2
    NumSteps = 3
    Faults <- AllFaults
SYMMETRY SearchSymmetry
INVARIANTS
    TypeOK
    SingleFlight
    AwaitedIsInFlight
    CacheCoversSession
    AbortsSpareTheAwaited
    OutputsAreAddressable
PROPERTIES
    CacheFollowsItsSearch
    ImplementsService
