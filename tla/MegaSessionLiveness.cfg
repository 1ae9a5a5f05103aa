SPECIFICATION FairSpec
CONSTANTS
    s1 = s1
    s2 = s2
    p1 = p1
    Search <- OneSearch
    Plain <- OnePlain
    BeamWidth = 2
    NumSteps = 3
    Faults <- AllFaults
PROPERTIES
    SearchTerminates
    DoneIsPurged
    CancelledLeavesEngine
    AbortedPlainLeaves
