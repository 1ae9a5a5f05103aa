SPECIFICATION FairSpec
CONSTANTS
    s1 = s1
    s2 = s2
    Search <- TwoSearches
    NumEngines = 2
    BeamWidth <- TwoAndOneBeams
    NumSteps <- ThreeAndOneSteps
INVARIANTS
    StepsReachTheirEntry
    InFlightPointsHome
    OnlyParentsStay
PROPERTIES
    SearchTerminates
