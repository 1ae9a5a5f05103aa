CONSTANTS
    c1 = c1
    c2 = c2
    Children = {c1, c2}
    MaxPatches = 2
    MaxCalls = 2
SPECIFICATION BootSpec
SYMMETRY MCSymmetry
CHECK_DEADLOCK FALSE
INVARIANTS
    EngineServesItsClient
    StartsUnlessPatchedTwice
    NeverItsOwnOriginal
    GuardMeansInside
