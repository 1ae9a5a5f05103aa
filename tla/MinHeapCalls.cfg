SPECIFICATION Spec
CONSTANTS
    max_size = 2
    MaxCalls = 2
    Scores = {1, 2, 3}
    MaxChunks = 2
    MaxChunk = 3
    MaxCandidates = 4
    MaxEos = 1
    Arguments <- ArgumentsMC
    Lists <- ListsMC
INVARIANTS
    HeapInv
    KeepsTheBest
