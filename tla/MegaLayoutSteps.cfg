SPECIFICATION Spec
CONSTANTS
    m1 = m1
    m2 = m2
    p1 = p1
    Mega <- TwoMega
    Plain <- OnePlain
    PrefixLen <- PrefixSizes
    BeamWidth <- Widths
    DecodeSteps <- Steps
    PromptLen <- Prompts
    MaxTokens <- TwoTokens
    Logprobs <- PlainLogprobs
    BlockSize = 2
    TokenBudget = 11
    MaxPreemptions <- Preemptions
INVARIANTS
    TypeOK
    PositionsAreTheBeams
    AttentionIsPerBeam
    FailsOnlyOnSplitBeams
PROPERTIES
    AnswersAreComplete
