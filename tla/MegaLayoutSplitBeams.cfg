SPECIFICATION Spec
CONSTANTS
    m1 = m1
    m2 = m2
    p1 = p1
    Mega <- OneMega
    Plain <- OnePlain
    PrefixLen <- PrefixSizes
    BeamWidth <- Widths
    DecodeSteps <- Steps
    PromptLen <- Prompts
    MaxTokens <- OneToken
    Logprobs <- PlainLogprobs
    BlockSize = 2
    TokenBudget = 7
    MaxPreemptions <- NoPreemptions
INVARIANTS
    BuildNeverFails
