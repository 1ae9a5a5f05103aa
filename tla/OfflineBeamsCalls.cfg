SPECIFICATION Spec
CONSTANTS
    a = a
    b = b
    eos = eos
    begin = begin
    end = end
    p = p
    q = q
    r = r
    PromptLen <- PromptLenMC
    Token <- Tokens
    Eos = eos
    NegInf <- MinusInf
    Calls <- CallsMC
INVARIANTS
    AnswersAreOfTheSearchAlone
    ChargedForItself
    AnswersAreReal
