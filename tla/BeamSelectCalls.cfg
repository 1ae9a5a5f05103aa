SPECIFICATION Spec
CONSTANTS
    a = a
    b = b
    c = c
    eos = eos
    begin = begin
    end = end
    Token <- Tokens
    Eos = eos
    NegInf <- MinusInf
    Catalog <- Items
    Requests <- RequestsMC
INVARIANTS
    TypeOK
    EveryBeamOwnsItsLogprobs
    BeamsAreDistinct
    AnswersAreReal
    CatalogIsRespected
PROPERTIES
    BeamsAreBest
