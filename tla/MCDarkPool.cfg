SPECIFICATION Spec
CONSTANTS
    m1 = m1
    m2 = m2
    Intent = Intent
    Response = Response
    Unavailable = Unavailable
    NoPrice = NoPrice
    NoQuote = NoQuote
    NoOutcome = NoOutcome
    NoKey = NoKey
    ExpectedPubkey = 1
    U64Max = 65535
    DrandGenesis = 4
    DrandPeriod = 3
    BaseGenesis = 10
    BlockPeriod = 2
    NanosPerSec = 2
    BlockSkew = 1
    TeeSkewSecs = 1
    DrandSkew = 1
    RealAnchors = TRUE
    Parties = {Intent, Response}
    Markets = {m1, m2}
    Attestations <- MCPrices
    Offers <- MCOffers
    MaxPriceAge = 1
    MaxWindow = 1
    MaxNow = 2
SYMMETRY Symmetry
INVARIANTS DarkPoolTypeOK TradeIsBacked NobodyIsBlamedForAnother
PROPERTIES TimeNeverClears
