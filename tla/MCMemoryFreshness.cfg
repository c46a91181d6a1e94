CONSTANTS
    config = config
    spec = spec
    east = east
    west = west
    Never = Never
    NoEntry = NoEntry
    U64Max = 65535
    DrandGenesis = 4
    DrandPeriod = 3
    BaseGenesis = 10
    BlockPeriod = 2
    NanosPerSec = 2
    BlockSkew = 1
    TeeSkewSecs = 1
    DrandSkew = 1
    RealAnchors = TRUE
    MaxFsBlocks = 1
    Sources <- MCSources
    Contents <- MCContents
    Relevant <- MCSources
    MaxBlock = 5
    MaxLag = 1
SPECIFICATION Spec
INVARIANTS LoadBearingIsTrue ServedFactsAreRecent
