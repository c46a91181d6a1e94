CONSTANTS
    U64Max = 255
    DrandGenesis = 3
    DrandPeriod = 4
    BaseGenesis = 10
    BlockPeriod = 2
    NanosPerSec = 2
    BlockSkew = 2
    TeeSkewSecs = 3
    DrandSkew = 1
    RealAnchors = TRUE
    Clocks <- MCClocks
    CacheAge = 1
    ConnectTimeout = 2
    Timeout = 2
    FirstSecond = 19
    LastSecond = 31
    NoAnchor = NoAnchor
SPECIFICATION Spec
INVARIANTS PromptBuildIsConsistent DesyncedClockIsCaught WaitIsBounded
PROPERTIES CloseBuildsAgree
CHECK_DEADLOCK FALSE
