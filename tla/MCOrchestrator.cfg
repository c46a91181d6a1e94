CONSTANTS
    Cells = {0, 1, 2, 3, 4, 9, 128, 129, 131}
    HashLen = 2
    Tags = {0, 1, 3, 128, 129, 131}
    NoCache = NoCache
    Missing = Missing
    U64Max = 127
    DrandGenesis = 0
    DrandPeriod = 6
    BaseGenesis = 8
    BlockPeriod = 2
    NanosPerSec = 2
    BlockSkew = 1
    TeeSkewSecs = 2
    DrandSkew = 1
    RealAnchors = TRUE
    Pipelines <- MCPipelines
    RetryLimits = {0, 1, 3, 9}
    BackoffBases = {0, 2}
    Tasks <- MCTasks
    StartAnchors <- MCStartAnchors
    Price = 7
    OverflowChecks = TRUE
SPECIFICATION FairSpec
INVARIANTS TypeOK OutputsAreAccountedFor FailuresAreExplained ReceiptsAreDistinct ReceiptsStayConsistent
PROPERTIES ImplementsContract PersistenceCompletes
CHECK_DEADLOCK FALSE
