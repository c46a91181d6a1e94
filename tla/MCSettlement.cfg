CONSTANTS
    c1 = c1
    p = p
    A = A
    B = B
    C = C
    Unavailable = Unavailable
    NoLineage = NoLineage
    NoBlock = NoBlock
    NoKey = NoKey
    NoWitness = NoWitness
    NoCommit = NoCommit
    NoVerdict = NoVerdict
    NoRenewal = NoRenewal
    U64Max = 65535
    DrandGenesis = 1
    DrandPeriod = 6
    BaseGenesis = 10
    BlockPeriod = 2
    NanosPerSec = 2
    BlockSkew = 1
    TeeSkewSecs = 1
    DrandSkew = 1
    Keys <- MCPublishers
    Publishers <- MCPublishers
    Faulty = {}
    Threshold = 1
    MaxSigs = 1
    Bundles <- MCBundles
    ExpectedPubkey = 1
    CommitIds = {c1}
    OutputHashes = {1}
    RealAnchors = TRUE
    EnforceHorizon = TRUE
    Weights <- MCWeights
    Drafts <- MCDrafts
    Vendors = {"MockSoftware"}
    Drifts = {2, 9}
    MaxFmEpochs = 1
    MaxFiBlocks = 2
    MaxFsBlocks = 1
    MaxBlock = 4
    LastCommit = 1
    MaxLag = 1
    Garbled = {2}
    MaxReorg = 1
    Renewers = {c1}
SPECIFICATION FairSpec
INVARIANTS TypeOK ClearedIsBacked HonestClocksNeverBlamed
PROPERTIES TimeNeverFreshens ClosedWindowStaysClosed ImplementsContract EventuallyRefused
