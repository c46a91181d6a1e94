CONSTANTS
    c1 = c1
    p = p
    A = A
    B = B
    C = C
    Unavailable = Unavailable
    NoLineage = NoLineage
    NoBlock = NoBlock
    NoKey = NoKey
    NoWitness = NoWitness
    NoCommit = NoCommit
    NoVerdict = NoVerdict
    NoRenewal = NoRenewal
    U64Max = 65535
    DrandGenesis = 4
    DrandPeriod = 6
    BaseGenesis = 10
    BlockPeriod = 2
    NanosPerSec = 2
    BlockSkew = 1
    TeeSkewSecs = 1
    DrandSkew = 1
    Keys <- MCPublishers
    Publishers <- MCPublishers
    Faulty = {}
    Threshold = 1
    MaxSigs = 1
    Bundles <- MCBundles
    ExpectedPubkey = 1
    CommitIds = {c1}
    OutputHashes = {1}
    RealAnchors = FALSE
    EnforceHorizon = TRUE
    Weights <- MCThreeWeights
    Drafts <- MCTwoBumps
    Vendors = {"MockSoftware"}
    Drifts = {0}
    MaxFmEpochs = 1
    MaxFiBlocks = 3
    MaxFsBlocks = 3
    MaxBlock = 6
    LastCommit = 2
    MaxLag = 0
    Garbled = {}
    MaxReorg = 0
    Renewers = {c1}
SPECIFICATION Spec
INVARIANTS BumpIsProspectiveOnly
