SPECIFICATION OracleSpec
CONSTANTS
    Unavailable = Unavailable
    NoBlock = NoBlock
    NoKey = NoKey
    NoWitness = NoWitness
    U64Max = 255
    DrandGenesis = 0
    DrandPeriod = 6
    BaseGenesis = 10
    BlockPeriod = 2
    NanosPerSec = 2
    BlockSkew = 1
    TeeSkewSecs = 1
    DrandSkew = 1
    RealAnchors = TRUE
    Bundles <- MCBundles
    ExpectedPubkey = 1
    EnforceHorizon = TRUE
    MaxBlock = 14
INVARIANTS WitnessesAreVerified LagCoversEverySource RootIndependentOfOrder
