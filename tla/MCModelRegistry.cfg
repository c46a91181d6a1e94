SPECIFICATION RegistrySpec
CONSTANTS
    Unavailable = Unavailable
    NoLineage = NoLineage
    p1 = p1
    p2 = p2
    p3 = p3
    f = f
    x = x
    A = A
    B = B
    C = C
    Keys <- MCKeys
    Publishers <- MCPublishers
    Faulty <- MCFaulty
    Weights <- MCWeights
    Drafts <- MCDrafts
    Threshold = 3
    MaxSigs = 3
SYMMETRY Symmetry
INVARIANTS AdoptedIsEndorsed DistanceNeverFlatters
PROPERTIES NeverForks
