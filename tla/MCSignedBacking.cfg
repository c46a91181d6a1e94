SPECIFICATION Spec
CONSTANTS
    s1 = s1
    s2 = s2
    price = price
    k1 = k1
    k2 = k2
    d1 = d1
    d2 = d2
    NoEntry = NoEntry
    NoLimit = NoLimit
    Unavailable = Unavailable
    Sources = {s1, s2}
    Classes = {price}
    ClassesOf <- MCClasses
    Limit <- MCLimit
    Default = NoLimit
    Skews = {0}
    MaxNow = 1
    Keys = {k1, k2}
    Trusted = {k1}
    Contents = {1}
    Carriers = {d1, d2}
    MaxIssued = 3
SYMMETRY Symmetry
INVARIANTS SignedTypeOK VerifiedWereIssued NoSilentLoss
