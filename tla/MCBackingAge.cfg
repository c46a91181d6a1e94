SPECIFICATION Spec
CONSTANTS
    s1 = s1
    s2 = s2
    price = price
    repo = repo
    o1 = o1
    o2 = o2
    NoEntry = NoEntry
    NoLimit = NoLimit
    Unavailable = Unavailable
    Sources = {s1, s2}
    Classes = {price, repo}
    Outputs = {o1, o2}
    Limit <- MCLimit
    Default = NoLimit
    Skews = {0, 1}
    ClassesOf <- MCOneClass
    MaxNow = 2
SYMMETRY Symmetry
INVARIANTS TypeOK CarriesOldest BoundaryBoundsAll FreshMeansAllFresh
PROPERTIES StaysStale
