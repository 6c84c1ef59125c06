SPECIFICATION Spec
CONSTANTS
    k1 = k1
    k2 = k2
    p1 = p1
    p2 = p2
    HAPPY = HAPPY
    happy = happy
    SALE = SALE
    NoPrice = NoPrice
    NoRow = NoRow
    NoRule = NoRule
    NoCoupon = NoCoupon
    NoRequest = NoRequest
    Null = Null
    IntLimit = 8
    Keys = {k1, k2}
    ActiveKeys = {k1}
    Attempts = {a1, a2}
    Requests <- JustHappy
    Products = {p1}
    Prices = {5}
    Spellings <- OneSpelling
    Upper <- UpperOne
    StoredCodes = {HAPPY}
    Templates <- NoTemplates
    InitialCoupons <- LimitOne
    MaxAmount = 20
    MaxInFlight = 2
    MaxStray = 1
    MaxClock = 0
SYMMETRY Symmetry
INVARIANTS
    LimitRespected
