SPECIFICATION FairSpec
CONSTANTS
    k1 = k1
    k2 = k2
    p1 = p1
    p2 = p2
    HAPPY = HAPPY
    happy = happy
    SALE = SALE
    NoPrice = NoPrice
    NoRow = NoRow
    NoRule = NoRule
    NoCoupon = NoCoupon
    NoRequest = NoRequest
    Null = Null
    IntLimit = 8
    Keys = {k1, k2}
    ActiveKeys = {k1}
    Attempts = {a1, a2}
    Requests <- AllKinds
    Products = {p1, p2}
    Prices = {5}
    Spellings <- TwoSpellings
    Upper <- UpperTwo
    StoredCodes = {HAPPY, happy}
    Templates <- TwoTemplates
    InitialCoupons <- CaseVariants
    MaxAmount = 9
    MaxInFlight = 2
    MaxStray = 1
    MaxClock = 2
INVARIANTS
    AmountsConsistent
    AnswerTellsOutcome
PROPERTIES
    WindowHonoured
    EveryRequestEnds
