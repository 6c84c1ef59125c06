SPECIFICATION FairSpec
CONSTANTS
    FIFTYOFF = FIFTYOFF
    PLAIN = PLAIN
    SHORT = SHORT
    HalfOff = HalfOff
    TenOff = TenOff
    NoRow = NoRow
    Files = {f1, f2, f3}
    Codes = {FIFTYOFF, PLAIN, SHORT}
    Contents <- MCContents
    Eligible = {FIFTYOFF, PLAIN}
    codeRules <- MCCodeRules
    defaultRule = TenOff
    Rows = {HalfOff, TenOff, NoRow}
    InitialCoupons <- MCInitialCoupons
    MaxRuns = 2
INVARIANTS
    TypeOK
    ScanIsExact
PROPERTIES
    KeepsPromise
    EveryRunEnds
CHECK_DEADLOCK FALSE
