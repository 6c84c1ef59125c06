SPECIFICATION Spec
CONSTANTS
    Alphabet <- MCAlphabet
    Lower <- MCLower
    Configs <- MCConfigs
    Catalog <- MCCatalog
    Base = "cdn"
    SeedKeys = {"good"}
    MaxSeeds = 1
    Calls <- MCCalls
    Visits <- MCVisits
    MaxExchanges = 1
INVARIANTS
    OriginEchoed
CHECK_DEADLOCK FALSE
