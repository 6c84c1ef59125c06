SPECIFICATION Spec
CONSTANTS
    Alphabet <- MCAlphabet
    Lower <- MCLower
    Configs <- MCConfigs
    Catalog <- MCCatalog
    Base = "cdn"
    SeedKeys = {"good"}
    MaxSeeds = 1
    Calls <- MCCalls
    Visits <- MCVisits
    MaxExchanges = 2
INVARIANTS
    TypeOK
    ClientNeverMistaken
    IdSurvives
    OrdersAsSent
    AuthorisedSeesCatalog
    AnswersReadable
    CacheNeverStale
    RecordedAsSent
    LabelIsRoute
CHECK_DEADLOCK FALSE
