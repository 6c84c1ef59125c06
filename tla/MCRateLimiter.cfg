SPECIFICATION Spec
CONSTANTS
    NoEntry = NoEntry
    NoRequest = NoRequest
    Clients = {k1}
    Handlers = {h1, h2}
    Max = 4
    Window = 2
    MaxClock = 9
    MaxLag = 1
SYMMETRY Symmetry
INVARIANTS
    TypeOK
    WindowBound
    StaleEntriesGo
PROPERTIES
    RefusalEarned
