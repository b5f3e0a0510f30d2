SPECIFICATION Spec
CONSTANTS
    Callers = {c1, c2}
    Keys = {k1, k2}
    Limit <- LimitUsed
    Length <- LengthUsed
    RateLimited = 2
    PageSize = 2
    MaxPages = 2
    MaxAttempts = 1
    Lag = 0
    MaxClock = 2
    None = None
SYMMETRY Symmetry
INVARIANTS
    TypeOK
    
    LedgerCovers
PROPERTIES
    PausesLast
