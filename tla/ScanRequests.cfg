SPECIFICATION Spec
CONSTANTS
    s1 = s1
    s2 = s2
    Scans = {s1, s2}
    Fetches = {"learned", "configured", "again", "keyed", "verify"}
    CallsOf <- CallsUsed
    Verifying = {"verify"}
    Paced = {"learned", "configured", "again", "verify"}
    Keyed = {"keyed"}
    UrlOf <- UrlUsed
    OriginOf <- OriginUsed
    BoardOf <- BoardUsed
    SourceOf <- SourceUsed
    Learned = {"b1"}
    MaxRequests = 2
    MaxRequestsPerSource = 2
    DailyLists = 1
    None = None
INVARIANTS
    
    LearnedBoardDaily
PROPERTIES
    BlockedOriginStops
    EveryScanEnds
CHECK_DEADLOCK FALSE
