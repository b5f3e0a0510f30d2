SPECIFICATION Spec
CONSTANTS
    Roles = {r1}
    Records = {k1, k2}
    Statuses = {"application_received", "under_review", "interview"}
    NoResponse = 1
    MaxDay = 2
    MaxMails = 2
    None = None
SYMMETRY Symmetry
CHECK_DEADLOCK FALSE
INVARIANTS
    ClosedWereSilent
PROPERTIES
    ReportsCountOnce
    QueueHistoryKept
