SPECIFICATION Spec
CONSTANTS
    Roles = {r1, r2}
    Records = {k1, k2}
    Statuses = {"application_received", "under_review", "interview"}
    NoResponse = 1
    MaxDay = 0
    MaxMails = 0
    None = None
SYMMETRY Symmetry
CHECK_DEADLOCK FALSE
PROPERTIES
    ReportedSendStays
