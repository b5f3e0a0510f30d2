SPECIFICATION Spec
CONSTANTS
    s1 = s1
    s2 = s2
    Roles = {r1}
    Kinds = {"feed", "aggregator", "keyed"}
    Scans = {s1, s2}
    Reviews = {w1}
    Texts = 2
    MaxCalls = 3
    Legacy = TRUE
    None = None
INVARIANTS
    ReadyWasVerified
PROPERTIES
    SettledRolesStay
    ExpiredLeads
    ReceiptCoversRole
CHECK_DEADLOCK FALSE
SYMMETRY Symmetry
