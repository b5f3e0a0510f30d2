SPECIFICATION Spec
CONSTANTS
    a1 = a1
    a2 = a2
    s1 = s1
    s2 = s2
    Apps <- TwoRoles
    ServerApps <- OneRole
    ExternalApps <- NoRoles
    Republished <- NoRoles
    Sessions = {s1}
    Callers = {c1}
    Attempts = {t1, t2}
    Profiles = {p1}
    Modes <- ModesUsed
    ModeOf <- AllFullTime
    GlobalCap = 1
    ModeCap <- NoModeCap
    MaxDay = 1
    Previews = {"agent_submits"}
    Kinds = {}
    LegacyAttempt = LegacyAttempt
    None = None
SYMMETRY Symmetry
INVARIANTS
    OneCurrentApplication
    DailyCaps
    SendsAreAccountedFor
PROPERTIES
    QueueOrder
