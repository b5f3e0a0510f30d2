SPECIFICATION Spec
CONSTANTS
    a1 = a1
    a2 = a2
    s1 = s1
    s2 = s2
    Apps <- OneRole
    ServerApps <- NoRoles
    ExternalApps <- OneRole
    Republished <- NoRoles
    Sessions = {s1}
    Callers = {c1}
    Attempts = {t1, t2, t3, t4}
    Profiles = {p1}
    Modes <- ModesUsed
    ModeOf <- AllFullTime
    GlobalCap = 9
    ModeCap <- NoModeCap
    MaxDay = 0
    Previews = {"agent_submits"}
    Kinds = {"owner_help"}
    LegacyAttempt = LegacyAttempt
    None = None
SYMMETRY Symmetry
PROPERTIES
    OwnerReportIsKept
