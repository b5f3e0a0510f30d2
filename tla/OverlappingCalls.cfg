SPECIFICATION Spec
CONSTANTS
    a1 = a1
    a2 = a2
    s1 = s1
    s2 = s2
    Apps <- OneRole
    ServerApps <- NoRoles
    ExternalApps <- NoRoles
    Republished <- OneRole
    Sessions = {s1}
    Callers = {c1, c2}
    Attempts = {t1, t2}
    Profiles = {p1, p2}
    Modes <- ModesUsed
    ModeOf <- AllFullTime
    GlobalCap = 9
    ModeCap <- NoModeCap
    MaxDay = 0
    Previews = {"agent_submits", "owner_submits"}
    Kinds = {}
    LegacyAttempt = LegacyAttempt
    None = None
SYMMETRY Symmetry
INVARIANTS
    NoDuplicateSubmission

    
