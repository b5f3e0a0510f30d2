SPECIFICATION Spec
CONSTANTS
    src1 = src1
    src2 = src2
    Sources <- OneSource
    Rank <- PlanOrder
    Workers = {w1, w2}
    Mains = {m1}
    Roles = {r1, r2, r3}
    Callers = {c1, c2}
    Profiles = {p1}
    Ops = {"enqueue", "prepareClaim", "prepareSave"}
    Pages = {}
    Outcomes = {"paused"}
    LowWatermark = 0
    HighWatermark = 2
    MaxLeases = 2
    MaxDay = 0
    None = None
SYMMETRY Symmetry
INVARIANTS
    PreparationLeases
PROPERTIES
    TakenDraftsAreKept
    RefillCycles
