SPECIFICATION Spec
CONSTANTS
    src1 = src1
    src2 = src2
    Sources <- TwoSources
    Rank <- PlanOrder
    Workers = {w1, w2}
    Mains = {m1, m2}
    Roles = {}
    Callers = {c1}
    Profiles = {p1, p2}
    Ops = {"scan"}
    Pages = {"heartbeat", "poor", "good"}
    Outcomes = {"low_quality", "pass_complete", "paused"}
    LowWatermark = 1
    HighWatermark = 2
    MaxLeases = 2
    MaxDay = 1
    None = None
SYMMETRY Symmetry
INVARIANTS
    OneLeasePerWorker
    TodaysPass
PROPERTIES
    NoOverlap
    StaleWorkersAreFenced
