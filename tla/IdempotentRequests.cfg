SPECIFICATION Spec
CONSTANTS
    r1 = r1
    r2 = r2
    r3 = r3
    r4 = r4
    Procs = {p1, p2}
    Reqs = {r1, r2, r3, r4}
    KeyOf <- KeyUsed
    PayloadOf <- PayloadUsed
    MaxRetries = 2
    MaxCrashes = 1
    NoKey = NoKey
    None = None
INVARIANTS
    TypeOK
    OneExecution
    SameAnswer
    AppliedOnce
PROPERTIES
    ImplementsStore
    EveryRequestEnds
CHECK_DEADLOCK FALSE
