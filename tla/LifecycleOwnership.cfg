SPECIFICATION FairSpec
CONSTANTS
    Threads = {t1}
    Scopes = {s1, s2}
    Claims = {c1, c2}
    RuntimeKeys = {k1}
    LateKeys = {late1}
    Entries = {gate, e1, e2}
    GateEntry = gate
    Teardowns = {d1}
    ArmKey = armedTeardown
    None = none
INVARIANTS
    ReleaseSafe
    JoinedAlone
PROPERTIES
    UnprovenObligationStays
    ShutdownAnswers
    LeaseSpec
CHECK_DEADLOCK FALSE
