SPECIFICATION Spec
CONSTANTS
    Threads = {t1, t2}
    Sids = {s1, s2, s3}
    Binds = {b}
    None = None
    Limit = 2
    MaxCrashes = 2
    WritesFail = TRUE
SYMMETRY Interchangeable
INVARIANT BudgetCovered
PROPERTIES GenerationsAdvance CommittedStays
CHECK_DEADLOCK FALSE
