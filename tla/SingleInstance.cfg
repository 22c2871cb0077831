SPECIFICATION LockSpec
CONSTANTS
    Procs = {p1, p2, p3}
    Mortal = {p1, p2, p3}
    Reused = {p3}
    Failing = {p2}
    Nobody = nobody
INVARIANTS
    MutualExclusion
    NoClaimAfterRelease
CHECK_DEADLOCK FALSE
