SPECIFICATION FairSpec
CONSTANTS
    Threads = {t1, t2}
    Sids = {s1}
    Binds = {b}
    None = None
    Existing = {t1}
    Enders = {e1, e2}
    MaxCrashes = 1
    MaxEnds = 2
    WritesFail = TRUE
INVARIANTS OneRuntime EndStands DisabledChannelEmpty
PROPERTIES ParkedIsRetried
CHECK_DEADLOCK FALSE
