SPECIFICATION FairSpec
CONSTANTS
    Threads = {t}
    Thread = t
    Sids = {s1, s2}
    Binds = {a, b}
    Trees = {a}
    None = None
    Removal = Removal
    Events = {"end"}
    WritesFail = TRUE
INVARIANTS
    RuntimeRecorded
PROPERTIES
    CommandsAnswer
CHECK_DEADLOCK FALSE
