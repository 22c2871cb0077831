SPECIFICATION Spec
CONSTANTS
    Threads = {t}
    Thread = t
    Sids = {s1, s2, s3}
    Binds = {a, b, c}
    Trees = {a, b}
    None = None
    Removal = Removal
    Events = {"end", "stop"}
    WritesFail = FALSE
SYMMETRY Interchangeable
INVARIANTS
    RuntimeGatesLock
    EndStands
    RebindSettles
    ConversationSurvivesStop
PROPERTIES
    TreeNotPulled
CHECK_DEADLOCK FALSE
