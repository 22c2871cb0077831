SPECIFICATION Spec
CONSTANTS
    Requests = {r1, r2}
    Calls = {c1}
    Sends = {d1, d2}
    TurnLimit = 1
    Quota = 2
    None = none
    MaxClicks = 2
    MaxEdits = 1
    MaxEpoch = 2
    MaxFences = 2
    MaxRestarts = 1
SYMMETRY Interchangeable
INVARIANTS
    QuotaCovers
    ReportTruthful
    FenceHolds
PROPERTIES
    UploadAsApproved
CHECK_DEADLOCK FALSE
