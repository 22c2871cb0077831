SPECIFICATION FairSpec
CONSTANTS
    Permissions = {p1}
    Questions = {q1, q2}
    Clicks = {c1}
    Toggles = {y1, y2}
    None = None
    MaxClears = 2
    MaxCrashes = 1
INVARIANTS RevocationStands YoloAsAsked
PROPERTIES FirstAnswerStands RequestsAnswered
CHECK_DEADLOCK FALSE
