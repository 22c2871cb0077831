SPECIFICATION TimelineSpec
CONSTANTS
    Tools = {t1}
    Cards = {c1}
    Capacity = 2
    MaxText = 3
    MaxTurns = 2
    MaxEvents = 2
    MaxFaults = 1
    EarlyTodos = FALSE
    Nil = Nil
INVARIANT BlocksKeepApart
PROPERTIES ToolsAreNamed OutputAppears
CHECK_DEADLOCK FALSE
