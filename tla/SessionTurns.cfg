SPECIFICATION FairSpec
CONSTANTS
    Prompts = {p1, p2, p3}
    QUEUE_MAX = 2
    None = None
    MaxStops = 1
INVARIANTS
    TurnsAreWatched
    StopQuiets
PROPERTIES
    QueueServed
    TurnEnds
CHECK_DEADLOCK FALSE
