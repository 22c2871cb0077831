SPECIFICATION UpdateSpec
CONSTANTS
    Instances = {i1, i2}
    Updaters = {u1}
    Nothing = Nothing
    Pauses = FALSE
    MaxUpdates = 3
    MaxCrashes = 1
SYMMETRY Swap
INVARIANTS DowntimeIsRemembered NoBotOnTornFiles
PROPERTIES PutBackAsFound
CHECK_DEADLOCK FALSE
