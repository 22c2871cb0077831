SPECIFICATION Spec
CONSTANTS
    Threads = {t1, t2}
    Repos = {r1, r2}
    None = None
    Worktree = Worktree
    LocalMoves = FALSE
    MaxRebinds = 3
    MaxCrashes = 1
INVARIANTS LocalAlone
CHECK_DEADLOCK FALSE
