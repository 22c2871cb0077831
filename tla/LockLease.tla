------------------------------- MODULE LockLease -------------------------------
(***************************************************************************)
(* What src/core/lifecycle-ownership.ts promises of the process lock: it   *)
(* is a lease held on behalf of work that somebody still owes.  While the  *)
(* process runs, work comes and goes freely and the lock stays.  Once the  *)
(* process drains, the lock goes in the very step that finishes the last   *)
(* work owed, and never before; new work may still join while some is left.*)
(***************************************************************************)
CONSTANTS
    Work,       \* everything that can be owed
    Shutdown    \* the work of draining itself, a member of Work

VARIABLES
    owed,       \* the work somebody still owes
    draining,   \* shutdown has begun
    held        \* the lock has not been let go

vars == <<owed, draining, held>>

Init == owed = {} /\ draining = FALSE /\ held = TRUE

\* New work is accepted while there is work to hold the lock for, or no drain.
Take(w) ==
    /\ held
    /\ draining => owed # {}
    /\ w \in Work \ owed
    /\ owed' = owed \cup {w}
    /\ UNCHANGED <<draining, held>>

\* Draining is itself owed from the moment it begins.
Drain ==
    /\ ~draining
    /\ draining' = TRUE
    /\ owed' = owed \cup {Shutdown}
    /\ UNCHANGED held

\* The last work finished in a drain lets the lock go in the same step.
Finish(w) ==
    /\ w \in owed
    /\ owed' = owed \ {w}
    /\ held' = ~(draining /\ owed' = {})
    /\ UNCHANGED draining

Next == Drain \/ \E w \in Work : Take(w) \/ Finish(w)

Spec == Init /\ [][Next]_vars
=============================================================================
