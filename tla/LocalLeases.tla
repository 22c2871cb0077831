------------------------------ MODULE LocalLeases ------------------------------
(***************************************************************************)
(* The leases of repositories that threads use in local mode (src/app.ts,  *)
(* localLeases): one agent at a time in a checkout.  They live in memory   *)
(* only, are taken and given up by the steps of a rebind, by `/end` and by *)
(* the startup pre-scan, and outlive awaits of all of them.                *)
(*                                                                         *)
(* A rebind and `/end` are here what they do to a lease and to the record  *)
(* and session it protects; the rest is RebindCoordinator's.               *)
(***************************************************************************)
EXTENDS Naturals, FiniteSets

CONSTANTS
    Threads, Repos, None,
    Worktree,   \* the binding of a session that works in a worktree of its own
    LocalMoves, \* whether a rebind goes from one local repository to another
    MaxRebinds, MaxCrashes  \* bounds

ASSUME LocalLeasesAssumption ==
    /\ None \notin Threads /\ Worktree \notin Repos /\ None \notin Repos \cup {Worktree}
    /\ None \notin {"asking", "asking-rebound", "reclaiming"}
    /\ LocalMoves \in BOOLEAN /\ MaxRebinds \in Nat /\ MaxCrashes \in Nat

VARIABLES
    record,     \* the durable primary record of each thread
    session,    \* the binding of its live session
    ended,      \* threads whose live session an `/end` has claimed
    lease,      \* localLeases
    tx,         \* the rebind of each thread
    end,        \* the `/end` of each thread
    up,         \* the process runs
    todo,       \* records the startup has not yet considered
    rebinds, crashes

vars == <<record, session, ended, lease, tx, end, up, todo, rebinds, crashes>>

Binds == Repos \cup {Worktree}
Record == [bind : Binds, state : {"creating", "active", "orphaned", "blocked"}]
Rebind == [stage : {"opening", "creating", "closing"}, target : Binds, held : BOOLEAN,
           prev : Record \cup {None}]

ASSUME NoneIsNoRecord == None \notin Record

TypeOK ==
    /\ record \in [Threads -> Record \cup {None}]
    /\ session \in [Threads -> Binds \cup {None}]
    /\ ended \subseteq Threads
    /\ lease \in [Repos -> Threads \cup {None}]
    /\ tx \in [Threads -> Rebind \cup {None}]
    /\ end \in [Threads -> {None, "asking", "asking-rebound", "reclaiming"}]
    /\ up \in BOOLEAN /\ todo \subseteq Threads
    /\ rebinds \in 0 .. MaxRebinds /\ crashes \in 0 .. MaxCrashes

-----------------------------------------------------------------------------
(* The leases, as functions of the map.                                     *)

Holds(t, r) == lease[r] = t

Free(l, r, t) == l[r] \in {None, t}

Acquired(l, r, t) == IF Free(l, r, t) THEN [l EXCEPT ![r] = t] ELSE l

Released(l, t) == [r \in Repos |-> IF l[r] = t THEN None ELSE l[r]]

ReleasedHeldBy(l, r, t) == IF l[r] = t THEN [l EXCEPT ![r] = None] ELSE l

IsLocal(b) == b \in Repos

\* restoreLeaseFor: what acquireLocalLease answers is not looked at.
RestoredFor(l, b, t) ==
    IF IsLocal(b) THEN Acquired(Released(l, t), b, t) ELSE Released(l, t)

\* The record that t is left with still claims repository r.
StillClaims(rec, r) == rec # None /\ rec.bind = r /\ rec.state \notin {"blocked", "orphaned"}

ReleasedRetired(l, rec, r, t) == IF StillClaims(rec, r) THEN l ELSE ReleasedHeldBy(l, r, t)

Put(t, rec) == record' = [record EXCEPT ![t] = rec]

-----------------------------------------------------------------------------
(* Startup.  The pre-scan takes every lease before the first resume.        *)

\* A thread `/new` created works in a worktree.
Init ==
    /\ record = [t \in Threads |-> [bind |-> Worktree, state |-> "active"]]
    /\ session = [t \in Threads |-> None]
    /\ ended = {}
    /\ lease = [r \in Repos |-> None]
    /\ tx = [t \in Threads |-> None] /\ end = [t \in Threads |-> None]
    /\ up = FALSE /\ todo = {}
    /\ rebinds = 0 /\ crashes = 0

Claimants(r) == {t \in Threads : record[t] # None /\ record[t].bind = r
                                 /\ record[t].state = "active"}

\* The first of several claimants wins, the others are blocked.
Boot ==
    /\ ~up
    /\ \E winner \in [Repos -> Threads \cup {None}] :
           /\ \A r \in Repos : IF Claimants(r) = {} THEN winner[r] = None
                               ELSE winner[r] \in Claimants(r)
           /\ lease' = winner
           /\ record' = [t \in Threads |->
                  IF \E r \in Repos : t \in Claimants(r) /\ winner[r] # t
                  THEN [record[t] EXCEPT !.state = "blocked"] ELSE record[t]]
    /\ up' = TRUE /\ todo' = {t \in Threads : record[t] # None}
    /\ UNCHANGED <<session, ended, tx, end, rebinds, crashes>>

\* Resumed, left active for a later attempt, or terminal and without a lease.
Reconciled(t) ==
    /\ up /\ t \in todo
    /\ todo' = todo \ {t}
    /\ \/ /\ record[t].state = "active"
          /\ \/ session' = [session EXCEPT ![t] = record[t].bind] /\ UNCHANGED <<record, lease>>
             \/ UNCHANGED <<session, record, lease>>
             \/ /\ Put(t, [record[t] EXCEPT !.state = "blocked"])
                /\ lease' = Released(lease, t) /\ UNCHANGED session
       \/ /\ record[t].state = "creating"
          /\ Put(t, [record[t] EXCEPT !.state = "orphaned"]) /\ UNCHANGED <<session, lease>>
       \/ /\ record[t].state \in {"orphaned", "blocked"}
          /\ UNCHANGED <<session, record, lease>>
    /\ UNCHANGED <<ended, tx, end, up, rebinds, crashes>>

Crash ==
    /\ up /\ crashes < MaxCrashes
    /\ crashes' = crashes + 1
    /\ up' = FALSE /\ todo' = {}
    /\ session' = [t \in Threads |-> None] /\ ended' = {}
    /\ lease' = [r \in Repos |-> None]
    /\ tx' = [t \in Threads |-> None] /\ end' = [t \in Threads |-> None]
    /\ UNCHANGED <<record, rebinds>>

-----------------------------------------------------------------------------
(* A rebind.                                                                *)

Ready == up /\ todo = {}

\* What the replacement may not have been overtaken by.
Owned(t) == session[t] # None /\ t \notin ended

TxOver(t) == tx' = [tx EXCEPT ![t] = None]

Rebinding(t, stage) == tx[t] # None /\ tx[t].stage = stage

\* The early refusal of a repository somebody holds (`blockers`).
Begin(t, target) ==
    /\ Ready /\ tx[t] = None /\ Owned(t) /\ rebinds < MaxRebinds
    /\ target # session[t]
    /\ IsLocal(target) => Free(lease, target, t) /\ (LocalMoves \/ ~IsLocal(session[t]))
    /\ rebinds' = rebinds + 1
    /\ tx' = [tx EXCEPT ![t] = [stage |-> "opening", target |-> target, held |-> FALSE,
                                prev |-> None]]
    /\ UNCHANGED <<record, session, ended, lease, end, up, todo, crashes>>

\* What `/end` has claimed is given up: the target's lease while it is still
\* the transaction's, and the reservation, whose removal may not be written.
Abandon(t) ==
    /\ TxOver(t)
    /\ lease' = IF tx[t].held THEN ReleasedHeldBy(lease, tx[t].target, t) ELSE lease
    /\ IF tx[t].stage = "opening" THEN UNCHANGED record ELSE Put(t, None) \/ UNCHANGED record
    /\ UNCHANGED session

\* Nothing was swapped: the old record comes back, and the lease it had.
RollBack(t, saved) ==
    /\ TxOver(t)
    /\ IF saved THEN Put(t, tx[t].prev) ELSE UNCHANGED record
    /\ lease' = RestoredFor(lease, session[t], t)
    /\ UNCHANGED session

Untouched == UNCHANGED <<ended, end, up, todo, rebinds, crashes>>

\* The target is proved; the lease moves in the step that reserves the record.
CaptureAndReserve(t) ==
    /\ Rebinding(t, "opening")
    /\ LET target == tx[t].target
           released == Released(lease, t)
           taken == IF IsLocal(target) THEN Acquired(released, target, t) ELSE lease
       IN \/ ~Owned(t) /\ Abandon(t)
          \/ /\ Owned(t)
             /\ \/ /\ IsLocal(target) /\ ~Free(released, target, t) \* just taken by another
                   /\ TxOver(t) /\ lease' = RestoredFor(released, session[t], t)
                   /\ UNCHANGED <<record, session>>
                \/ /\ IsLocal(target) => Free(released, target, t)
                   /\ \/ /\ Put(t, [bind |-> target, state |-> "creating"])
                         /\ lease' = taken
                         /\ tx' = [tx EXCEPT ![t] = [stage |-> "creating", target |-> target,
                                                     held |-> IsLocal(target), prev |-> record[t]]]
                      \/ /\ TxOver(t) /\ UNCHANGED record  \* the write failed
                         /\ lease' = RestoredFor(taken, session[t], t)
                   /\ UNCHANGED session
    /\ Untouched

CreateFails(t) ==
    /\ Rebinding(t, "creating")
    /\ IF Owned(t) THEN \E saved \in BOOLEAN : RollBack(t, saved) ELSE Abandon(t)
    /\ Untouched

\* The commit, the swap of the session and the end of a lease it does not need.
Created(t) ==
    /\ Rebinding(t, "creating")
    /\ IF ~Owned(t) THEN Abandon(t)
       ELSE \/ /\ Put(t, [record[t] EXCEPT !.state = "active"])
               /\ session' = [session EXCEPT ![t] = tx[t].target]
               /\ lease' = IF IsLocal(tx[t].target) THEN lease ELSE Released(lease, t)
               /\ TxOver(t)
            \/ /\ tx' = [tx EXCEPT ![t].stage = "closing"]
               /\ UNCHANGED <<record, session, lease>>
    /\ Untouched

\* rollbackFailedRebindCommit: the replacement closes, or its reservation stays.
CommitRolledBack(t) ==
    /\ Rebinding(t, "closing")
    /\ IF Owned(t) THEN \E saved \in BOOLEAN : RollBack(t, saved) ELSE Abandon(t)
    /\ Untouched

-----------------------------------------------------------------------------
(* `/end`.                                                                  *)

\* In the thread of a live session, or for what a record is left of one.
EndTyped(t) ==
    /\ Ready /\ end[t] = None
    /\ \/ /\ session[t] # None
          /\ ended' = ended \cup {t}
          /\ end' = [end EXCEPT ![t] = IF tx[t] # None /\ tx[t].stage # "opening"
                                       THEN "asking-rebound" ELSE "asking"]
       \/ /\ session[t] = None /\ tx[t] = None
          /\ record[t] # None /\ record[t].state # "active"
          /\ end' = [end EXCEPT ![t] = "reclaiming"] /\ UNCHANGED ended
    /\ UNCHANGED <<record, session, lease, tx, up, todo, rebinds, crashes>>

\* Without proof that the runtime stopped, the session keeps what it has.
EndUnconfirmed(t) ==
    /\ end[t] \in {"asking", "asking-rebound"}
    /\ end' = [end EXCEPT ![t] = None]
    /\ UNCHANGED <<record, session, ended, lease, tx, up, todo, rebinds, crashes>>

\* A session that a rebind was to replace has its companion row instead of the
\* record, which may by then be the replacement's.
EndConfirmed(t) ==
    /\ end[t] \in {"asking", "asking-rebound"}
    /\ session' = [session EXCEPT ![t] = None]
    /\ ended' = ended \ {t}
    /\ IF end[t] = "asking" THEN end' = [end EXCEPT ![t] = "reclaiming"] /\ UNCHANGED lease
       ELSE /\ end' = [end EXCEPT ![t] = None]
            /\ lease' = IF IsLocal(session[t])
                        THEN ReleasedRetired(lease, record[t], session[t], t) ELSE lease
    /\ UNCHANGED <<record, tx, up, todo, rebinds, crashes>>

\* Mutant of EndReclaims: the lease goes first, whatever becomes of the record.
EndReclaimsReleasesFirst(t) ==
    /\ end[t] = "reclaiming"
    /\ end' = [end EXCEPT ![t] = None]
    /\ lease' = Released(lease, t)
    /\ Put(t, None) \/ UNCHANGED record
    /\ UNCHANGED <<session, ended, tx, up, todo, rebinds, crashes>>

\* reclaim: a lease goes when the record durably has gone, and not before.
EndReclaims(t) ==
    /\ end[t] = "reclaiming"
    /\ end' = [end EXCEPT ![t] = None]
    /\ \/ Put(t, None) /\ lease' = Released(lease, t)
       \/ /\ record[t] # None /\ record[t].bind = Worktree \* kept
          /\ Put(t, [record[t] EXCEPT !.state = "blocked"]) /\ lease' = Released(lease, t)
       \/ /\ UNCHANGED record                              \* the write failed
          /\ lease' = IF record[t] # None /\ IsLocal(record[t].bind)
                      THEN Acquired(lease, record[t].bind, t) ELSE lease
    /\ UNCHANGED <<session, ended, tx, up, todo, rebinds, crashes>>

-----------------------------------------------------------------------------
Next ==
    \/ Boot \/ Crash
    \/ \E t \in Threads :
        \/ Reconciled(t) \/ \E b \in Binds : Begin(t, b)
        \/ CaptureAndReserve(t) \/ CreateFails(t) \/ Created(t) \/ CommitRolledBack(t)
        \/ EndTyped(t) \/ EndUnconfirmed(t) \/ EndConfirmed(t) \/ EndReclaims(t)

Spec == Init /\ [][Next]_vars

-----------------------------------------------------------------------------
(* Properties.                                                              *)

\* "a race that ends with two agents in one checkout": a live local session
\* has its repository for itself, and so has an active record, so that the next
\* boot faces no two durable claimants.
LocalAlone ==
    \A r \in Repos :
        /\ Cardinality({t \in Threads : session[t] = r}) <= 1
        /\ Cardinality(Claimants(r)) <= 1

\* The same of the sessions that no rebind is about to move: a rebind that has
\* failed has put back what it found (rebind-coordinator.ts:1039). It does not
\* hold with LocalMoves = TRUE.
RestoredAlone ==
    \A r \in Repos : Cardinality({t \in Threads : session[t] = r /\ tx[t] = None}) <= 1
=============================================================================
