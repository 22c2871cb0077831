----------------------------- MODULE SessionRecords -----------------------------
(***************************************************************************)
(* The session store in use: `/new`, a rebind, `/end`, an actor reserving  *)
(* attachment bytes, a crash, and the reconciliation of the next process,  *)
(* each writing src/core/session-store.ts from its own place in the code   *)
(* and over the awaits that separate its reads from its writes.            *)
(*                                                                         *)
(* The steps of a rebind are here only as far as the store sees them; its  *)
(* runtimes and worktrees are RebindCoordinator's.                         *)
(***************************************************************************)
EXTENDS SessionStore

CONSTANTS
    Limit,          \* SESSION_FILE_DELIVERY_LIMIT, in units of one attachment
    MaxCrashes,     \* bound: how often the process dies
    WritesFail      \* whether a write of the file may fail

ASSUME RecordsAssumption ==
    /\ Limit \in Nat /\ MaxCrashes \in Nat /\ WritesFail \in BOOLEAN
    /\ None \notin Record

VARIABLES
    store,      \* SessionStore: sessions, staleRebindRecords, highWater
    file,       \* the JSON file it persists to
    phase,      \* the process: "down", "booting" or "up"
    plan,       \* per thread, the identity a `/new` or a rebind is building
    actors,     \* incarnations with a live SessionActor and its reserved total
    issued,     \* session ids handed out
    opened,     \* threads `/new` has created
    delivered,  \* per thread, attachment bytes that left the process
    crashes,
    used        \* the incarnations ever reserved, per thread (history)

vars == <<store, file, phase, plan, actors, issued, opened, delivered, crashes, used>>

Outcomes == IF WritesFail THEN BOOLEAN ELSE {TRUE}

\* A `/new` has no predecessor; a rebind keeps the record it replaces.
Plan == [id : Identity, prev : Record \cup {None}, reserved : BOOLEAN, ended : BOOLEAN]

Actor == [thread : Threads, id : Identity, total : Nat]

Incarnation == [thread : Threads, id : Identity]

TypeOK ==
    /\ store \in StoreValue /\ file \in StoreValue
    /\ phase \in {"down", "booting", "up"}
    /\ plan \in [Threads -> Plan \cup {None}]
    /\ actors \subseteq Actor
    /\ issued \subseteq Sids /\ opened \subseteq Threads
    /\ delivered \in [Threads -> 0 .. Limit]
    /\ crashes \in 0 .. MaxCrashes
    /\ used \subseteq Incarnation

Init ==
    /\ store = EmptyStore /\ file = EmptyStore
    /\ phase = "booting"
    /\ plan = [t \in Threads |-> None]
    /\ actors = {} /\ issued = {} /\ opened = {}
    /\ delivered = [t \in Threads |-> 0]
    /\ crashes = 0 /\ used = {}

-----------------------------------------------------------------------------
(* Writing.                                                                 *)

\* mutate is synchronous and writes the file before it changes the memory: a death
\* between the two is a death right after both, as the memory dies too.  Between
\* the mutations of one step it is that step with the later ones failed.
Persist(s) == store' = s /\ file' = s

\* One write of the value s, which may fail and then changes nothing.
Write(s) == \E ok \in Outcomes : Persist(Written(store, s, ok))

Fresh(sid) == sid \notin issued

Live(t) == {a \in actors : a.thread = t /\ IsCurrent(store, t, a.id)}

NewInFlight == \E t \in Threads : plan[t] # None /\ plan[t].prev = None

NewRecord(id, bytes, bind) ==
    [sid |-> id.sid, gen |-> id.gen, state |-> "creating", bytes |-> bytes, bind |-> bind]

Enter(t, id, bytes) == actors' = actors \cup {[thread |-> t, id |-> id, total |-> bytes]}

\* Every incarnation is in the file before its runtime is created.
Use(t, id) == used' = used \cup {[thread |-> t, id |-> id]}

Leave(t, id) == actors' = {a \in actors : a.thread # t \/ a.id # id}

-----------------------------------------------------------------------------
(* /new                                                                     *)

\* The identity is drawn when the thread exists, seconds before it is reserved.
NewIdentity(t) ==
    /\ phase = "up" /\ ~NewInFlight /\ t \notin opened
    /\ opened' = opened \cup {t}
    /\ \E sid \in Sids :
        /\ Fresh(sid)
        /\ issued' = issued \cup {sid}
        /\ plan' = [plan EXCEPT ![t] =
                [id |-> [sid |-> sid, gen |-> NextGeneration(store)],
                 prev |-> None, reserved |-> FALSE, ended |-> FALSE]]
    /\ UNCHANGED <<store, file, phase, actors, delivered, crashes, used>>

\* The worktree stands and the binding is proved: reserve, or abort.
NewReserve(t) ==
    /\ phase = "up" /\ plan[t] # None /\ plan[t].prev = None /\ ~plan[t].reserved
    /\ \E ok \in Outcomes, b \in Binds :
        LET id == plan[t].id IN
        /\ Persist(Written(store, Reserve(store, t, NewRecord(id, 0, b)), ok))
        /\ plan' = [plan EXCEPT ![t] = IF ok THEN [@ EXCEPT !.reserved = TRUE] ELSE None]
        /\ IF ok THEN Use(t, id) ELSE UNCHANGED used
    /\ UNCHANGED <<phase, actors, issued, opened, delivered, crashes>>

\* The worktree or the binding could not be had; nothing durable exists yet.
NewAborts(t) ==
    /\ phase = "up" /\ plan[t] # None /\ plan[t].prev = None /\ ~plan[t].reserved
    /\ plan' = [plan EXCEPT ![t] = None]
    /\ UNCHANGED <<store, file, phase, actors, issued, opened, delivered, crashes, used>>

\* The runtime exists and its row is promoted; a failed commit retires it.
NewCommit(t) ==
    /\ phase = "up" /\ plan[t] # None /\ plan[t].prev = None /\ plan[t].reserved
    /\ \E ok \in Outcomes :
        /\ Persist(Written(store, Commit(store, t), ok))
        /\ IF ok THEN Enter(t, plan[t].id, 0) ELSE UNCHANGED actors
    /\ plan' = [plan EXCEPT ![t] = None]
    /\ UNCHANGED <<phase, issued, opened, delivered, crashes, used>>

\* createSession failed: the `creating` row is left for the next boot.
NewFails(t) ==
    /\ phase = "up" /\ plan[t] # None /\ plan[t].prev = None /\ plan[t].reserved
    /\ plan' = [plan EXCEPT ![t] = None]
    /\ UNCHANGED <<store, file, phase, actors, issued, opened, delivered, crashes, used>>

-----------------------------------------------------------------------------
(* A rebind, as the store sees it.                                          *)

Rebinding(t) == plan[t] # None /\ plan[t].prev # None

\* A rebind starts from a live actor whose own row is not a leftover reservation.
MayRebind(t) ==
    /\ phase = "up" /\ plan[t] = None
    /\ Live(t) # {} /\ store.sessions[t].state # "creating"

\* (Mutant: the target starts a budget of its own, as `/new` does.)
TargetAfresh(t, id, prev, b) == NewRecord(id, 0, b)

\* The target is reserved with the bytes its predecessor had already reserved.
Target(t, id, prev, b) == NewRecord(id, prev.bytes, b)

\* retainStaleRebind, then reserve, then (when that write fails) removeStaleRebind.
RebindReserve(t) ==
    /\ MayRebind(t)
    /\ \E sid \in Sids, b \in Binds, kept, reserved, undone \in Outcomes :
        LET prev == store.sessions[t]
            id == [sid |-> sid, gen |-> NextGeneration(store)]
            retained == Written(store, RetainStale(store, t, prev), kept)
            target == Written(retained, Reserve(retained, t, Target(t, id, prev, b)), kept /\ reserved)
            settled == Written(target, RemoveStale(target, t, IdOf(prev)), kept /\ ~reserved /\ undone)
        IN /\ Fresh(sid)
           /\ issued' = issued \cup {sid}
           /\ Persist(settled)
           /\ IF kept /\ reserved
              THEN /\ plan' = [plan EXCEPT ![t] = [id |-> id, prev |-> prev,
                                                   reserved |-> TRUE, ended |-> FALSE]]
                   /\ Use(t, id)
              ELSE UNCHANGED <<plan, used>>
    /\ UNCHANGED <<phase, actors, opened, delivered, crashes>>

\* (Mutant: the transaction may still roll back after it has committed.)
PlanKept(t) == plan[t]

\* The plan of a finished transaction is dropped with it.
PlanAfterCommit(t) == None

\* The replacement exists: commit and swap.
RebindCommit(t) ==
    /\ phase = "up" /\ Rebinding(t) /\ ~plan[t].ended
    /\ Persist(Commit(store, t))
    /\ Enter(t, plan[t].id, plan[t].prev.bytes)
    /\ plan' = [plan EXCEPT ![t] = PlanAfterCommit(t)]
    /\ UNCHANGED <<phase, issued, opened, delivered, crashes, used>>

\* Creation or the commit failed: the old record comes back under the exact
\* identity of the reservation, and only then is its terminal row dropped.
RebindFails(t) ==
    /\ phase = "up" /\ Rebinding(t) /\ ~plan[t].ended
    /\ \E back, dropped \in Outcomes :
        LET prev == plan[t].prev
            may == IsCurrent(store, t, plan[t].id) /\ back
            restored == Written(store, Restore(store, t, prev), may)
        IN Persist(Written(restored, RemoveStale(restored, t, IdOf(prev)), may /\ dropped))
    /\ plan' = [plan EXCEPT ![t] = None]
    /\ UNCHANGED <<phase, actors, issued, opened, delivered, crashes, used>>

\* `/end` won: the target's own reservation is removed, and nothing comes back.
RebindAbandons(t) ==
    /\ phase = "up" /\ Rebinding(t) /\ plan[t].ended
    /\ IF IsCurrent(store, t, plan[t].id)
       THEN Write(Remove(store, t)) ELSE UNCHANGED <<store, file>>
    /\ plan' = [plan EXCEPT ![t] = None]
    /\ UNCHANGED <<phase, actors, issued, opened, delivered, crashes, used>>

\* A detached incarnation is confirmed stopped and its row dropped.
OldGone(a) ==
    /\ phase = "up" /\ ~IsCurrent(store, a.thread, a.id)
    /\ Rebinding(a.thread) => IdOf(plan[a.thread].prev) # a.id
    /\ Leave(a.thread, a.id)
    /\ IF HasStale(store, a.thread, a.id)
       THEN Write(RemoveStale(store, a.thread, a.id)) ELSE UNCHANGED <<store, file>>
    /\ UNCHANGED <<phase, plan, issued, opened, delivered, crashes, used>>

-----------------------------------------------------------------------------
(* /end                                                                     *)

\* The runtime is confirmed stopped and the thread's own row removed, or
\* retired when its worktree is kept.
End(t) ==
    /\ phase = "up" /\ plan[t] = None
    /\ \E a \in Live(t) : Leave(t, a.id)
    /\ \/ Write(Remove(store, t))
       \/ Write(SetState(store, t, "blocked"))
    /\ UNCHANGED <<phase, plan, issued, opened, delivered, crashes, used>>

\* A row with no live session that is not waiting for a resume is reaped.
EndStale(t) ==
    /\ phase = "up" /\ plan[t] = None /\ ~NewInFlight
    /\ store.sessions[t] # None /\ store.sessions[t].state # "active" /\ Live(t) = {}
    /\ Write(Remove(store, t))
    /\ UNCHANGED <<phase, plan, actors, issued, opened, delivered, crashes, used>>

\* Inside a rebind it ends the old incarnation and leaves the reservation to
\* the transaction that made it.
EndDuringRebind(t) ==
    /\ phase = "up" /\ Rebinding(t) /\ ~plan[t].ended
    /\ LET old == IdOf(plan[t].prev) IN
        /\ Leave(t, old)
        /\ Write(RemoveStale(store, t, old))
    /\ plan' = [plan EXCEPT ![t].ended = TRUE]
    /\ UNCHANGED <<phase, issued, opened, delivered, crashes, used>>

-----------------------------------------------------------------------------
(* Attachments.                                                             *)

MayDeliver(a) == a.total < Limit

\* An actor reserves one more attachment before it sends it; a refusal or a
\* failed write leaves both totals alone and sends nothing.
Deliver(a) ==
    /\ phase = "up" /\ MayDeliver(a)
    /\ MayReserveBytes(store, a.thread, a.id, a.total, a.total + 1)
    /\ \E ok \in Outcomes :
        /\ Persist(Written(store, ReserveBytes(store, a.thread, a.total + 1), ok))
        /\ IF ok
           THEN /\ actors' = (actors \ {a}) \cup {[a EXCEPT !.total = @ + 1]}
                /\ delivered' = [delivered EXCEPT ![a.thread] = @ + 1]
           ELSE UNCHANGED <<actors, delivered>>
    /\ UNCHANGED <<phase, plan, issued, opened, crashes, used>>

-----------------------------------------------------------------------------
(* Dying and starting again.                                                *)

Crash ==
    /\ phase # "down" /\ crashes < MaxCrashes
    /\ phase' = "down" /\ crashes' = crashes + 1
    /\ actors' = {} /\ plan' = [t \in Threads |-> None]
    /\ UNCHANGED <<store, file, issued, opened, delivered, used>>

Load ==
    /\ phase = "down"
    /\ store' = Loaded(file)
    /\ phase' = "booting"
    /\ UNCHANGED <<file, plan, actors, issued, opened, delivered, crashes, used>>

Interrupted(t) == store.sessions[t] # None /\ store.sessions[t].state = "creating"

\* A reservation no process is completing is orphaned; a failed write is fatal.
Orphan(t) ==
    /\ phase = "booting" /\ Interrupted(t)
    /\ \E ok \in Outcomes :
        /\ Persist(Written(store, SetState(store, t, "orphaned"), ok))
        /\ phase' = IF ok THEN "booting" ELSE "down"
    /\ UNCHANGED <<plan, actors, issued, opened, delivered, crashes, used>>

Ready ==
    /\ phase = "booting" /\ \A t \in Threads : ~Interrupted(t)
    /\ phase' = "up"
    /\ UNCHANGED <<store, file, plan, actors, issued, opened, delivered, crashes, used>>

\* An active record is resumed as the incarnation it names, at its own total.
Resume(t) ==
    /\ phase = "booting"
    /\ store.sessions[t] # None /\ store.sessions[t].state = "active" /\ Live(t) = {}
    /\ \E ok \in Outcomes :
        /\ Persist(Written(store, Commit(store, t), ok))
        /\ IF ok THEN Enter(t, IdOf(store.sessions[t]), store.sessions[t].bytes)
                 ELSE UNCHANGED actors
    /\ UNCHANGED <<phase, plan, issued, opened, delivered, crashes, used>>

Next ==
    \/ \E t \in Threads :
        \/ NewIdentity(t) \/ NewReserve(t) \/ NewAborts(t) \/ NewCommit(t) \/ NewFails(t)
        \/ RebindReserve(t) \/ RebindCommit(t) \/ RebindFails(t) \/ RebindAbandons(t)
        \/ End(t) \/ EndStale(t) \/ EndDuringRebind(t) \/ Orphan(t) \/ Resume(t)
    \/ \E a \in actors : OldGone(a) \/ Deliver(a)
    \/ Crash \/ Load \/ Ready

Spec == Init /\ [][Next]_vars

-----------------------------------------------------------------------------
(* Properties.                                                              *)

\* A thread's incarnations are numbered upwards for good: no removal, rollback,
\* failed write or restart lets a generation come again that once fenced an actor
\* off, though the record that carried it is gone (session-store.ts, "Multi-session
\* note").  Two threads may share a generation, see the README.
GenerationsAdvance ==
    [][\A new \in used' \ used : \A old \in used :
          old.thread = new.thread => old.id.gen < new.id.gen]_vars

\* A thread's attachments never exceed the limit, and its record never forgets
\* one: not across a rebind, a rollback, a failed write or a restart.
BudgetCovered ==
    \A t \in Threads :
        /\ delivered[t] <= Limit
        /\ store.sessions[t] # None => delivered[t] <= store.sessions[t].bytes

\* A thread goes back to an older incarnation only from a reservation: once a
\* replacement has been committed, no rollback puts its predecessor back.
CommittedStays ==
    [][\A t \in Threads :
        LET old == store.sessions[t]
            new == store'.sessions[t]
        IN old # None /\ new # None /\ new.gen < old.gen => old.state = "creating"]_vars
=============================================================================
