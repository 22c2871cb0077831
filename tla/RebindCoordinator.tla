--------------------------- MODULE RebindCoordinator ---------------------------
(***************************************************************************)
(* Rebinding one Discord thread to another repository or mode              *)
(* (src/core/rebind-coordinator.ts), with what can happen to the thread    *)
(* over its awaits: `/end` in both forms (src/app.ts), the retries of the  *)
(* incarnations nobody could prove stopped, and the shutdown.              *)
(*                                                                         *)
(* An incarnation is one SDK session: its id, its immutable record, and    *)
(* what is known of its runtime.  A synchronous stretch of the code is one *)
(* action, however many store writes it makes; every await is a step       *)
(* boundary.  A binding in Trees is a worktree checkout, whose path is a   *)
(* function of the binding and the thread; any other is the repo itself.   *)
(***************************************************************************)
EXTENDS SessionStore

CONSTANTS
    Thread,         \* the Discord thread
    Trees,          \* the bindings that are worktrees
    Removal,        \* a fallback plan that may only remove the reservation
    Events,         \* what may happen beside rebinds, see RebindAssumption
    WritesFail      \* whether a write of the store may fail

ASSUME RebindAssumption ==
    /\ Thread \in Threads /\ Trees \subseteq Binds /\ WritesFail \in BOOLEAN
    /\ None \notin Record /\ Removal \notin Record /\ Removal # None /\ None \notin Sids
    /\ Events \subseteq {"end",     \* the operator ends the thread
                         "reend",   \* ... again, before a rebind has let go of it
                         "stop",    \* the process is asked to stop, if nobody ended
                         "overtake", \* ... or even if somebody did
                         "revisit"} \* ... rebinds to a binding it had before

VARIABLES
    store,      \* the session store, memory and file
    runtime,    \* per session id: unused, starting, maybe (running), stopped
    rec,        \* the record each incarnation was created under
    trees,      \* the worktrees on disk
    live,       \* the session the thread's map entry holds
    ended,      \* endedSessions
    pendingOld, \* pendingRebindOlds: sessions with a durable companion row
    fenced,     \* actors whose file delivery is suspended
    tracked,    \* staleRebindActors
    fallback,   \* their fallbackPrimary
    owed,       \* obligations registered for this thread's runtimes
    disc,       \* their `disconnecting` operation
    retry,      \* retries scheduled on the microtask queue
    tx,         \* the rebind transaction
    end,        \* the `/end` in progress
    stop,       \* how far the shutdown has come
    sweep,      \* whose teardown `/end` and the shutdown are still to join
    gaveUp      \* sessions `/end` has reported ended

world == <<runtime, rec, trees>>
session == <<live, ended, pendingOld, fenced>>
detached == <<tracked, fallback, owed, disc, retry>>
procs == <<tx, end, stop, sweep, gaveUp>>
vars == <<store, world, session, detached, procs>>

Outcomes == IF WritesFail THEN BOOLEAN ELSE {TRUE}

Phases == {"checking", "opening", "capturing", "unreserved", "creating",
           "uncommitted", "retiring", "abandoning", "joining", "undoing"}

Transaction == [pc : Phases, old : Sids, new : Sids \cup {None},
                prev : Record \cup {None}, bind : Binds,
                created : BOOLEAN, lost : {"no", "operator", "shutdown"}]

EndPhases == {"asking", "joining", "cleaning", "settling", "reclaiming",
              "reconciling", "rows"}

Ending == [pc : EndPhases, sid : Sids \cup {None}, pending : BOOLEAN]

ASSUME NoneIsNoCommand == None \notin Transaction \cup Ending

Joins == [todo : SUBSET Sids, wait : Sids \cup {None}]

TypeOK ==
    /\ store \in StoreValue
    /\ runtime \in [Sids -> {"unused", "starting", "maybe", "stopped"}]
    /\ rec \in [Sids -> Record \cup {None}]
    /\ trees \subseteq Trees
    /\ live \in Sids \cup {None} /\ ended \subseteq Sids
    /\ pendingOld \subseteq Sids /\ fenced \subseteq Sids
    /\ tracked \subseteq Sids /\ owed \subseteq Sids /\ retry \subseteq Sids
    /\ fallback \in [Sids -> Record \cup {None, Removal}]
    /\ disc \in [Sids -> {"idle", "asked", "cleaning"}]
    /\ tx \in Transaction \cup {None} /\ end \in Ending \cup {None}
    /\ stop \in {"running", "sweeping", "closing", "asking", "settling", "down"}
    /\ sweep \in [{"end", "stop"} -> Joins]
    /\ gaveUp \subseteq Sids

Nobody == [todo |-> {}, wait |-> None]

Init ==
    \E s \in Sids, b \in Binds :
        LET r == [sid |-> s, gen |-> 1, state |-> "active", bytes |-> 0, bind |-> b] IN
        /\ store = WithPrimary(EmptyStore, Thread, r)
        /\ runtime = [x \in Sids |-> IF x = s THEN "maybe" ELSE "unused"]
        /\ rec = [x \in Sids |-> IF x = s THEN r ELSE None]
        /\ trees = Trees \cap {b}
        /\ live = s /\ ended = {} /\ pendingOld = {} /\ fenced = {}
        /\ tracked = {} /\ owed = {} /\ retry = {}
        /\ fallback = [x \in Sids |-> None] /\ disc = [x \in Sids |-> "idle"]
        /\ tx = None /\ end = None /\ stop = "running"
        /\ sweep = [p \in {"end", "stop"} |-> Nobody]
        /\ gaveUp = {}

-----------------------------------------------------------------------------
(* What every lifecycle asks.                                               *)

Primary == store.sessions[Thread]

\* May a transaction that set out from session o still install anything?
OwnsSession(o) == live = o /\ o \notin ended /\ stop = "running"

Owns == OwnsSession(tx.old)

\* (Mutant: a shutdown counts as the operator's decision.)
LostToOperator == "operator"

\* Why it was lost, decided when the loss is first seen and never re-asked.
Lost == IF tx.lost # "no" THEN tx.lost
        ELSE IF stop = "running" THEN "operator" ELSE "shutdown"

GivenUp == Lost = "operator"

HasUnreconciledFallback == \E s \in tracked : fallback[s] # None

HadBefore(b) == \E s \in Sids : rec[s] # None /\ rec[s].bind = b

\* markFallbackPrimaryEnded
AllToRemoval == [s \in Sids |-> IF s \in tracked /\ fallback[s] # None
                                THEN Removal ELSE fallback[s]]

GoTo(pc) == tx' = [tx EXCEPT !.pc = pc]

\* (Mutant: nothing gives file delivery back.)
UnfenceForgotten == UNCHANGED fenced

\* restoreOldFileDelivery
Unfence == fenced' = IF Owns THEN fenced \ {tx.old} ELSE fenced

\* The shared rollback takes over; it starts by deciding who won.
GiveWay(x) == tx' = [x EXCEPT !.pc = "abandoning", !.lost = Lost]

\* (Mutant: the actor is indexed without an obligation.)
KeepIndexed(s) ==
    /\ tracked' = tracked \cup {s}
    /\ retry' = retry \cup {s}
    /\ UNCHANGED owed

\* Index and obligation of an incarnation that must not be forgotten, and the
\* retry they schedule.
Keep(s) ==
    /\ tracked' = tracked \cup {s}
    /\ owed' = owed \cup {s}
    /\ retry' = retry \cup {s}

\* git removes a clean worktree, or keeps one it cannot prove removable.
RemoveTree(b, gone) ==
    /\ (b \notin trees) => gone
    /\ trees' = IF gone THEN trees \ {b} ELSE trees

-----------------------------------------------------------------------------
(* The phases of a rebind.                                                  *)

Begin(b) ==
    /\ stop = "running" /\ tx = None /\ live # None /\ live \notin ended
    /\ b # rec[live].bind
    /\ HadBefore(b) => "revisit" \in Events
    /\ ~HasUnreconciledFallback
    /\ Primary # None => Primary.state # "creating"
    /\ \E s \in Sids : runtime[s] = "unused"    \* bound: session ids left
    /\ tx' = [pc |-> "checking", old |-> live, new |-> None, prev |-> None,
              bind |-> b, created |-> FALSE, lost |-> "no"]
    /\ fenced' = fenced \cup {live}
    /\ UNCHANGED <<store, world, live, ended, pendingOld, detached, end, stop, sweep, gaveUp>>

\* The last blocker is git's opinion of the old worktree.
Checked ==
    /\ tx # None /\ tx.pc = "checking"
    /\ \/ /\ tx' = None /\ Unfence
       \/ /\ Owns
          /\ GoTo(IF tx.bind \in Trees THEN "opening" ELSE "capturing")
          /\ UNCHANGED fenced
    /\ UNCHANGED <<store, world, live, ended, pendingOld, detached, end, stop, sweep, gaveUp>>

\* A directory that is already there is reused, and counts as created.
OpenTree ==
    /\ tx # None /\ tx.pc = "opening"
    /\ \/ tx' = None /\ Unfence /\ UNCHANGED trees
       \/ /\ trees' = trees \cup {tx.bind}
          /\ tx' = [tx EXCEPT !.created = TRUE,
                              !.pc = IF Owns THEN "capturing" ELSE "undoing"]
          /\ UNCHANGED fenced
    /\ UNCHANGED <<store, runtime, rec, live, ended, pendingOld, detached, end, stop, sweep, gaveUp>>

CaptureFails ==
    /\ tx # None /\ tx.pc = "capturing"
    /\ IF Owns THEN GoTo("undoing") ELSE GiveWay(tx)
    /\ Unfence
    /\ fallback' = IF ~Owns /\ GivenUp THEN AllToRemoval ELSE fallback
    /\ UNCHANGED <<store, world, live, ended, pendingOld, tracked, owed, disc, retry,
                   end, stop, sweep, gaveUp>>

\* (Mutant: no companion row.)
CompanionDropped(s, prev) == s

\* The companion row of the incarnation about to lose the slot.
Companion(s, prev) == RetainStale(s, Thread, prev)

\* The root is captured; the old incarnation gets its companion row and the
\* target takes the slot, and its session is asked for, before the next await.
CaptureAndReserve ==
    /\ tx # None /\ tx.pc = "capturing" /\ Owns
    /\ IF Primary = None
       THEN GoTo("undoing") /\ Unfence /\ UNCHANGED <<store, runtime, rec, pendingOld>>
       ELSE \E kept, reserved \in Outcomes, s \in Sids :
            LET prev == Primary
                r == [sid |-> s, gen |-> NextGeneration(store), state |-> "creating",
                      bytes |-> prev.bytes, bind |-> tx.bind]
                retained == Written(store, Companion(store, prev), kept)
            IN /\ runtime[s] = "unused"
               /\ store' = Written(retained, Reserve(retained, Thread, r), kept /\ reserved)
               /\ pendingOld' = IF kept THEN pendingOld \cup {tx.old} ELSE pendingOld
               /\ \/ /\ kept /\ reserved
                     /\ tx' = [tx EXCEPT !.pc = "creating", !.new = s, !.prev = prev]
                     /\ runtime' = [runtime EXCEPT ![s] = "starting"]
                     /\ rec' = [rec EXCEPT ![s] = r]
                     /\ UNCHANGED fenced
                  \/ /\ kept /\ ~reserved
                     /\ tx' = [tx EXCEPT !.pc = "unreserved", !.prev = prev]
                     /\ UNCHANGED <<runtime, rec, fenced>>
                  \/ /\ ~kept
                     /\ GoTo("undoing") /\ Unfence
                     /\ UNCHANGED <<runtime, rec>>
    /\ UNCHANGED <<trees, live, ended, detached, end, stop, sweep, gaveUp>>

\* The reservation could not be written and the root has been closed.
Unreserved ==
    /\ tx # None /\ tx.pc = "unreserved"
    /\ \/ /\ Owns
          /\ pendingOld' = pendingOld \ {tx.old}
          /\ \E ok \in Outcomes :
                store' = Written(store, RemoveStale(store, Thread, IdOf(tx.prev)), ok)
          /\ GoTo("undoing") /\ Unfence
          /\ UNCHANGED fallback
       \/ /\ ~Owns
          /\ GiveWay(tx)
          /\ fallback' = IF GivenUp THEN AllToRemoval ELSE fallback
          /\ UNCHANGED <<store, pendingOld, fenced>>
    /\ UNCHANGED <<world, live, ended, tracked, owed, disc, retry, end, stop, sweep, gaveUp>>

\* Put the old record back under the target's exact identity, and only then
\* forget its companion row; the old actor delivers files again.
RollBack(before, back, dropped) ==
    LET may == IsCurrent(before, Thread, IdOf(rec[tx.new])) /\ back
        restored == Written(before, Restore(before, Thread, tx.prev), may)
    IN /\ store' = Written(restored, RemoveStale(restored, Thread, IdOf(tx.prev)), may /\ dropped)
       /\ pendingOld' = IF may THEN pendingOld \ {tx.old} ELSE pendingOld
       /\ fenced' = IF may /\ Owns THEN fenced \ {tx.old} ELSE fenced

CreateFails ==
    /\ tx # None /\ tx.pc = "creating"
    /\ runtime' = [runtime EXCEPT ![tx.new] = "stopped"]
    /\ \/ /\ Owns
          /\ \E back, dropped \in Outcomes : RollBack(store, back, dropped)
          /\ GoTo("undoing") /\ UNCHANGED fallback
       \/ /\ ~Owns
          /\ GiveWay(tx)
          /\ fallback' = IF GivenUp THEN AllToRemoval ELSE fallback
          /\ UNCHANGED <<store, pendingOld, fenced>>
    /\ UNCHANGED <<rec, trees, live, ended, tracked, owed, disc, retry, end, stop, sweep, gaveUp>>

\* The replacement was created for a thread that is no longer this rebind's.
CreatedTooLate ==
    /\ tx # None /\ tx.pc = "creating" /\ ~Owns
    /\ runtime' = [runtime EXCEPT ![tx.new] = "maybe"]
    /\ GiveWay(tx)
    /\ fallback' = IF GivenUp THEN AllToRemoval ELSE fallback
    /\ UNCHANGED <<store, rec, trees, session, tracked, owed, disc, retry, end, stop, sweep, gaveUp>>

\* Commit, swap, and hand the predecessor to the detached incarnations, with
\* no await between them.
Swap ==
    /\ tx # None /\ tx.pc = "creating" /\ Owns
    /\ runtime' = [runtime EXCEPT ![tx.new] = "maybe"]
    /\ \E kept \in Outcomes :
        LET committed == Commit(store, Thread)
        IN store' = Written(committed, Companion(committed, tx.prev), kept)
    /\ live' = tx.new
    /\ pendingOld' = pendingOld \ {tx.old}
    /\ Keep(tx.old)
    /\ disc' = [disc EXCEPT ![tx.old] = "asked"]
    /\ GoTo("retiring")
    /\ UNCHANGED <<rec, trees, ended, fenced, fallback, end, stop, sweep, gaveUp>>

CommitFails ==
    /\ WritesFail
    /\ tx # None /\ tx.pc = "creating" /\ Owns
    /\ runtime' = [runtime EXCEPT ![tx.new] = "maybe"]
    /\ GoTo("uncommitted")
    /\ UNCHANGED <<store, rec, trees, session, detached, end, stop, sweep, gaveUp>>

\* (Mutant: waits for the proof instead of for the answer.)
RetiredOnceStopped ==
    /\ tx # None /\ tx.pc = "retiring" /\ runtime[tx.old] = "stopped"
    /\ tx' = None
    /\ UNCHANGED <<store, world, session, detached, end, stop, sweep, gaveUp>>

\* The predecessor's teardown has an answer; an unconfirmed one is retried once.
Retired ==
    /\ tx # None /\ tx.pc = "retiring" /\ disc[tx.old] = "idle"
    /\ retry' = IF runtime[tx.old] = "maybe" THEN retry \cup {tx.old} ELSE retry
    /\ tx' = None
    /\ UNCHANGED <<store, world, session, tracked, fallback, owed, disc, end, stop, sweep, gaveUp>>

\* After a failed commit the replacement is confirmed stopped ...
UncommittedCloses ==
    /\ tx # None /\ tx.pc = "uncommitted"
    /\ runtime' = [runtime EXCEPT ![tx.new] = "stopped"]
    /\ \/ /\ Owns
          /\ \E back, dropped \in Outcomes : RollBack(store, back, dropped)
          /\ GoTo("undoing") /\ UNCHANGED fallback
       \/ /\ ~Owns
          /\ GiveWay(tx)
          /\ fallback' = IF GivenUp THEN AllToRemoval ELSE fallback
          /\ UNCHANGED <<store, pendingOld, fenced>>
    /\ UNCHANGED <<rec, trees, live, ended, tracked, owed, disc, retry, end, stop, sweep, gaveUp>>

\* ... or it is not, and gets a terminal row of its own; without one, its
\* reservation is the only durable pointer to it and stays.
UncommittedStays ==
    /\ tx # None /\ tx.pc = "uncommitted"
    /\ Keep(tx.new)
    /\ \E durable, back, dropped \in Outcomes :
        LET retained == Written(store, Companion(store, rec[tx.new]), durable)
            plan == IF Owns THEN tx.prev ELSE Removal
        IN /\ fallback' = IF durable THEN fallback ELSE [fallback EXCEPT ![tx.new] = plan]
           /\ \/ /\ Owns /\ durable
                 /\ RollBack(retained, back, dropped)
                 /\ tx' = None
              \/ /\ Owns /\ ~durable
                 /\ tx' = None
                 /\ store' = retained /\ UNCHANGED <<pendingOld, fenced>>
              \/ /\ ~Owns
                 /\ GiveWay(tx)
                 /\ store' = retained /\ UNCHANGED <<pendingOld, fenced>>
    /\ UNCHANGED <<world, live, ended, disc, end, stop, sweep, gaveUp>>

-----------------------------------------------------------------------------
(* abandonRebind: one rollback for `/end` and for the shutdown.             *)

HasReplacement == tx.new # None /\ runtime[tx.new] = "maybe"

\* (Mutant: the old record comes back, whoever won.)
SettleSlotByRestoring(before, back, dropped) ==
    IF tx.new = None
    THEN store' = before /\ UNCHANGED <<pendingOld, fenced>>
    ELSE RollBack(before, back, dropped)

\* `/end` gave the old conversation up, so the reservation is removed; a
\* shutdown gave up nothing, so the old record comes back.
SettleSlot(before, back, dropped) ==
    IF tx.new = None
    THEN store' = before /\ UNCHANGED <<pendingOld, fenced>>
    ELSE IF GivenUp
    THEN /\ store' = Written(before, Remove(before, Thread),
                             IsCurrent(before, Thread, IdOf(rec[tx.new])) /\ back)
         /\ UNCHANGED <<pendingOld, fenced>>
    ELSE RollBack(before, back, dropped)

\* A replacement held behind its reservation is settled with it, in one write.
AbandonTracked ==
    /\ tx # None /\ tx.pc = "abandoning"
    /\ HasReplacement /\ tx.new \in tracked /\ fallback[tx.new] # None
    /\ disc' = [disc EXCEPT ![tx.new] = IF @ = "idle" THEN "asked" ELSE @]
    /\ GoTo("joining")
    /\ UNCHANGED <<store, world, session, tracked, fallback, owed, retry, end, stop, sweep, gaveUp>>

AbandonJoined ==
    /\ tx # None /\ tx.pc = "joining" /\ disc[tx.new] = "idle"
    /\ tx' = None
    /\ UNCHANGED <<store, world, session, detached, end, stop, sweep, gaveUp>>

\* Nothing was created, or what was created is confirmed stopped now.
AbandonStopped ==
    /\ tx # None /\ tx.pc = "abandoning"
    /\ HasReplacement => tx.new \notin tracked \/ fallback[tx.new] = None
    /\ runtime' = IF HasReplacement THEN [runtime EXCEPT ![tx.new] = "stopped"] ELSE runtime
    /\ \E back, dropped \in Outcomes : SettleSlot(store, back, dropped)
    /\ GoTo("undoing")
    /\ UNCHANGED <<rec, trees, live, ended, detached, end, stop, sweep, gaveUp>>

\* The replacement may still be running: its reservation goes only once a
\* terminal row says why.
AbandonUnconfirmed ==
    /\ tx # None /\ tx.pc = "abandoning" /\ HasReplacement
    /\ tx.new \notin tracked \/ fallback[tx.new] = None
    /\ Keep(tx.new)
    /\ \E durable, back, dropped \in Outcomes :
        LET retained == Written(store, Companion(store, rec[tx.new]), durable)
            plan == IF GivenUp THEN Removal ELSE tx.prev
        IN IF durable
           THEN SettleSlot(retained, back, dropped) /\ UNCHANGED fallback
           ELSE /\ fallback' = [fallback EXCEPT ![tx.new] = plan]
                /\ UNCHANGED <<store, pendingOld, fenced>>
    /\ tx' = None
    /\ UNCHANGED <<world, live, ended, disc, end, stop, sweep, gaveUp>>

Undo ==
    /\ tx # None /\ tx.pc = "undoing"
    /\ \E gone \in BOOLEAN :
        IF tx.created THEN RemoveTree(tx.bind, gone) ELSE UNCHANGED trees
    /\ tx' = None
    /\ UNCHANGED <<store, runtime, rec, session, detached, end, stop, sweep, gaveUp>>

-----------------------------------------------------------------------------
(* disconnectStaleRebindActor, joined by everyone who asks for it.          *)

Ask(s) == disc' = [disc EXCEPT ![s] = IF @ = "idle" THEN "asked" ELSE @]

Retry(s) ==
    /\ s \in retry
    /\ retry' = retry \ {s}
    /\ IF s \in tracked THEN Ask(s) ELSE UNCHANGED disc
    /\ UNCHANGED <<store, world, session, tracked, fallback, owed, procs>>

StaysUnconfirmed(s) ==
    /\ disc[s] = "asked" /\ runtime[s] = "maybe"
    /\ \E ok \in Outcomes : store' = Written(store, Companion(store, rec[s]), ok)
    /\ tracked' = tracked \cup {s}
    /\ disc' = [disc EXCEPT ![s] = "idle"]
    /\ UNCHANGED <<world, session, fallback, owed, retry, procs>>

\* (Mutant: a timeout passes for a confirmation.)
ConfirmedByTimeout(s) ==
    /\ disc[s] = "asked"
    /\ disc' = [disc EXCEPT ![s] = "cleaning"]
    /\ UNCHANGED <<store, world, session, tracked, fallback, owed, retry, procs>>

Confirmed(s) ==
    /\ disc[s] = "asked"
    /\ runtime' = [runtime EXCEPT ![s] = "stopped"]
    /\ disc' = [disc EXCEPT ![s] = "cleaning"]
    /\ UNCHANGED <<store, rec, trees, session, tracked, fallback, owed, retry, procs>>

\* Its worktree is kept, so its row is too; the runtime no longer holds the lock.
CleanupKept(s) ==
    /\ disc[s] = "cleaning"
    /\ rec[s].bind \in Trees
    /\ RemoveTree(rec[s].bind, FALSE)
    /\ \E ok \in Outcomes : store' = Written(store, Companion(store, rec[s]), ok)
    /\ owed' = owed \ {s}
    /\ disc' = [disc EXCEPT ![s] = "idle"]
    /\ UNCHANGED <<runtime, rec, session, tracked, fallback, retry, procs>>

\* Its worktree is gone, and so is its row.
CleanupDone(s) ==
    /\ disc[s] = "cleaning" /\ fallback[s] = None
    /\ RemoveTree(rec[s].bind, TRUE)
    /\ \E ok \in Outcomes :
        LET cleaned == ok \/ ~HasStale(store, Thread, IdOf(rec[s])) IN
        /\ store' = Written(store, RemoveStale(store, Thread, IdOf(rec[s])), cleaned)
        /\ tracked' = IF cleaned THEN tracked \ {s} ELSE tracked
    /\ owed' = owed \ {s}
    /\ disc' = [disc EXCEPT ![s] = "idle"]
    /\ UNCHANGED <<runtime, rec, session, fallback, retry, procs>>

\* Its worktree is gone, and its reservation and rows are settled in one write:
\* the old record comes back only to a thread that still owns it.
CleanupFallback(s) ==
    /\ disc[s] = "cleaning" /\ fallback[s] # None
    /\ RemoveTree(rec[s].bind, TRUE)
    /\ LET restores == fallback[s] # Removal /\ OwnsSession(fallback[s].sid)
           plan == IF restores THEN fallback[s] ELSE Removal
           ids == {IdOf(rec[s])} \cup (IF restores THEN {IdOf(plan)} ELSE {})
           original == IF restores THEN plan ELSE None
       IN \E ok \in Outcomes :
            LET done == ok /\ MayReconcileFallback(store, Thread, IdOf(rec[s])) IN
            /\ store' = Written(store, ReconcileFallback(store, Thread, original, ids), done)
            /\ tracked' = IF done THEN tracked \ {s} ELSE tracked
            /\ fallback' = [fallback EXCEPT ![s] = IF done THEN None ELSE plan]
            /\ pendingOld' = IF done /\ restores THEN pendingOld \ {plan.sid} ELSE pendingOld
            /\ fenced' = IF done /\ restores THEN fenced \ {plan.sid} ELSE fenced
    /\ owed' = owed \ {s}
    /\ disc' = [disc EXCEPT ![s] = "idle"]
    /\ UNCHANGED <<runtime, rec, live, ended, retry, procs>>

\* settleDetached and the sweeps join one teardown after another.
Settled(p) == sweep[p] = Nobody

SettleNext(p) ==
    /\ sweep[p].wait = None
    /\ \E s \in sweep[p].todo :
        /\ sweep' = [sweep EXCEPT ![p] = [todo |-> @.todo \ {s},
                                          wait |-> IF s \in tracked THEN s ELSE None]]
        /\ IF s \in tracked THEN Ask(s) ELSE UNCHANGED disc
    /\ UNCHANGED <<store, world, session, tracked, fallback, owed, retry, tx, end, stop, gaveUp>>

SettleJoined(p) ==
    /\ sweep[p].wait # None /\ disc[sweep[p].wait] = "idle"
    /\ sweep' = [sweep EXCEPT ![p].wait = None]
    /\ UNCHANGED <<store, world, session, detached, tx, end, stop, gaveUp>>

Settle(p, sids) == sweep' = [sweep EXCEPT ![p].todo = sids]

-----------------------------------------------------------------------------
(* /end in a thread with a live session.                                    *)

EndAt(pc) == end' = [end EXCEPT !.pc = pc]

\* Everything `/end` claims, it claims before its first await.
EndLive ==
    /\ "end" \in Events /\ stop = "running" /\ end = None /\ live # None
    /\ ended' = ended \cup {live}
    /\ fallback' = AllToRemoval
    /\ end' = [pc |-> "asking", sid |-> live, pending |-> live \in pendingOld]
    /\ UNCHANGED <<store, world, live, pendingOld, fenced, tracked, owed, disc, retry,
                   tx, stop, sweep, gaveUp>>

\* The runtime may still be live: the session stays mapped as a barrier.
EndUnconfirmed ==
    /\ end # None /\ end.pc = "asking"
    /\ IF end.pending
       THEN /\ Keep(end.sid)
            /\ \E ok \in Outcomes : store' = Written(store, Companion(store, rec[end.sid]), ok)
       ELSE UNCHANGED <<store, tracked, owed, retry>>
    /\ Settle("end", tracked') /\ EndAt("joining")
    /\ UNCHANGED <<world, session, fallback, disc, tx, stop, gaveUp>>

EndRefuses ==
    /\ end # None /\ end.pc = "joining" /\ Settled("end")
    /\ end' = None
    /\ UNCHANGED <<store, world, session, detached, tx, stop, sweep, gaveUp>>

\* It stopped: the map entry goes, and a companion row is finished first.
EndConfirmed ==
    /\ end # None /\ end.pc = "asking"
    /\ runtime' = [runtime EXCEPT ![end.sid] = "stopped"]
    /\ live' = None
    /\ IF end.pending
       THEN /\ pendingOld' = pendingOld \ {end.sid}
            /\ IF end.sid \in tracked
               THEN Settle("end", {end.sid}) /\ EndAt("settling")
               ELSE UNCHANGED sweep /\ EndAt("cleaning")
       ELSE Settle("end", tracked) /\ EndAt("settling") /\ UNCHANGED pendingOld
    /\ UNCHANGED <<store, rec, trees, ended, fenced, detached, tx, stop, gaveUp>>

\* The companion's own cleanup: its worktree first, then its row.
EndCleans ==
    /\ end # None /\ end.pc = "cleaning"
    /\ \E gone \in BOOLEAN, ok \in Outcomes :
        /\ gone \/ rec[end.sid].bind \in Trees
        /\ RemoveTree(rec[end.sid].bind, gone)
        /\ store' = Written(store, IF gone THEN RemoveStale(store, Thread, IdOf(rec[end.sid]))
                                           ELSE Companion(store, rec[end.sid]), ok)
    /\ Settle("end", tracked) /\ EndAt("settling")
    /\ UNCHANGED <<runtime, rec, session, detached, tx, stop, gaveUp>>

\* With a companion settled the command is over; the slot is the rebind's.
EndReports ==
    /\ end # None /\ end.pc = "settling" /\ Settled("end") /\ end.pending
    /\ end' = None /\ gaveUp' = gaveUp \cup {end.sid}
    /\ UNCHANGED <<store, world, session, detached, tx, stop, sweep>>

\* reclaim: a kept worktree retires the record, otherwise it is removed.
Reclaim(b) ==
    \E gone \in BOOLEAN, ok \in Outcomes :
        /\ gone \/ b \in Trees
        /\ RemoveTree(b, gone)
        /\ store' = IF gone THEN Written(store, Remove(store, Thread), ok)
                    ELSE IF Primary = None THEN store
                    ELSE Written(store, SetState(store, Thread, "blocked"), ok)
        /\ gaveUp' = IF ok /\ end.sid # None THEN gaveUp \cup {end.sid} ELSE gaveUp

EndReclaims ==
    /\ end # None /\ end.pc = "settling" /\ Settled("end") /\ ~end.pending
    /\ Reclaim(rec[end.sid].bind)
    /\ end' = None
    /\ UNCHANGED <<runtime, rec, session, detached, tx, stop, sweep>>

-----------------------------------------------------------------------------
(* /end for a thread without a live session (endStaleRecord).               *)

EndStale ==
    /\ "end" \in Events /\ stop = "running" /\ end = None /\ live = None
    /\ tx # None => "reend" \in Events
    /\ IF HasUnreconciledFallback THEN Settle("end", tracked) ELSE UNCHANGED sweep
    /\ end' = [pc |-> "reconciling", sid |-> None, pending |-> FALSE]
    /\ UNCHANGED <<store, world, session, detached, tx, stop, gaveUp>>

\* An unsettled fallback or an active record refuses; a terminal or interrupted
\* record is reclaimed; rows alone are settled first.
EndLooks ==
    /\ end # None /\ end.pc = "reconciling" /\ Settled("end")
    /\ \/ /\ \/ HasUnreconciledFallback
             \/ Primary = None /\ RowsOf(store, Thread) = {}
             \/ Primary # None /\ Primary.state = "active"
          /\ end' = None /\ UNCHANGED sweep
       \/ /\ ~HasUnreconciledFallback /\ Primary = None /\ RowsOf(store, Thread) # {}
          /\ Settle("end", tracked) /\ EndAt("rows")
       \/ /\ ~HasUnreconciledFallback /\ Primary # None /\ Primary.state # "active"
          /\ end' = [end EXCEPT !.pc = "reclaiming", !.sid = Primary.sid] /\ UNCHANGED sweep
    /\ UNCHANGED <<store, world, session, detached, tx, stop, gaveUp>>

EndReclaimsRecord ==
    /\ end # None /\ end.pc = "reclaiming"
    /\ Reclaim(rec[end.sid].bind)
    /\ end' = None
    /\ UNCHANGED <<runtime, rec, session, detached, tx, stop, sweep>>

\* Rows are reaped only when this process holds none of their incarnations.
EndReapsRow ==
    /\ end # None /\ end.pc = "rows" /\ Settled("end")
    /\ \/ /\ tracked # {} \/ RowsOf(store, Thread) = {}
          /\ end' = None /\ UNCHANGED <<store, trees>>
       \/ /\ tracked = {}
          /\ \E row \in RowsOf(store, Thread), gone \in BOOLEAN, ok \in Outcomes :
                /\ gone \/ row.bind \in Trees
                /\ RemoveTree(row.bind, gone)
                /\ store' = Written(store, RemoveStale(store, Thread, IdOf(row)), gone /\ ok)
                /\ end' = IF gone /\ ok THEN end ELSE None
    /\ UNCHANGED <<runtime, rec, session, detached, tx, stop, sweep, gaveUp>>

-----------------------------------------------------------------------------
(* The shutdown, as far as this thread's runtimes go: obligations are swept *)
(* first, then the live session is torn down, then the detached ones.       *)

\* Nobody has typed `/end`.
Unended ==
    IF stop = "running" THEN end = None /\ ended = {} ELSE "overtake" \notin Events

Stop ==
    /\ "stop" \in Events /\ stop = "running"
    /\ Unended \/ "overtake" \in Events
    /\ stop' = "sweeping"
    /\ Settle("stop", owed)
    /\ UNCHANGED <<store, world, session, detached, tx, end, gaveUp>>

TearDown ==
    /\ stop = "sweeping" /\ Settled("stop")
    /\ IF live = None
       THEN stop' = "settling" /\ Settle("stop", tracked) /\ UNCHANGED <<ended, owed>>
       ELSE /\ stop' = "asking" /\ UNCHANGED sweep
            /\ ended' = ended \cup {live}
            /\ owed' = owed \cup {live}
    /\ UNCHANGED <<store, world, live, pendingOld, fenced, tracked, fallback, disc, retry,
                   tx, end, gaveUp>>

\* The live session is confirmed stopped or stays owed; either way it is unmapped.
TornDown ==
    /\ stop = "asking"
    /\ \/ /\ live # None
          /\ runtime' = [runtime EXCEPT ![live] = "stopped"]
          /\ owed' = owed \ {live}
       \/ UNCHANGED <<runtime, owed>>
    /\ live' = None
    /\ stop' = "settling" /\ Settle("stop", tracked)
    /\ UNCHANGED <<store, rec, trees, ended, pendingOld, fenced, tracked, fallback, disc, retry,
                   tx, end, gaveUp>>

Down ==
    /\ stop = "settling" /\ Settled("stop")
    /\ stop' = "down"
    /\ UNCHANGED <<store, world, session, detached, tx, end, sweep, gaveUp>>

-----------------------------------------------------------------------------

RebindStep ==
    \/ Checked \/ OpenTree \/ CaptureFails \/ CaptureAndReserve \/ Unreserved
    \/ CreateFails \/ CreatedTooLate \/ Swap \/ CommitFails \/ Retired
    \/ UncommittedCloses \/ UncommittedStays
    \/ AbandonTracked \/ AbandonJoined \/ AbandonStopped \/ AbandonUnconfirmed
    \/ Undo

Teardown(s) ==
    \/ Retry(s) \/ StaysUnconfirmed(s) \/ Confirmed(s)
    \/ CleanupKept(s) \/ CleanupDone(s) \/ CleanupFallback(s)

EndStep ==
    \/ EndUnconfirmed \/ EndRefuses \/ EndConfirmed \/ EndCleans \/ EndReports \/ EndReclaims
    \/ EndLooks \/ EndReclaimsRecord \/ EndReapsRow

StopStep == TearDown \/ TornDown \/ Down

Next ==
    \/ \E b \in Binds : Begin(b)
    \/ EndLive \/ EndStale \/ Stop
    \/ RebindStep \/ EndStep \/ StopStep
    \/ \E s \in Sids : Teardown(s)
    \/ \E p \in {"end", "stop"} : SettleNext(p) \/ SettleJoined(p)

Spec == Init /\ [][Next]_vars

\* Every await is bounded by a timeout or by git's and the SDK's own answer, so
\* what has been started goes on; nobody has to type a command.  Who awaits a
\* teardown is resumed by its end, even when another one of the same actor
\* follows: hence strong fairness for the joins.
FairSpec ==
    /\ Spec
    /\ WF_vars(RebindStep) /\ WF_vars(EndStep) /\ WF_vars(StopStep)
    /\ SF_vars(Retired \/ AbandonJoined)
    /\ \A s \in Sids : WF_vars(Teardown(s))
    /\ \A p \in {"end", "stop"} : WF_vars(SettleNext(p)) /\ SF_vars(SettleJoined(p))

-----------------------------------------------------------------------------
(* Properties.                                                              *)

Recorded(s) ==
    \/ IsCurrent(store, Thread, IdOf(rec[s]))
    \/ HasStale(store, Thread, IdOf(rec[s]))

\* A runtime that exists, or may be coming into existence, always has a durable
\* row with its own identity: a crash leaves no runtime nobody can name.
RuntimeRecorded ==
    \A s \in Sids : runtime[s] \in {"starting", "maybe"} => Recorded(s)

\* A runtime nobody could prove stopped is the live session's, the running
\* rebind's, or an obligation that holds the process lock: never nobody's.
RuntimeGatesLock ==
    \A s \in Sids : runtime[s] = "maybe" =>
        s = live \/ s \in owed \/ (tx # None /\ tx.new = s)

\* No step deletes a worktree that a runtime may still be working in.
TreeNotPulled ==
    [][\A s \in Sids :
        runtime[s] \in {"starting", "maybe"} /\ rec[s].bind \in trees
            => rec[s].bind \in trees']_vars

\* A session `/end` has reported ended is never again the thread's active
\* record: no rollback, retry or shutdown undoes the operator's decision.
EndStands ==
    \A s \in gaveUp : Primary # None /\ Primary.sid = s => Primary.state # "active"

\* A rebind that is over leaves the slot with an incarnation, not with a
\* reservation nobody completes ...
SlotSettles == tx = None /\ end = None /\ Primary # None => Primary.state # "creating"

\* ... and, if it failed, the old conversation able to send files.
FenceLifted ==
    tx = None /\ live # None /\ live \notin ended /\ stop = "running" => live \notin fenced

RebindSettles == SlotSettles /\ FenceLifted

\* "a signal in the middle of a rebind costs the operator the rebind and
\* nothing else": the slot of a thread nobody ended is never empty, and after a
\* shutdown it holds a record the next boot resumes.
ConversationSurvivesStop ==
    Unended => /\ Primary # None
               /\ stop = "down" /\ tx = None => Primary.state = "active"

\* A rebind answers the operator, whatever is unconfirmed and whoever interferes;
\* so does `/end`, which joins the detached teardowns of the thread one by one.
CommandsAnswer ==
    /\ tx # None ~> tx = None
    /\ end # None ~> end = None
=============================================================================
