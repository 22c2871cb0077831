----------------------------- MODULE Reconciliation -----------------------------
(***************************************************************************)
(* The reconciliation engine (src/core/reconciliation-engine.ts,           *)
(* reconcile.ts) and what meets it in src/app.ts: the startup pass over    *)
(* the durable records, the access retry loop of the running process,      *)
(* `/new`, `/end` in and outside a thread, and the channel registry whose  *)
(* answer all of them ask for.  Crashes and restarts are steps, and so is  *)
(* every await: what a check found before one may be untrue after it.      *)
(*                                                                         *)
(* Every thread has one worktree binding and all are under one channel;    *)
(* local bindings and their leases are LocalLeases', a rebind (which needs *)
(* a live session, as a resume needs none) RebindCoordinator's.            *)
(***************************************************************************)
EXTENDS SessionStore

CONSTANTS
    Existing,   \* threads with an active record when the story begins
    Enders,     \* `/end` commands that may run at once
    MaxCrashes, \* bound: how often the process dies without a shutdown
    MaxEnds,    \* bound: how many `/end` are typed
    WritesFail  \* whether a write of the store or the registry may fail

ASSUME ReconciliationAssumption ==
    /\ Existing \subseteq Threads
    /\ MaxCrashes \in Nat /\ MaxEnds \in Nat /\ WritesFail \in BOOLEAN
    /\ None \notin Record /\ Sids # {} /\ Binds # {}

VARIABLES
    store,      \* SessionStore, whose memory and file agree (SessionRecords)
    reason,     \* the `reason` of each record, durable with it
    enabled,    \* ChannelRegistry: is the parent channel enabled
    tree,       \* threads whose worktree is on disk
    opened,     \* threads that were ever created in Discord
    phase,      \* the process: "down", "reconciling", "ready" or "stopping"
    live,       \* the session map
    barrier,    \* `runtime:<thread>` obligations: runtimes not proved stopped
    todo,       \* records the pass at hand has still to look at
    wake,       \* accessRetryTimer: "off", "set", or a tick is "running"
    attempt,    \* the exclusive scope of the pass: one record at a time
    ends,       \* the `/end` commands
    new,        \* `/new` is single-flight
    ended,      \* ghost: threads whose record an `/end` removed
    crashes, typed

durable == <<store, reason, enabled, tree>>
retry == <<todo, wake, attempt>>
bounds == <<crashes, typed>>
vars == <<store, reason, enabled, tree, opened, phase, live, barrier,
          todo, wake, attempt, ends, new, ended, crashes, typed>>

\* Reasons by what they decide: the retry loop takes "no-access", the startup
\* announcement takes "unreachable" (thread-gone, -inaccessible, -archived,
\* worktree-kept, config-mismatch), the rest was told in the thread itself.
Reasons == {"none", "no-access", "transient", "unreachable", "told", "interrupted"}

Attempt == [thread : Threads, via : {"startup", "access-retry"}, rec : Record,
            stage : {"barrier", "classify", "rebuild", "undo", "capture", "create", "discard"}]

End == [thread : Threads, stage : {"closing", "joining", "barrier", "reclaiming"}]

New == [stage : {"parent", "thread"}, thread : {None}, gen : {0}]
       \cup [stage : {"tree", "capture", "create", "retire", "retire-abort", "abort"},
             thread : Threads, gen : Nat \ {0}]

TypeOK ==
    /\ store \in StoreValue
    /\ reason \in [Threads -> Reasons]
    /\ enabled \in BOOLEAN
    /\ tree \subseteq Threads /\ opened \subseteq Threads
    /\ phase \in {"down", "reconciling", "ready", "stopping"}
    /\ live \subseteq Threads /\ barrier \subseteq Threads
    /\ todo \subseteq Threads /\ wake \in {"off", "set", "running"}
    /\ attempt \in Attempt \cup {None}
    /\ ends \in [Enders -> End \cup {None}]
    /\ new \in New \cup {None}
    /\ ended \subseteq Threads
    /\ crashes \in 0 .. MaxCrashes /\ typed \in 0 .. MaxEnds

-----------------------------------------------------------------------------
Rec(t) == store.sessions[t]
HasRecord(t) == Rec(t) # None
Holds(t, state) == HasRecord(t) /\ Rec(t).state = state

Outcomes == IF WritesFail THEN BOOLEAN ELSE {TRUE}

\* One write of the store with the reason it gives thread t.
Save(s, t, why) == store' = s /\ reason' = [reason EXCEPT ![t] = why]
Unsaved == UNCHANGED <<store, reason>>

ShuttingDown == phase = "stopping"

Claimed(t) == \E e \in Enders : ends[e] # None /\ ends[e].thread = t

\* OwnedScope.lostReason of a scope keyed by the thread.
Lost(t) == ShuttingDown \/ Claimed(t)

\* Why a resume may not go on: whatever else won the record meanwhile.
ResumeOwnershipLost(rec, t) ==
    \/ Lost(t)
    \/ t \in barrier
    \/ t \in live
    \/ ~Holds(t, "active")
    \/ ~IsCurrent(store, t, IdOf(rec))

BindingOk == enabled

IsAccessRetryCandidate(t) ==
    /\ Holds(t, "active") /\ reason[t] = "no-access" /\ t \notin live

FreshRecord(t, gen) == [sid |-> CHOOSE s \in Sids : TRUE, gen |-> gen, state |-> "creating",
                        bytes |-> 0, bind |-> CHOOSE b \in Binds : TRUE]

Existed(S) ==
    [sessions |-> [t \in Threads |->
        IF t \in S THEN [FreshRecord(t, 1) EXCEPT !.state = "active"] ELSE None],
     stale |-> {}, high |-> 1]

\* A process that finds the records of an earlier one, and their worktrees
\* unless somebody deleted them by hand.
Init ==
    /\ store = Existed(Existing)
    /\ reason = [t \in Threads |-> "none"]
    /\ enabled = TRUE
    /\ tree \in SUBSET Existing
    /\ opened = Existing
    /\ phase = "down"
    /\ live = {} /\ barrier = {}
    /\ todo = {} /\ wake = "off" /\ attempt = None
    /\ ends = [e \in Enders |-> None] /\ new = None
    /\ ended = {} /\ crashes = 0 /\ typed = 0

-----------------------------------------------------------------------------
(* The process.                                                             *)

Boot ==
    /\ phase = "down"
    /\ phase' = "reconciling"
    /\ todo' = {t \in Threads : HasRecord(t)}
    /\ UNCHANGED <<durable, opened, live, barrier, wake, attempt, ends, new,
                   ended, bounds>>

\* onReady: announceUnreachableRecords, then the gate opens and the loop is armed.
OpenGate ==
    /\ phase = "reconciling" /\ todo = {} /\ attempt = None
    /\ phase' = "ready" /\ wake' = "set"
    /\ UNCHANGED <<durable, opened, live, barrier, todo, attempt, ends, new,
                   ended, bounds>>

\* The phase gate closes and the loop is disarmed; what runs goes on.
Stop ==
    /\ phase \in {"reconciling", "ready"}
    /\ phase' = "stopping"
    /\ wake' = IF wake = "set" THEN "off" ELSE wake
    /\ UNCHANGED <<durable, opened, live, barrier, todo, attempt, ends, new,
                   ended, bounds>>

\* The memory goes, and every runtime with the process.
Gone ==
    /\ phase' = "down"
    /\ live' = {} /\ barrier' = {}
    /\ todo' = {} /\ wake' = "off" /\ attempt' = None
    /\ ends' = [e \in Enders |-> None] /\ new' = None

Exit ==
    /\ ShuttingDown /\ attempt = None /\ new = None /\ barrier = {}
    /\ \A e \in Enders : ends[e] = None
    /\ Gone
    /\ UNCHANGED <<durable, opened, ended, bounds>>

Crash ==
    /\ phase # "down" /\ crashes < MaxCrashes
    /\ crashes' = crashes + 1
    /\ Gone
    /\ UNCHANGED <<durable, opened, ended, typed>>

-----------------------------------------------------------------------------
(* One record: reconcileRecord and resumeRecord, in an exclusive scope of   *)
(* its thread.  The startup pass and a tick each run one scope at a time.   *)

Engine == UNCHANGED <<enabled, opened, ends, new, ended, bounds>>

Over == attempt' = None
Goto(stage) == attempt' = [attempt EXCEPT !.stage = stage]

\* A required terminal transition.  One that is not written (the file refuses it,
\* or there is no such record) fails the startup; a tick reports it and goes on.
Terminal(t, via, state, why) ==
    \E ok \in Outcomes :
        IF ok /\ HasRecord(t) THEN Save(SetState(store, t, state), t, why) /\ UNCHANGED phase
        ELSE /\ Unsaved
             /\ phase' = IF via = "startup" THEN "stopping" ELSE phase

\* The record is decided at once, or its thread has to be classified first.
Consider(rec, t, via) ==
    IF rec.state = "active" /\ BindingOk
    THEN /\ attempt' = [thread |-> t, via |-> via, rec |-> rec, stage |-> "classify"]
         /\ Unsaved /\ UNCHANGED phase
    ELSE /\ Over
         /\ \/ rec.state = "active" /\ Terminal(t, via, "blocked", "unreachable")
            \/ rec.state = "creating" /\ Terminal(t, via, "orphaned", "interrupted")
            \/ rec.state \in {"orphaned", "blocked"} /\ Unsaved /\ UNCHANGED phase

StartupRecord(t) ==
    /\ phase = "reconciling" /\ attempt = None /\ t \in todo
    /\ todo' = todo \ {t}
    /\ Consider(Rec(t), t, "startup")
    /\ UNCHANGED <<tree, live, barrier, wake>> /\ Engine

\* A tick takes the records that are parked now.
TickFires ==
    /\ phase = "ready" /\ wake = "set"
    /\ todo' = {t \in Threads : IsAccessRetryCandidate(t)}
    /\ todo' # {}
    /\ wake' = "running"
    /\ UNCHANGED <<durable, phase, live, barrier, attempt>>
    /\ UNCHANGED <<opened, ends, new, ended, bounds>>

\* Each is read again; one that /end has claimed is declined, and a runtime an
\* earlier attempt left behind has to be proved stopped first.
TickNext(t) ==
    /\ phase = "ready" /\ wake = "running" /\ attempt = None /\ t \in todo
    /\ todo' = todo \ {t}
    /\ IF IsAccessRetryCandidate(t) /\ ~Claimed(t)
       THEN IF t \in barrier
            THEN /\ attempt' = [thread |-> t, via |-> "access-retry", rec |-> Rec(t),
                                stage |-> "barrier"]
                 /\ Unsaved /\ UNCHANGED phase
            ELSE Consider(Rec(t), t, "access-retry")
       ELSE UNCHANGED <<store, reason, phase, attempt>>
    /\ UNCHANGED <<tree, live, barrier, wake>> /\ Engine

\* Mutant of TickOver: a tick that finds the process going on does not arm the next one.
TickOverUnarmed ==
    /\ wake = "running" /\ attempt = None
    /\ todo = {} \/ phase # "ready"
    /\ todo' = {} /\ wake' = "off"
    /\ UNCHANGED <<durable, phase, live, barrier, attempt>>
    /\ UNCHANGED <<opened, ends, new, ended, bounds>>

\* The re-arm after a tick, however it ended.
TickOver ==
    /\ wake = "running" /\ attempt = None
    /\ todo = {} \/ phase # "ready"
    /\ todo' = {} /\ wake' = IF phase = "ready" THEN "set" ELSE "off"
    /\ UNCHANGED <<durable, phase, live, barrier, attempt>>
    /\ UNCHANGED <<opened, ends, new, ended, bounds>>

\* What an attempt on the obligation of t may answer: nothing is owed any more,
\* or the disconnect has not been confirmed in time.
Proofs(t) == IF t \in barrier THEN BOOLEAN ELSE {TRUE}

Without(S, t, ok) == IF ok THEN S \ {t} ELSE S

At(stage) == attempt # None /\ attempt.stage = stage

BarrierAnswered ==
    /\ At("barrier")
    /\ LET t == attempt.thread IN
       \E ok \in Proofs(t) :
           /\ barrier' = Without(barrier, t, ok)
           /\ IF ok /\ ~Lost(t) THEN Consider(attempt.rec, t, "access-retry")
              ELSE Over /\ Unsaved /\ UNCHANGED phase
    /\ UNCHANGED <<tree, live, todo, wake>> /\ Engine

Statuses == {"valid", "gone", "inaccessible", "archived-unarchivable", "no-access", "transient"}

\* resumeRecord up to its first await.
ResumeStarts(t) ==
    IF ResumeOwnershipLost(attempt.rec, t) THEN Over
    ELSE Goto(IF t \in tree THEN "capture" ELSE "rebuild")

\* classifyThread answers, and the scope is asked once for every branch.
Classified(status) ==
    /\ At("classify")
    /\ status = "valid" => BindingOk
    /\ LET t == attempt.thread
           via == attempt.via
       IN IF Lost(t) THEN Over /\ Unsaved /\ UNCHANGED phase
          ELSE \/ status = "valid" /\ ResumeStarts(t) /\ Unsaved /\ UNCHANGED phase
               \/ /\ status \in {"gone", "inaccessible", "archived-unarchivable"}
                  /\ Terminal(t, via, "blocked", "unreachable") /\ Over
               \/ /\ status \in {"no-access", "transient"}
                  /\ IF via = "access-retry" THEN Unsaved /\ UNCHANGED phase
                     ELSE Terminal(t, via, "active", status)
                  /\ Over
    /\ UNCHANGED <<tree, live, barrier, todo, wake>> /\ Engine

\* Created from a new branch or the one git still has, or reused if it is there.
AddWorktree(t, ok) == tree' = IF ok THEN tree \cup {t} ELSE tree

\* The worktree of a record that lost it; one claimed meanwhile is undone.
Rebuilt(ok) ==
    /\ At("rebuild")
    /\ LET t == attempt.thread
           lost == ResumeOwnershipLost(attempt.rec, t)
       IN /\ AddWorktree(t, ok)
          /\ IF ok THEN Goto(IF lost THEN "undo" ELSE "capture") /\ Unsaved /\ UNCHANGED phase
             ELSE /\ Over
                  /\ IF lost THEN Unsaved /\ UNCHANGED phase
                     ELSE Terminal(t, attempt.via, "blocked", "told")
    /\ UNCHANGED <<live, barrier, todo, wake>> /\ Engine

Undone(ok) ==
    /\ At("undo")
    /\ tree' = Without(tree, attempt.thread, ok)
    /\ Over
    /\ Unsaved /\ UNCHANGED <<phase, live, barrier, todo, wake>> /\ Engine

\* captureValidatedRoot: the binding is proved, refused, or something threw.
RootAnswers == {"ok", "refused", "threw"}

Captured(answer) ==
    /\ At("capture")
    /\ LET t == attempt.thread
           lost == ResumeOwnershipLost(attempt.rec, t)
       IN IF lost \/ answer = "threw" THEN Over /\ Unsaved /\ UNCHANGED phase
          ELSE \/ answer = "ok" /\ Goto("create") /\ Unsaved /\ UNCHANGED phase
               \/ answer = "refused" /\ Over /\ Terminal(t, attempt.via, "blocked", "told")
    /\ UNCHANGED <<tree, live, barrier, todo, wake>> /\ Engine

\* discardResumedActor: an obligation that carries the actor.  (The key of its
\* own for a second runtime is not modelled: by OneRuntime there is none.)
Discard(t) ==
    /\ Goto("discard")
    /\ barrier' = barrier \cup {t}
    /\ Unsaved /\ UNCHANGED live

Registered(t) == live' = live \cup {t}

\* The resumed session is registered in the step that commits its record, or
\* not at all.
Created ==
    /\ At("create")
    /\ LET t == attempt.thread IN
       IF ResumeOwnershipLost(attempt.rec, t) THEN Discard(t)
       ELSE \E ok \in Outcomes :
            IF ok THEN /\ Save(Commit(store, t), t, "none")
                       /\ Registered(t) /\ Over
                       /\ UNCHANGED barrier
            ELSE Discard(t)
    /\ UNCHANGED <<tree, phase, todo, wake>> /\ Engine

CreateFails(why) ==
    /\ At("create")
    /\ Over
    /\ IF why = "session-lost" /\ ~ResumeOwnershipLost(attempt.rec, attempt.thread)
       THEN Terminal(attempt.thread, attempt.via, "orphaned", "told")
       ELSE Unsaved /\ UNCHANGED phase
    /\ UNCHANGED <<tree, live, barrier, todo, wake>> /\ Engine

Discarded(ok) ==
    /\ At("discard")
    /\ barrier' = Without(barrier, attempt.thread, ok)
    /\ Over
    /\ Unsaved /\ UNCHANGED <<tree, phase, live, todo, wake>> /\ Engine

\* confirmStopped: a disconnect that answers after its bound still discharges.
LateConfirmation(t) ==
    /\ t \in barrier
    /\ barrier' = barrier \ {t}
    /\ UNCHANGED <<durable, opened, phase, live, retry, ends, new, ended, bounds>>

-----------------------------------------------------------------------------
(* `/end`, in its thread or with `thread:`.  It claims the thread before    *)
(* its first await; the claims of two commands are counted.                 *)

OnlyEnds == UNCHANGED <<enabled, opened, phase, retry, new, crashes>>

EndGoto(e, stage) == ends' = [ends EXCEPT ![e].stage = stage]
EndOver(e) == ends' = [ends EXCEPT ![e] = None]

EndTyped(e, t) ==
    /\ phase = "ready" /\ ends[e] = None /\ typed < MaxEnds /\ t \in opened
    /\ typed' = typed + 1
    /\ ends' = [ends EXCEPT ![e] =
                  [thread |-> t, stage |-> IF t \in live THEN "closing" ELSE "joining"]]
    /\ UNCHANGED <<durable, live, barrier, ended>> /\ OnlyEnds

EndAt(e, stage) == ends[e] # None /\ ends[e].stage = stage

\* A live session: without proof that its runtime stopped it stays in the map.
EndClosed(e, ok) ==
    /\ EndAt(e, "closing")
    /\ live' = Without(live, ends[e].thread, ok)
    /\ IF ok THEN EndGoto(e, "reclaiming") ELSE EndOver(e)
    /\ UNCHANGED <<durable, barrier, ended, typed>> /\ OnlyEnds

\* endStaleRecord, from the disposition of what is left without a session.
Reapable(t) ==
    /\ HasRecord(t) /\ t \notin live
    /\ Holds(t, "creating") => new = None
    /\ Holds(t, "active") => reason[t] = "no-access"

Dispose(e, t) == IF Reapable(t) THEN EndGoto(e, "reclaiming") ELSE EndOver(e)

\* Mutant of EndJoined: /end does not wait for the attempt it meets.
EndJoinedAnyway(e) ==
    /\ EndAt(e, "joining")
    /\ IF ends[e].thread \in barrier THEN EndGoto(e, "barrier") ELSE Dispose(e, ends[e].thread)
    /\ UNCHANGED <<durable, live, barrier, ended, typed>> /\ OnlyEnds

\* joinExclusive: refused while an attempt of this thread is still running.
EndJoined(e) ==
    /\ EndAt(e, "joining")
    /\ LET t == ends[e].thread IN
       IF attempt # None /\ attempt.thread = t THEN EndOver(e)
       ELSE IF t \in barrier THEN EndGoto(e, "barrier") ELSE Dispose(e, t)
    /\ UNCHANGED <<durable, live, barrier, ended, typed>> /\ OnlyEnds

EndBarrierAnswered(e) ==
    /\ EndAt(e, "barrier")
    /\ LET t == ends[e].thread IN
       \E ok \in Proofs(t) :
           /\ barrier' = Without(barrier, t, ok)
           /\ IF ok THEN Dispose(e, t) ELSE EndOver(e)
    /\ UNCHANGED <<durable, live, ended, typed>> /\ OnlyEnds

\* reclaim: the worktree's fate first, and the record follows it.
EndReclaimed(e) ==
    /\ EndAt(e, "reclaiming")
    /\ LET t == ends[e].thread IN
       \E ok \in Outcomes :
           /\ tree' = tree \ {t}
           /\ IF ok THEN Save(Remove(store, t), t, "none") /\ ended' = ended \cup {t}
              ELSE Unsaved /\ UNCHANGED ended
    /\ EndOver(e)
    /\ UNCHANGED <<live, barrier, typed>> /\ OnlyEnds

\* retire: a kept worktree keeps its record, as `blocked`, and a `thread-*`
\* reason it already has.
EndKept(e) ==
    /\ EndAt(e, "reclaiming") /\ ends[e].thread \in tree
    /\ LET t == ends[e].thread
           why == IF reason[t] \in {"no-access", "unreachable"} THEN reason[t] ELSE "unreachable"
       IN \E ok \in Outcomes :
              IF ok /\ HasRecord(t) THEN Save(SetState(store, t, "blocked"), t, why) ELSE Unsaved
    /\ EndOver(e)
    /\ UNCHANGED <<tree, live, barrier, ended, typed>> /\ OnlyEnds

-----------------------------------------------------------------------------
(* `/new`, in a scope of its own that only a shutdown loses.                *)

OnlyNew == UNCHANGED <<enabled, phase, retry, ends, ended, bounds>>

NewAt(stage) == new # None /\ new.stage = stage
NewGoto(stage) == new' = [new EXCEPT !.stage = stage]
NewOver == new' = None

NewTyped ==
    /\ phase = "ready" /\ new = None /\ enabled
    /\ new' = [stage |-> "parent", thread |-> None, gen |-> 0]
    /\ UNCHANGED <<store, reason, tree, opened, live, barrier>> /\ OnlyNew

\* The parent channel is fetched; it must still be an enabled one.
NewParentAnswered(ok) ==
    /\ NewAt("parent")
    /\ IF ok /\ ~ShuttingDown /\ enabled THEN NewGoto("thread") ELSE NewOver
    /\ UNCHANGED <<store, reason, tree, opened, live, barrier>> /\ OnlyNew

\* The thread exists; its generation is drawn before there is a worktree.
NewThreadCreated(t) ==
    /\ NewAt("thread") /\ t \notin opened
    /\ opened' = opened \cup {t}
    /\ IF ShuttingDown THEN NewOver
       ELSE new' = [stage |-> "tree", thread |-> t, gen |-> NextGeneration(store)]
    /\ UNCHANGED <<store, reason, tree, live, barrier>> /\ OnlyNew

NewThreadFails ==
    /\ NewAt("thread")
    /\ NewOver
    /\ UNCHANGED <<store, reason, tree, opened, live, barrier>> /\ OnlyNew

NewTreeAnswered(ok) ==
    /\ NewAt("tree")
    /\ AddWorktree(new.thread, ok)
    /\ IF ~ok THEN NewOver ELSE NewGoto(IF ShuttingDown THEN "abort" ELSE "capture")
    /\ UNCHANGED <<store, reason, opened, live, barrier>> /\ OnlyNew

\* Mutant of NewCaptured: /new asks for its channel before it captures the root, and not after.
NewCapturedUnasked(ok) ==
    /\ NewAt("capture")
    /\ IF ok /\ ~ShuttingDown
       THEN \E saved \in Outcomes :
            IF saved THEN /\ Save(Reserve(store, new.thread, FreshRecord(new.thread, new.gen)),
                                  new.thread, "none")
                          /\ NewGoto("create")
            ELSE Unsaved /\ NewGoto("abort")
       ELSE Unsaved /\ NewGoto("abort")
    /\ UNCHANGED <<tree, opened, live, barrier>> /\ OnlyNew

\* The last questions before anything durable exists: is the channel still
\* enabled, does the process go on?
NewCaptured(ok) ==
    /\ NewAt("capture")
    /\ IF ok /\ enabled /\ ~ShuttingDown
       THEN \E saved \in Outcomes :
            IF saved THEN /\ Save(Reserve(store, new.thread, FreshRecord(new.thread, new.gen)),
                                  new.thread, "none")
                          /\ NewGoto("create")
            ELSE Unsaved /\ NewGoto("abort")
       ELSE Unsaved /\ NewGoto("abort")
    /\ UNCHANGED <<tree, opened, live, barrier>> /\ OnlyNew

\* Mutant of NewCreated: /new registers the session before its record is committed.
NewCreatedRegistersFirst ==
    /\ NewAt("create")
    /\ live' = live \cup {new.thread}
    /\ \E ok \in Outcomes :
           IF ok THEN Save(Commit(store, new.thread), new.thread, "none") /\ NewOver
                      /\ UNCHANGED barrier
           ELSE Unsaved /\ NewGoto("retire-abort") /\ barrier' = barrier \cup {new.thread}
    /\ UNCHANGED <<tree, opened>> /\ OnlyNew

\* The runtime exists: it is registered, or it is an obligation.
NewCreated ==
    /\ NewAt("create")
    /\ LET t == new.thread
           Retire(stage) == /\ barrier' = barrier \cup {t} /\ NewGoto(stage)
                            /\ Unsaved /\ UNCHANGED live
       IN IF ShuttingDown THEN Retire("retire")
          ELSE \E ok \in Outcomes :
               IF ok THEN /\ Save(Commit(store, t), t, "none")
                          /\ live' = live \cup {t} /\ NewOver /\ UNCHANGED barrier
               ELSE Retire("retire-abort")
    /\ UNCHANGED <<tree, opened>> /\ OnlyNew

\* The row stays `creating`, and its worktree with it.
NewCreateFails ==
    /\ NewAt("create")
    /\ NewOver
    /\ UNCHANGED <<store, reason, tree, opened, live, barrier>> /\ OnlyNew

NewRetired ==
    /\ new # None /\ new.stage \in {"retire", "retire-abort"}
    /\ \E ok \in Proofs(new.thread) :
           /\ barrier' = Without(barrier, new.thread, ok)
           /\ IF ok /\ new.stage = "retire-abort" THEN NewGoto("abort") ELSE NewOver
    /\ UNCHANGED <<store, reason, tree, opened, live>> /\ OnlyNew

NewAborted(ok) ==
    /\ NewAt("abort")
    /\ tree' = Without(tree, new.thread, ok)
    /\ NewOver
    /\ UNCHANGED <<store, reason, opened, live, barrier>> /\ OnlyNew

-----------------------------------------------------------------------------
(* `/channel`.  Disabling is one synchronous step from the question who     *)
(* holds the channel to the write; blocked is terminal, so it is refused    *)
(* while anybody does.                                                      *)

ChannelHolders == live \cup {t \in Threads : Holds(t, "active") \/ Holds(t, "creating")}

\* The registry's file first, then its memory; a write that fails changes nothing.
Enabled(on) == enabled # on /\ enabled' = on

ChannelDisabled ==
    /\ phase = "ready" /\ ChannelHolders = {} /\ Enabled(FALSE)
    /\ UNCHANGED <<store, reason, tree, opened, phase, live, barrier, retry, ends, new,
                   ended, bounds>>

\* ... and enabling widens only after Discord has confirmed the announcement.
ChannelEnabled ==
    /\ phase = "ready" /\ Enabled(TRUE)
    /\ UNCHANGED <<store, reason, tree, opened, phase, live, barrier, retry, ends, new,
                   ended, bounds>>

-----------------------------------------------------------------------------
Pass ==
    \/ \E t \in Threads : StartupRecord(t) \/ TickNext(t)
    \/ OpenGate \/ TickFires \/ TickOver

Answers ==
    \/ BarrierAnswered
    \/ \E status \in Statuses : Classified(status)
    \/ \E ok \in BOOLEAN : Rebuilt(ok) \/ Undone(ok) \/ Discarded(ok)
    \/ \E answer \in RootAnswers : Captured(answer)
    \/ Created
    \/ \E why \in {"session-lost", "transient"} : CreateFails(why)

Ending(e) ==
    \/ \E ok \in BOOLEAN : EndClosed(e, ok)
    \/ EndJoined(e) \/ EndBarrierAnswered(e) \/ EndReclaimed(e) \/ EndKept(e)

Making ==
    \/ \E ok \in BOOLEAN : NewParentAnswered(ok) \/ NewTreeAnswered(ok) \/ NewCaptured(ok)
                           \/ NewAborted(ok)
    \/ \E t \in Threads : NewThreadCreated(t)
    \/ NewThreadFails \/ NewCreated \/ NewCreateFails \/ NewRetired

Next ==
    \/ Boot \/ Stop \/ Exit \/ Crash
    \/ Pass \/ Answers
    \/ \E t \in Threads : LateConfirmation(t)
    \/ \E e \in Enders : Ending(e) \/ \E t \in Threads : EndTyped(e, t)
    \/ NewTyped \/ Making
    \/ ChannelDisabled \/ ChannelEnabled

Spec == Init /\ [][Next]_vars

\* The timer fires and every await of the pass has a bound or ends by itself.
FairSpec == Spec /\ WF_vars(Pass) /\ WF_vars(Answers) /\ \A t \in Threads : WF_vars(TickNext(t))

-----------------------------------------------------------------------------
(* Properties.                                                              *)

Count(b) == IF b THEN 1 ELSE 0

\* The SDK runtimes of thread t: live, owed, or being created.
Runtimes(t) ==
    Count(t \in live) + Count(t \in barrier)
    + Count(At("create") /\ attempt.thread = t) + Count(NewAt("create") /\ new.thread = t)

\* A conversation and its worktree never have two runtimes, and no runtime
\* works in a checkout that somebody else has removed, whatever an attempt, a
\* discard nobody could confirm, a /new and an /end overlap.
OneRuntime ==
    \A t \in Threads : Runtimes(t) <= 1 /\ (Runtimes(t) > 0 => t \in tree)

\* What /end has reported as gone stays so, through every retry and restart
\* that was under way: no record, no runtime, no rebuilt worktree.
EndStands ==
    \A t \in ended : ~HasRecord(t) /\ Runtimes(t) = 0 /\ t \notin tree

\* A disabled channel has no session and never gains one: not from a /new
\* that began before, nor from the records of an earlier process.
DisabledChannelEmpty == ~enabled => ChannelHolders = {}

\* The retry loop never forgets a parked record: it comes to it again, unless
\* an /end claims it, for as long as the process runs.
ParkedIsRetried ==
    \A t \in Threads :
        (phase = "ready" /\ IsAccessRetryCandidate(t)) ~>
        (\/ attempt # None /\ attempt.thread = t
         \/ ~IsAccessRetryCandidate(t) \/ Claimed(t) \/ phase # "ready")

\* (app.ts:2186) A record whose worktree /end refused to remove is announced at
\* every start or was told of in its thread: nothing silently holds disk.
Announced(t) == reason[t] \in {"unreachable", "told"}

LeftoversAnnounced ==
    [][OpenGate => \A t \in tree : Holds(t, "blocked") => Announced(t)]_vars

=============================================================================
