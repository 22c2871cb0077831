-------------------------- MODULE LifecycleOwnership --------------------------
(***************************************************************************)
(* src/core/lifecycle-ownership.ts: who may let go of this process's       *)
(* single-instance lock, and when.  The release is a conclusion drawn from *)
(* four facts: the exclusive scopes still running, the explicit teardowns  *)
(* part-way through, the cleanup obligations nobody has discharged, and    *)
(* whether the armed resource teardown has run.                            *)
(*                                                                         *)
(* Every public method is synchronous up to its first await, so one action *)
(* is one synchronous section.  onTransition() runs evaluate()             *)
(* synchronously, so it is part of each action that calls it.  A body, an  *)
(* obligation attempt or the armed teardown may hang: nothing below makes  *)
(* one end, and each bound the code puts on one is an action of its own.   *)
(***************************************************************************)
EXTENDS Integers, FiniteSets

CONSTANTS
    Threads,      \* keys of runExclusive and runTeardown
    Scopes,       \* exclusive bodies that may be running at once
    Claims,       \* teardown bodies that may be running at once
    RuntimeKeys,  \* obligation keys the bodies use
    LateKeys,     \* the keys "late-arm:1", "late-arm:2", ...
    Entries,      \* identities of ObligationEntry objects
    GateEntry,    \* the entry that gates the armed teardown
    Teardowns,    \* callbacks handed to arm()
    ArmKey,       \* the key "armed-teardown"
    None          \* undefined

Keys == RuntimeKeys \cup LateKeys \cup {ArmKey}

ASSUME ConstantsDistinct ==
    /\ None \notin Threads \cup Entries \cup Teardowns
    /\ ArmKey \notin RuntimeKeys \cup LateKeys
    /\ None \notin RuntimeKeys \cup LateKeys \cup {ArmKey}
    /\ GateEntry \in Entries
    /\ RuntimeKeys \cap LateKeys = {}

ASSUME ClaimsFinite == IsFiniteSet(Claims)

VARIABLES
    state,          \* "running" or "shutting-down"
    scopeThread,    \* the thread each live exclusive scope owns, or None
    claimThread,    \* the thread each running teardown body claims, or None
    claimPc,        \* how far that body is with joinExclusive
    teardownClaims, \* the count per thread the code keeps
    obligations,    \* the retained entry of each key, or None
    entryKey,       \* the key an entry was created under; None: not created
    attempting,     \* entries with a bounded attempt in flight
    proved,         \* entries whose payload really is gone
    armed,          \* the callback that shutdown will run, or None
    teardown,       \* how far that callback is
    shutdownPc,     \* where beginShutdown is
    sweep,          \* entries beginShutdown has yet to be answered for
    sweepAt,        \* the one whose attempt it is waiting for, or None
    teardownComplete,
    released,       \* lock.release() has been called
    orphans         \* entries retained after the release: the case the code logs

scopeVars == <<scopeThread, claimThread, claimPc, teardownClaims>>
obligationVars == <<obligations, entryKey, attempting, proved>>
shutdownVars == <<state, armed, teardown, shutdownPc, sweep, sweepAt,
                  teardownComplete>>
vars == <<scopeVars, obligationVars, shutdownVars, released, orphans>>

LiveScopes == {s \in Scopes : scopeThread[s] # None}
LiveClaims == {c \in Claims : claimThread[c] # None}
ScopesOf(t) == {s \in Scopes : scopeThread[s] = t}
Registered == {e \in Entries : entryKey[e] # None /\ obligations[entryKey[e]] = e}
Created == {e \in Entries : entryKey[e] # None}

TypeOK ==
    /\ state \in {"running", "shutting-down"}
    /\ scopeThread \in [Scopes -> Threads \cup {None}]
    /\ claimThread \in [Claims -> Threads \cup {None}]
    /\ claimPc \in [Claims -> {"idle", "body", "joining", "joined", "refused"}]
    /\ teardownClaims \in [Threads -> Nat]
    /\ obligations \in [Keys -> Entries \cup {None}]
    /\ entryKey \in [Entries -> Keys \cup {None}]
    /\ attempting \subseteq Entries
    /\ proved \subseteq Entries
    /\ armed \in Teardowns \cup {None}
    /\ teardown \in {"idle", "running", "done", "failed"}
    /\ shutdownPc \in {"none", "joining", "sweeping", "teardown", "answered"}
    /\ sweep \subseteq Entries
    /\ sweepAt \in Entries \cup {None}
    /\ teardownComplete \in BOOLEAN
    /\ released \in BOOLEAN
    /\ orphans \subseteq Entries

Init ==
    /\ state = "running"
    /\ scopeThread = [s \in Scopes |-> None]
    /\ claimThread = [c \in Claims |-> None]
    /\ claimPc = [c \in Claims |-> "idle"]
    /\ teardownClaims = [t \in Threads |-> 0]
    /\ obligations = [k \in Keys |-> None]
    /\ entryKey = [e \in Entries |-> None]
    /\ attempting = {}
    /\ proved = {}
    /\ armed = None
    /\ teardown = "idle"
    /\ shutdownPc = "none"
    /\ sweep = {}
    /\ sweepAt = None
    /\ teardownComplete = FALSE
    /\ released = FALSE
    /\ orphans = {}

-----------------------------------------------------------------------------
(* The release conclusion and admission. *)

\* Fault: explicit teardowns are forgotten.
NothingOwedButClaims ==
    /\ \A s \in Scopes : scopeThread'[s] = None
    /\ \A k \in Keys : obligations'[k] = None

\* All three live sets are empty in the state the step leads to.
NothingOwed ==
    /\ \A s \in Scopes : scopeThread'[s] = None
    /\ \A t \in Threads : teardownClaims'[t] = 0
    /\ \A k \in Keys : obligations'[k] = None

\* evaluate(): asked again after every transition, from the live state.
Evaluate ==
    released' = (released \/ (/\ state' = "shutting-down"
                              /\ teardownComplete'
                              /\ NothingOwed))

\* Fault: only shutdown declines.
AdmittedWhileRunning(t) == state = "running"

\* declineReason(): shutdown or an explicit teardown claim; an outstanding
\* obligation does not decline.
Admitted(t) == state = "running" /\ teardownClaims[t] = 0

\* claimTeardown() and the release it returns.
Claimed(t) == [teardownClaims EXCEPT ![t] = @ + 1]
Unclaimed(t) == [teardownClaims EXCEPT ![t] = @ - 1]

-----------------------------------------------------------------------------
(* Exclusive scopes. *)

RunExclusive(s, t) ==
    /\ scopeThread[s] = None
    /\ Admitted(t)
    /\ scopeThread' = [scopeThread EXCEPT ![s] = t]
    /\ UNCHANGED <<claimThread, claimPc, teardownClaims, obligationVars,
                   shutdownVars, released, orphans>>

ExclusiveSettles(s) ==
    /\ scopeThread[s] # None
    /\ scopeThread' = [scopeThread EXCEPT ![s] = None]
    /\ UNCHANGED <<claimThread, claimPc, teardownClaims, obligationVars,
                   shutdownVars, orphans>>
    /\ Evaluate

-----------------------------------------------------------------------------
(* Explicit teardowns. *)

RunTeardown(c, t) ==
    /\ claimThread[c] = None
    /\ state = "running"
    /\ claimThread' = [claimThread EXCEPT ![c] = t]
    /\ claimPc' = [claimPc EXCEPT ![c] = "body"]
    /\ teardownClaims' = Claimed(t)
    /\ UNCHANGED <<scopeThread, obligationVars, shutdownVars, released, orphans>>

\* The answer joinExclusive gives once it stops waiting, from the live set.
JoinAnswer(t) == IF ScopesOf(t) = {} THEN "joined" ELSE "refused"

\* joinExclusive(threadId): true at once when nothing runs, else it waits.
JoinExclusive(c) ==
    /\ claimPc[c] = "body"
    /\ claimPc' = [claimPc EXCEPT ![c] =
                     IF ScopesOf(claimThread[c]) = {} THEN "joined" ELSE "joining"]
    /\ UNCHANGED <<scopeThread, claimThread, teardownClaims, obligationVars,
                   shutdownVars, released, orphans>>

\* Every scope it waited for settled, or joinTimeoutMs ran out.
JoinSettles(c) ==
    /\ claimPc[c] = "joining"
    /\ claimPc' = [claimPc EXCEPT ![c] = JoinAnswer(claimThread[c])]
    /\ UNCHANGED <<scopeThread, claimThread, teardownClaims, obligationVars,
                   shutdownVars, released, orphans>>

TeardownSettles(c) ==
    /\ claimThread[c] # None
    /\ claimPc[c] # "joining"
    /\ claimThread' = [claimThread EXCEPT ![c] = None]
    /\ claimPc' = [claimPc EXCEPT ![c] = "idle"]
    /\ teardownClaims' = Unclaimed(claimThread[c])
    /\ UNCHANGED <<scopeThread, obligationVars, shutdownVars, orphans>>
    /\ Evaluate

-----------------------------------------------------------------------------
(* Obligations. *)

\* Fault: the last registration of a key wins.
RetainLatest(k, e) ==
    /\ entryKey[e] = None
    /\ obligations' = [obligations EXCEPT ![k] = e]
    /\ entryKey' = [entryKey EXCEPT ![e] = k]

\* retain(): the first registration of a key wins; a caller whose key is taken
\* is handed the older entry and registers nothing.
Retain(k, e) ==
    /\ entryKey[e] = None
    /\ obligations[k] = None
    /\ obligations' = [obligations EXCEPT ![k] = e]
    /\ entryKey' = [entryKey EXCEPT ![e] = k]

\* A scope, a teardown or the armed teardown is there to call retain().
\* So is a late-armed teardown, until it has really returned.
SomeBodyRuns ==
    \/ LiveScopes # {} \/ LiveClaims # {} \/ teardown = "running"
    \/ \E e \in Created \ proved : entryKey[e] \in LateKeys

\* What is retained once the lock is gone can gate nothing any more.
Orphaned(e) == IF released THEN orphans \cup {e} ELSE orphans

BodyRetains(k, e) ==
    /\ SomeBodyRuns
    /\ k \in RuntimeKeys /\ e # GateEntry
    /\ Retain(k, e)
    /\ orphans' = Orphaned(e)
    /\ UNCHANGED <<scopeVars, attempting, proved, shutdownVars, released>>

\* The outside world: what the obligation was about is now really gone.
Prove(e) ==
    /\ entryKey[e] \notin {None, ArmKey}
    /\ proved' = proved \cup {e}
    /\ UNCHANGED <<scopeVars, obligations, entryKey, attempting, shutdownVars,
                   released, orphans>>

\* The map without e, if e is still the entry retained under its key.
Without(e) ==
    IF e \in Registered THEN [obligations EXCEPT ![entryKey[e]] = None] ELSE obligations

\* Fault: discharged without asking evaluate() again.
DischargeQuietly(e) ==
    /\ e \in proved \cap Registered /\ entryKey[e] \in RuntimeKeys
    /\ obligations' = Without(e)
    /\ UNCHANGED <<scopeVars, entryKey, attempting, proved, shutdownVars, orphans,
                   released>>

\* handle.discharge(): identity-checked; the caller has proved it gone.  This is
\* also what confirmStopped() does when the runtime stops after its bound.  Nobody
\* is handed the handle of a late arm, and the gate is discharged below.
Discharge(e) ==
    /\ e \in proved \cap Registered /\ entryKey[e] \in RuntimeKeys
    /\ obligations' = Without(e)
    /\ UNCHANGED <<scopeVars, entryKey, attempting, proved, shutdownVars, orphans>>
    /\ Evaluate

\* handle.attempt(): one bounded attempt, single-flight per entry.
StartAttempt(e) ==
    /\ e \in Registered \ (attempting \cup {GateEntry})
    /\ attempting' = attempting \cup {e}
    /\ UNCHANGED <<scopeVars, obligations, entryKey, proved, shutdownVars,
                   released, orphans>>

\* An attempt is over; a sweep that was waiting for it moves on.
AttemptOver(e) ==
    /\ attempting' = attempting \ {e}
    /\ IF sweepAt = e
       THEN sweepAt' = None /\ sweep' = sweep \ {e}
       ELSE UNCHANGED <<sweepAt, sweep>>
    /\ UNCHANGED <<scopeVars, entryKey, proved, state, armed, teardown, shutdownPc,
                   teardownComplete, orphans>>

\* It returned true.  Discharged meanwhile, the entry is left alone.
AttemptSucceeds(e) ==
    /\ e \in attempting /\ e \in proved
    /\ obligations' = Without(e)
    /\ AttemptOver(e)
    /\ IF e \in Registered THEN Evaluate ELSE UNCHANGED released

\* The attempt returned false, rejected, or ran into obligationTimeoutMs.
AttemptFails(e) ==
    /\ e \in attempting
    /\ UNCHANGED <<obligations, released>>
    /\ AttemptOver(e)

-----------------------------------------------------------------------------
(* arm() and shutdown(). *)

Arm(d) ==
    /\ state = "running"
    /\ armed' = d
    /\ UNCHANGED <<scopeVars, obligationVars, state, teardown, shutdownPc, sweep, sweepAt,
                   teardownComplete, released, orphans>>

\* arm() after shutdown began: kept as an obligation under a fresh key and
\* attempted at once; after the release it can gate nothing any more.
LateArm(k, e) ==
    /\ state = "shutting-down"
    /\ k \in LateKeys /\ e # GateEntry /\ \A f \in Entries : entryKey[f] # k
    /\ Retain(k, e)
    /\ attempting' = attempting \cup {e}
    /\ orphans' = Orphaned(e)
    /\ UNCHANGED <<scopeVars, proved, shutdownVars, released>>

\* beginShutdown() up to the await of joinAllExclusive().
Shutdown ==
    /\ shutdownPc = "none"
    /\ state' = "shutting-down"
    /\ shutdownPc' = "joining"
    /\ UNCHANGED <<scopeVars, obligationVars, armed, teardown, sweep, sweepAt,
                   teardownComplete, released, orphans>>

\* Fault: the join of every scope has no bound.
JoinAllUnbounded ==
    /\ shutdownPc = "joining" /\ LiveScopes = {}
    /\ shutdownPc' = "sweeping"
    /\ sweep' = Registered
    /\ UNCHANGED <<scopeVars, obligationVars, state, armed, teardown, sweepAt,
                   teardownComplete, released, orphans>>

\* The scopes settled, or joinTimeoutMs ran out: the sweep takes its snapshot.
JoinAllSettles ==
    /\ shutdownPc = "joining"
    /\ shutdownPc' = "sweeping"
    /\ sweep' = Registered
    /\ UNCHANGED <<scopeVars, obligationVars, state, armed, teardown, sweepAt,
                   teardownComplete, released, orphans>>

\* The sweep takes up its next entry: one already discharged is passed over,
\* one already being attempted is joined.
SweepAttempts(e) ==
    /\ shutdownPc = "sweeping"
    /\ e \in sweep
    /\ sweepAt = None
    /\ IF e \in Registered
       THEN attempting' = attempting \cup {e} /\ sweepAt' = e /\ UNCHANGED sweep
       ELSE sweep' = sweep \ {e} /\ UNCHANGED <<attempting, sweepAt>>
    /\ UNCHANGED <<scopeVars, obligations, entryKey, proved, state, armed, teardown,
                   shutdownPc, teardownComplete, released, orphans>>

\* The armed teardown is gated BEFORE it runs.
StartTeardown ==
    /\ shutdownPc = "sweeping" /\ sweep = {}
    /\ armed # None
    /\ armed' = None
    /\ Retain(ArmKey, GateEntry)
    /\ teardown' = "running"
    /\ shutdownPc' = "teardown"
    /\ UNCHANGED <<scopeVars, attempting, proved, state, sweep, sweepAt, teardownComplete,
                   released, orphans>>

\* It returned: the gate is discharged, in time or long after the bound.
TeardownReturns ==
    /\ teardown = "running"
    /\ teardown' = "done"
    /\ proved' = proved \cup {GateEntry}
    /\ obligations' = Without(GateEntry)
    /\ UNCHANGED <<scopeVars, entryKey, attempting, state, armed, shutdownPc, sweep,
                   sweepAt, teardownComplete, orphans>>
    /\ Evaluate

\* It rejected: it proved nothing and the gate stays.
TeardownThrows ==
    /\ teardown = "running"
    /\ teardown' = "failed"
    /\ UNCHANGED <<scopeVars, obligationVars, state, armed, shutdownPc, sweep, sweepAt,
                   teardownComplete, released, orphans>>

\* The rest of beginShutdown(): there was nothing armed, the teardown ended, or
\* teardownTimeoutMs ran out while it was running.
Answer ==
    /\ \/ shutdownPc = "sweeping" /\ sweep = {} /\ armed = None
       \/ shutdownPc = "teardown"
    /\ shutdownPc' = "answered"
    /\ teardownComplete' = TRUE
    /\ UNCHANGED <<scopeVars, obligationVars, state, armed, teardown, sweep, sweepAt,
                   orphans>>
    /\ Evaluate

Next ==
    \/ \E s \in Scopes, t \in Threads : RunExclusive(s, t)
    \/ \E s \in Scopes : ExclusiveSettles(s)
    \/ \E c \in Claims, t \in Threads : RunTeardown(c, t)
    \/ \E c \in Claims : JoinExclusive(c)
    \/ \E c \in Claims : JoinSettles(c)
    \/ \E c \in Claims : TeardownSettles(c)
    \/ \E k \in Keys, e \in Entries : BodyRetains(k, e)
    \/ \E e \in Entries : Prove(e)
    \/ \E e \in Entries : Discharge(e)
    \/ \E e \in Entries : StartAttempt(e)
    \/ \E e \in Entries : AttemptSucceeds(e)
    \/ \E e \in Entries : AttemptFails(e)
    \/ \E d \in Teardowns : Arm(d)
    \/ \E k \in Keys, e \in Entries : LateArm(k, e)
    \/ Shutdown
    \/ JoinAllSettles
    \/ \E e \in Entries : SweepAttempts(e)
    \/ StartTeardown
    \/ TeardownReturns
    \/ TeardownThrows
    \/ Answer

Spec == Init /\ [][Next]_vars

\* Only what the event loop and the timers guarantee: the bounds fire and the
\* code between two awaits runs.  No body, attempt or teardown has to end.
BoundsFire ==
    /\ WF_vars(JoinAllSettles)
    /\ \A e \in Entries : WF_vars(SweepAttempts(e))
    /\ \A e \in Entries : WF_vars(AttemptFails(e))
    /\ WF_vars(StartTeardown)
    /\ WF_vars(Answer)

FairSpec == Spec /\ BoundsFire

-----------------------------------------------------------------------------
(* Properties. *)

\* When the lock has been let go, no body owned by the process still runs, the
\* armed teardown is not half way, and every cleanup that was registered while
\* the lock could still be held for it has really happened: the successor
\* process that takes the lock meets nothing of this one.
ReleaseSafe ==
    released =>
        /\ LiveScopes = {}
        /\ LiveClaims = {}
        /\ teardown # "running"
        /\ Created \ orphans \subseteq proved

\* The count kept per thread is the number of teardown bodies running on it, so
\* the end of a nested claim does not open the thread under the outer one.
ClaimCounted ==
    \A t \in Threads : teardownClaims[t] = Cardinality({c \in Claims : claimThread[c] = t})

\* A teardown that was told "joined" is alone on its thread until it settles:
\* what it destroys then, no exclusive body is using.
JoinedAlone ==
    \A c \in Claims : claimPc[c] = "joined" => ScopesOf(claimThread[c]) = {}

\* A registered obligation is never overwritten or dropped by a step while what
\* it stands for is still there: no failed attempt, timeout, second registration
\* of its key or stale handle takes it away.
UnprovenObligationStays ==
    [][\A e \in Registered : e \in Registered' \/ e \in proved']_vars

\* shutdown() answers its caller whatever hangs: bodies that never settle,
\* attempts and a teardown that never return.
ShutdownAnswers == state = "shutting-down" ~> shutdownPc = "answered"

\* To the outside, the coordinator is a lease on the process lock, held for a
\* set of owed work; shutdown itself is owed until it has answered.
Owed ==
    {<<"scope", s>> : s \in LiveScopes}
    \cup {<<"claim", c>> : c \in LiveClaims}
    \cup {<<"obligation", e>> : e \in Registered \ orphans}
    \cup (IF state = "shutting-down" /\ ~teardownComplete
          THEN {<<"shutdown", None>>} ELSE {})

AllWork ==
    ({"scope"} \X Scopes) \cup ({"claim"} \X Claims)
    \cup ({"obligation"} \X Entries) \cup {<<"shutdown", None>>}

Lease == INSTANCE LockLease WITH
    Work <- AllWork, Shutdown <- <<"shutdown", None>>,
    owed <- Owed, draining <- (state = "shutting-down"), held <- ~released

\* The coordinator implements the lease.
LeaseSpec == Lease!Spec
=============================================================================
