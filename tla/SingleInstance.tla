---------------------------- MODULE SingleInstance ----------------------------
(***************************************************************************)
(* src/core/single-instance.ts with the two things of a process that lean  *)
(* on it: the readiness publication of src/core/bootstrap.ts and           *)
(* src/core/startup-ready.ts, and the release at the end of shutdown.      *)
(* Several processes share one disk; each system call is a step, and a     *)
(* process may die between any two.  The processes are pids: a pid in      *)
(* Reused may be given to a new process after its holder died.             *)
(***************************************************************************)
EXTENDS Naturals, FiniteSets

CONSTANTS
    Procs,      \* pids
    Mortal,     \* pids whose process may die or exit
    Reused,     \* pids the system may hand out again
    Failing,    \* pids that may fail to write or remove a file
    Nobody      \* no file, or no pid read from one

ASSUME ProcsAssumption ==
    Nobody \notin Procs /\ Mortal \subseteq Procs /\ Reused \subseteq Procs
        /\ Failing \subseteq Procs

\* for (attempt = 0; attempt < 2; attempt++)
Attempts == 2

\* The lock file: who created it, and whether its pid has been written yet.
LockFiles == [creator : Procs, written : BOOLEAN]

ASSUME NobodyIsNoFile == Nobody \notin LockFiles

VARIABLES
    lock,       \* the lock file, or Nobody
    ready,      \* the pid in the current-ready status file, or Nobody
    token,      \* the processes whose launcher's token marker exists
    alive,      \* the pids that run
    pc,         \* where each process is
    attempt,    \* the attempts left to it in acquireSingleInstanceLock
    holder,     \* the pid it read from the lock file
    shutting,   \* the processes whose shutdown has begun
    clearing,   \* the teardown's clearStartupReady, once that teardown is armed
    served,     \* the processes that ended their startup as serving (history)
    overtaken,  \* the starters whose judged lock file has been removed (history)
    robbed      \* the processes an overtaken starter took the lock from (history)

history == <<overtaken, robbed>>

lockVars == <<lock, ready, token, alive, pc, attempt, holder, shutting, clearing, served, history>>

Acquiring == {"create", "created", "reading", "judge", "reclaim"}
\* The states with a live exclusive scope: startup, then the publication.
Scoped == {"starting", "armed", "status", "token", "check", "retract", "matched", "unmark"}
Owning == Scoped \cup {"serving", "stopping", "unlink"}
\* Those whose own lock file should be at the path.
Holders == {p \in alive : pc[p] \in Owning \cup {"created"}}

LockTypeOK ==
    /\ lock \in LockFiles \cup {Nobody}
    /\ ready \in Procs \cup {Nobody}
    /\ token \subseteq Procs
    /\ alive \subseteq Procs
    /\ pc \in [Procs -> Acquiring \cup Owning \cup {"off", "refused", "exhausted", "over"}]
    /\ attempt \in [Procs -> 0 .. Attempts]
    /\ holder \in [Procs -> Procs \cup {Nobody}]
    /\ shutting \subseteq Procs
    /\ clearing \in [Procs -> {"unarmed", "idle", "matched", "done"}]
    /\ served \subseteq Procs /\ overtaken \subseteq Procs /\ robbed \subseteq Procs

LockInit ==
    /\ lock = Nobody
    /\ ready = Nobody
    /\ token = {}
    /\ alive = {}
    /\ pc = [p \in Procs |-> "off"]
    /\ attempt = [p \in Procs |-> 0]
    /\ holder = [p \in Procs |-> Nobody]
    /\ shutting = {}
    /\ clearing = [p \in Procs |-> "unarmed"]
    /\ served = {} /\ overtaken = {} /\ robbed = {}

Goto(p, l) == pc' = [pc EXCEPT ![p] = l]

\* The locals of acquireSingleInstanceLock go when it returns or throws.
Forget(p) ==
    /\ attempt' = [attempt EXCEPT ![p] = 0]
    /\ holder' = [holder EXCEPT ![p] = Nobody]
    /\ overtaken' = overtaken \ {p}

-----------------------------------------------------------------------------
(* Processes come and go. *)

Launch(p) ==
    /\ pc[p] = "off" /\ p \notin alive
    /\ alive' = alive \cup {p}
    /\ attempt' = [attempt EXCEPT ![p] = Attempts]
    /\ Goto(p, "create")
    /\ UNCHANGED <<lock, ready, token, holder, shutting, clearing, served, history>>

\* The process ends: it crashed, was killed, or had nothing left to do.  Its lock
\* and its status file stay, all else that is kept of it goes; a pid that is reused
\* starts again with a new launch and a new token.
Exit(p) ==
    /\ p \in alive \cap Mortal
    /\ alive' = alive \ {p}
    /\ Goto(p, IF p \in Reused THEN "off" ELSE "over")
    /\ Forget(p)
    /\ token' = token \ {p}
    /\ shutting' = shutting \ {p}
    /\ clearing' = [clearing EXCEPT ![p] = "unarmed"]
    /\ served' = served \ {p}
    /\ robbed' = robbed \ {p}
    /\ UNCHANGED <<lock, ready>>

-----------------------------------------------------------------------------
(* acquireSingleInstanceLock. *)

\* tryCreateLock: open with "wx".
Create(p) ==
    /\ pc[p] = "create"
    /\ IF lock = Nobody
       THEN lock' = [creator |-> p, written |-> FALSE] /\ Goto(p, "created")
       ELSE UNCHANGED lock /\ Goto(p, "reading")
    /\ UNCHANGED <<ready, token, alive, attempt, holder, shutting, clearing, served, history>>

\* The pid goes to the open descriptor: to the file at the path only if that is
\* still the file this process created.
WritePid(p) ==
    /\ pc[p] = "created"
    /\ lock' = IF lock # Nobody /\ lock.creator = p THEN [lock EXCEPT !.written = TRUE] ELSE lock
    /\ Goto(p, "starting") /\ Forget(p)
    /\ UNCHANGED <<ready, token, alive, shutting, clearing, served, robbed>>

Readable == lock # Nobody /\ lock.written

\* The file at the path is removed, whoever's it is by now.  Every other starter
\* that has judged it is overtaken; its owner is robbed if it was removed by mistake.
LockRemoved(p, mistake) ==
    /\ lock' = Nobody
    /\ overtaken' = (overtaken \ {p}) \cup
                        {q \in Procs \ {p} : pc[q] \in {"judge", "reclaim"}}
    /\ robbed' = IF mistake THEN robbed \cup {q \in Holders : lock # Nobody /\ lock.creator = q}
                             ELSE robbed

\* readHolderPidWithRetry: an empty or missing file is read again a few times,
\* and is then an indeterminate owner: refuse.
ReadHolder(p) ==
    /\ pc[p] = "reading"
    /\ IF Readable
       THEN /\ holder' = [holder EXCEPT ![p] = lock.creator]
            /\ overtaken' = overtaken \ {p}
            /\ Goto(p, "judge")
            /\ UNCHANGED attempt
       ELSE \/ Goto(p, "reading") /\ UNCHANGED <<attempt, holder, overtaken>>
            \/ Goto(p, "refused") /\ Forget(p)
    /\ UNCHANGED <<lock, ready, token, alive, shutting, clearing, served, robbed>>

\* Fault: the holder's liveness is not asked.
JudgeDead(p) ==
    /\ pc[p] = "judge"
    /\ Goto(p, "reclaim")
    /\ UNCHANGED <<lock, ready, token, alive, attempt, holder, shutting, clearing, served, history>>

\* holder !== process.pid && isAlive(holder).
Judge(p) ==
    /\ pc[p] = "judge"
    /\ IF holder[p] # p /\ holder[p] \in alive
       THEN Goto(p, "refused") /\ Forget(p)
       ELSE Goto(p, "reclaim") /\ UNCHANGED <<attempt, holder, overtaken>>
    /\ UNCHANGED <<lock, ready, token, alive, shutting, clearing, served, robbed>>

\* removeQuietlySync, which swallows an error; then the next attempt, or the error
\* after the loop.
Reclaim(p) ==
    /\ pc[p] = "reclaim"
    /\ \/ LockRemoved(p, p \in overtaken)
       \/ p \in Failing /\ overtaken' = overtaken \ {p} /\ UNCHANGED <<lock, robbed>>
    /\ attempt' = [attempt EXCEPT ![p] = @ - 1]
    /\ holder' = [holder EXCEPT ![p] = Nobody]
    /\ Goto(p, IF attempt[p] > 1 THEN "create" ELSE "exhausted")
    /\ UNCHANGED <<ready, token, alive, shutting, clearing, served>>

-----------------------------------------------------------------------------
(* startBot: startup and the readiness publication, each in a scope. *)

\* The wide arm: from here the teardown takes the status file away.  login()
\* installs the signal handlers after it, and nothing before it can begin shutdown
\* but the failure of the start itself.
Arms(p) ==
    /\ pc[p] = "starting"
    /\ clearing' = [clearing EXCEPT ![p] = "idle"]
    /\ Goto(p, "armed")
    /\ UNCHANGED <<lock, ready, token, alive, attempt, holder, shutting, served, history>>

\* A signal, or stop(): shutdown begins while anything may be going on.
ShutdownBegins(p) ==
    /\ p \in alive /\ pc[p] \in (Scoped \ {"starting"}) \cup {"serving"}
    /\ shutting' = shutting \cup {p}
    /\ UNCHANGED <<lock, ready, token, alive, pc, attempt, holder, clearing, served, history>>

\* start() returned: the publication is admitted unless shutdown has begun.
StartSettles(p) ==
    /\ pc[p] = "armed" /\ p \notin shutting
    /\ Goto(p, "status")
    /\ UNCHANGED <<lock, ready, token, alive, attempt, holder, shutting, clearing, served, history>>

\* start() threw, or admission was declined: the catch block of startBot begins
\* (or joins) shutdown, whatever was armed by then.
StartFails(p) ==
    /\ pc[p] \in {"starting", "armed"}
    /\ shutting' = shutting \cup {p}
    /\ Goto(p, "stopping")
    /\ UNCHANGED <<lock, ready, token, alive, attempt, holder, clearing, served, history>>

\* publishReady() threw: the same catch block.  What was written stays.
PublishFails(p) ==
    /\ p \in Failing
    /\ pc[p] \in {"status", "token"}
    /\ shutting' = shutting \cup {p}
    /\ Goto(p, "stopping")
    /\ UNCHANGED <<lock, ready, token, alive, attempt, holder, clearing, served, history>>

\* publishStartupReady: the status file, then the launcher's marker.
PublishStatus(p) ==
    /\ pc[p] = "status"
    /\ ready' = p
    /\ Goto(p, "token")
    /\ UNCHANGED <<lock, token, alive, attempt, holder, shutting, clearing, served, history>>

PublishToken(p) ==
    /\ pc[p] = "token"
    /\ token' = token \cup {p}
    /\ Goto(p, "check")
    /\ UNCHANGED <<lock, ready, alive, attempt, holder, shutting, clearing, served, history>>

\* scope.lostReason() after the publication.
Check(p) ==
    /\ pc[p] = "check"
    /\ IF p \in shutting
       THEN Goto(p, "retract") /\ UNCHANGED served
       ELSE Goto(p, "serving") /\ served' = served \cup {p}
    /\ UNCHANGED <<lock, ready, token, alive, attempt, holder, shutting, clearing, history>>

\* retractStartupReady: removeOwnedMarker reads the status file and, if it names
\* this process, removes it in a later step; then the launcher's marker.
RetractReads(p) ==
    /\ pc[p] = "retract"
    /\ Goto(p, IF ready = p THEN "matched" ELSE "unmark")
    /\ UNCHANGED <<lock, ready, token, alive, attempt, holder, shutting, clearing, served, history>>

RetractStatus(p) ==
    /\ pc[p] = "matched"
    /\ ready' = Nobody
    /\ Goto(p, "unmark")
    /\ UNCHANGED <<lock, token, alive, attempt, holder, shutting, clearing, served, history>>

RetractToken(p) ==
    /\ pc[p] = "unmark"
    /\ token' = token \ {p}
    /\ Goto(p, "stopping")
    /\ UNCHANGED <<lock, ready, alive, attempt, holder, shutting, clearing, served, history>>

\* A removal threw, and with it the publication: the catch block of startBot.
\* The files that are left stay.
RetractFails(p) ==
    /\ p \in Failing /\ pc[p] \in {"matched", "unmark"}
    /\ Goto(p, "stopping")
    /\ UNCHANGED <<lock, ready, token, alive, attempt, holder, shutting, clearing, served, history>>

-----------------------------------------------------------------------------
(* Teardown and release. *)

\* The wide teardown runs as soon as shutdown has joined the scopes, or given up
\* joining them: a scope may still be live.  clearStartupReady reads first.
ClearReads(p) ==
    /\ p \in alive \cap shutting /\ clearing[p] = "idle"
    /\ clearing' = [clearing EXCEPT ![p] = IF ready = p THEN "matched" ELSE "done"]
    /\ UNCHANGED <<lock, ready, token, alive, pc, attempt, holder, shutting, served, history>>

\* The teardown swallows a removal that failed, and is complete all the same.
ClearRemoves(p) ==
    /\ p \in alive /\ clearing[p] = "matched"
    /\ ready' = Nobody \/ (p \in Failing /\ UNCHANGED ready)
    /\ clearing' = [clearing EXCEPT ![p] = "done"]
    /\ UNCHANGED <<lock, token, alive, pc, attempt, holder, shutting, served, history>>

\* Fault: the publication is no scope, so the release does not wait for it.
ReleaseUnscoped(p) ==
    /\ p \in shutting /\ clearing[p] \in {"unarmed", "done"}
    /\ pc[p] \in {"status", "token", "serving", "stopping"}
    /\ Goto(p, IF Readable /\ lock.creator = p THEN "unlink" ELSE "over")
    /\ UNCHANGED <<lock, ready, token, alive, attempt, holder, shutting, clearing, served, history>>

\* The coordinator lets go once no scope is live and the teardown that was armed,
\* if any, is complete: one that clears the status file, or none and stopCopilotClient
\* of a start that failed early.  releaseIfOwner reads the lock and then removes it.
Release(p) ==
    /\ p \in shutting /\ clearing[p] \in {"unarmed", "done"}
    /\ pc[p] \in {"serving", "stopping"}
    /\ Goto(p, IF Readable /\ lock.creator = p THEN "unlink" ELSE "over")
    /\ UNCHANGED <<lock, ready, token, alive, attempt, holder, shutting, clearing, served, history>>

\* An error is swallowed here too.  A process whose own lock was taken between its
\* read and its removal removes its successor's.
Unlink(p) ==
    /\ pc[p] = "unlink"
    /\ \/ LockRemoved(p, p \in robbed)
       \/ p \in Failing /\ UNCHANGED <<lock, history>>
    /\ Goto(p, "over")
    /\ UNCHANGED <<ready, token, alive, attempt, holder, shutting, clearing, served>>

Step(p) ==
    \/ Create(p) \/ WritePid(p) \/ ReadHolder(p) \/ Judge(p) \/ Reclaim(p)
    \/ Arms(p) \/ StartSettles(p) \/ StartFails(p) \/ PublishFails(p)
    \/ PublishStatus(p) \/ PublishToken(p) \/ Check(p)
    \/ RetractReads(p) \/ RetractStatus(p) \/ RetractToken(p) \/ RetractFails(p)
    \/ ShutdownBegins(p) \/ ClearReads(p) \/ ClearRemoves(p)
    \/ Release(p) \/ Unlink(p)

LockNext == \E p \in Procs : Launch(p) \/ Exit(p) \/ Step(p)

LockSpec == LockInit /\ [][LockNext]_lockVars

-----------------------------------------------------------------------------
(* Properties. *)

Owners == {p \in alive : pc[p] \in Owning}

\* Two live processes hold the lock at once only if one of them was robbed: a
\* starter whose judged file had been removed under it removed the file that has
\* replaced it (or the robbed owner, releasing later, that of its successor).  No
\* other overlap of starters, holders, corpses and reused pids makes two.
MutualExclusion == \A p, q \in Owners \ robbed : p = q

\* A process that let go of the lock left no claim to be serving behind: not the
\* status file, unless its start failed before there was a teardown to clear it,
\* and not the launcher's marker of a start it gave up.  (Not so for a process that
\* could not write or remove one of the two files.)
NoClaimAfterRelease ==
    \A p \in alive \ Failing : pc[p] \in {"unlink", "over"} =>
        /\ ready = p => clearing[p] = "unarmed"
        /\ p \in token => p \in served
=============================================================================
