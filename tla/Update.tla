--------------------------------- MODULE Update ---------------------------------
(***************************************************************************)
(* The local updater of one checkout (scripts/update.mjs) with what it     *)
(* drives: stop-bot.sh, run-bot.sh with scripts/lib/run-core.mjs,          *)
(* scripts/setup.mjs, and the systemd user units that keep bots resident.  *)
(*                                                                         *)
(* All instances run from the same files.  An update stops its targets,    *)
(* moves the files, and puts back what it found; a record on disk says     *)
(* what that was.  Updater and machine may die between any two steps, a    *)
(* bot may fall at any time, and a resident bot is started again by its    *)
(* unit.  The source always has a newer revision to move to.               *)
(***************************************************************************)
EXTENDS Naturals, FiniteSets, TLC

CONSTANTS
    Instances,
    Updaters,      \* invocations of update.sh that may run at once
    Nothing,
    Pauses,        \* may an update begin while a unit waits to restart its bot?
    MaxUpdates, MaxCrashes  \* bounds: invocations; updater deaths and reboots

ASSUME UpdateAssumption ==
    Nothing \notin Instances \cup Updaters /\ Pauses \in BOOLEAN /\ MaxUpdates \in Nat /\ MaxCrashes \in Nat

VARIABLES
    unit,       \* "none", "disabled" or "enabled": the residency registration
    active,     \* the unit is started: it keeps the bot running
    proc,       \* the bot: "down", "starting", "ready", "stopping"
    marker,     \* the ready marker: of the live process, of an "old" one, or "none"
    saved,      \* update-state.<instance>.json
    locked,     \* updates/<instance>.lock
    up,         \* each invocation of the updater
    torn,       \* ghost: bots stopped for a move of the files that is not over
    owed,       \* ghost: what each stopped bot was when its update began
    updates, crashes

bots == <<proc, marker>>
machine == <<unit, active, bots>>
ghosts == <<torn, owed>>
counts == <<updates, crashes>>
updateVars == <<machine, saved, locked, up, ghosts, counts>>

Entry == [ran : BOOLEAN, enabled : BOOLEAN]
State == UNION {[T -> Entry] : T \in (SUBSET Instances) \ {{}}}

ASSUME NothingIsNoState == Nothing \notin State \cup Entry

Idle == [pc |-> "idle"]
Live(i) == proc[i] # "down"
Targets(u) == DOMAIN up[u].plan[up[u].own]
At(u, p) == up[u].pc = p
GoesTo(u, p) == up' = [up EXCEPT ![u].pc = p]

UpdateTypeOK ==
    /\ unit \in [Instances -> {"none", "disabled", "enabled"}]
    /\ active \in [Instances -> BOOLEAN] /\ \A i \in Instances : active[i] => unit[i] # "none"
    /\ proc \in [Instances -> {"down", "starting", "ready", "stopping"}]
    /\ marker \in [Instances -> {"none", "own", "old"}]
    /\ saved \in [Instances -> State \cup {Nothing}]
    /\ locked \in [Instances -> Updaters \cup {Nothing}]
    /\ torn \subseteq Instances /\ owed \in [Instances -> Entry \cup {Nothing}]

UpdateInit ==
    /\ unit \in [Instances -> {"none", "disabled", "enabled"}]
    /\ active = [i \in Instances |-> unit[i] = "enabled"]
    /\ proc \in [Instances -> {"down", "ready"}]
    /\ \A i \in Instances : active[i] => proc[i] = "ready"
    /\ marker = [i \in Instances |-> IF proc[i] = "ready" THEN "own" ELSE "none"]
    /\ saved = [i \in Instances |-> Nothing] /\ locked = [i \in Instances |-> Nothing]
    /\ up = [u \in Updaters |-> Idle]
    /\ torn = {} /\ owed = [i \in Instances |-> Nothing]
    /\ updates = 0 /\ crashes = 0

-----------------------------------------------------------------------------
(* The bots and their units.                                                *)

BotReady(i) ==
    /\ proc[i] = "starting"
    /\ proc' = [proc EXCEPT ![i] = "ready"] /\ marker' = [marker EXCEPT ![i] = "own"]
    /\ UNCHANGED <<unit, active, saved, locked, up, ghosts, counts>>

Left(m) == IF m = "own" THEN "old" ELSE m

\* A bot that is killed, or dies, leaves its marker behind.
BotFalls(i) ==
    /\ Live(i)
    /\ proc' = [proc EXCEPT ![i] = "down"] /\ marker' = [marker EXCEPT ![i] = Left(@)]
    /\ UNCHANGED <<unit, active, saved, locked, up, ghosts, counts>>

BotStopped(i) ==
    /\ proc[i] = "stopping"
    /\ proc' = [proc EXCEPT ![i] = "down"]
    /\ marker' = [marker EXCEPT ![i] = IF @ = "own" THEN "none" ELSE @]
    /\ UNCHANGED <<unit, active, saved, locked, up, ghosts, counts>>

\* Restart=always
Respawn(i) ==
    /\ active[i] /\ proc[i] = "down"
    /\ proc' = [proc EXCEPT ![i] = "starting"]
    /\ UNCHANGED <<unit, active, marker, saved, locked, up, ghosts, counts>>

Crashes == crashes < MaxCrashes /\ crashes' = crashes + 1

Reboot ==
    /\ Crashes
    /\ proc' = [i \in Instances |-> "down"]
    /\ marker' = [i \in Instances |-> Left(marker[i])]
    /\ active' = [i \in Instances |-> unit[i] = "enabled"]
    /\ up' = [u \in Updaters |-> Idle]
    /\ UNCHANGED <<unit, saved, locked, ghosts, updates>>

\* A killed updater, or a record that cannot be written, which is outside the
\* updater's try: the lock file stays.
UpdaterDies(u) ==
    /\ ~At(u, "idle") /\ Crashes
    /\ up' = [up EXCEPT ![u] = Idle]
    /\ UNCHANGED <<machine, saved, locked, ghosts, updates>>

\* Bound: no one starts or stops a bot by hand beside an update.
Unattended == \A u \in Updaters : At(u, "idle")

\* run-bot.sh refuses when the lock's pid is alive.
HandStart(i) ==
    /\ Unattended /\ ~Live(i) /\ ~active[i]
    /\ proc' = [proc EXCEPT ![i] = "starting"]
    /\ torn' = torn \ {i}
    /\ UNCHANGED <<unit, active, marker, saved, locked, up, owed, counts>>

Signalled(i) == IF Live(i) THEN [proc EXCEPT ![i] = "stopping"] ELSE proc

\* stop-bot.sh: the unit first, then the process.
HandStop(i) ==
    /\ Unattended /\ Live(i)
    /\ active' = [active EXCEPT ![i] = FALSE]
    /\ proc' = Signalled(i)
    /\ UNCHANGED <<unit, marker, saved, locked, up, ghosts, counts>>

\* Nothing in the code removes the lock of an updater that died.
LockRemovedByHand(i) ==
    /\ Unattended /\ locked[i] # Nothing
    /\ locked' = [locked EXCEPT ![i] = Nothing]
    /\ UNCHANGED <<machine, saved, up, ghosts, counts>>

-----------------------------------------------------------------------------
(* An update, up to its first change.                                       *)

LiveInstances == {i \in Instances : Live(i)}
Begins(u) == At(u, "idle") /\ updates < MaxUpdates /\ updates' = updates + 1

\* No record may be pending, and the bots of others need --all-instances.
MayApply(i, all) == saved[i] = Nothing /\ (LiveInstances \subseteq {i} \/ all)

Preflight(u, i, all, restart) ==
    /\ Begins(u) /\ MayApply(i, all)
    /\ Pauses \/ \A j \in Instances : active[j] => Live(j)
    /\ up' = [up EXCEPT ![u] = [pc |-> "fetching", own |-> i, restart |-> restart, live |-> LiveInstances,
                               targets |-> {i} \cup IF all THEN LiveInstances ELSE {}]]
    /\ UNCHANGED <<machine, saved, locked, ghosts, crashes>>

\* The residency is read once the target is fetched; the operator is asked then.
Snapshot(u) ==
    /\ At(u, "fetching")
    /\ LET entry(i) == [ran |-> i \in up[u].live, enabled |-> unit[i] = "enabled"]
       IN  up' = [up EXCEPT ![u] = [pc |-> "confirming", own |-> @.own, restart |-> @.restart,
                     plan |-> [k \in Instances |-> IF k = @.own THEN [i \in @.targets |-> entry(i)] ELSE Nothing]]]
    /\ UNCHANGED <<machine, saved, locked, ghosts, counts>>

\* The fetch fails, or is of another revision than was announced; the branch
\* cannot fast-forward; or the new version rejects the configuration.
Refused(u) ==
    /\ At(u, "fetching")
    /\ up' = [up EXCEPT ![u] = Idle]
    /\ UNCHANGED <<machine, saved, locked, ghosts, counts>>

\* There are active threads or dirty worktrees, and the operator says no.
Declined(u) ==
    /\ At(u, "confirming")
    /\ up' = [up EXCEPT ![u] = Idle]
    /\ UNCHANGED <<machine, saved, locked, ghosts, counts>>

AcquireLock(u) ==
    /\ At(u, "confirming") /\ locked[up[u].own] = Nothing
    /\ locked' = [locked EXCEPT ![up[u].own] = u]
    /\ GoesTo(u, "saving")
    /\ UNCHANGED <<machine, saved, ghosts, counts>>

LockHeld(u) ==
    /\ At(u, "confirming") /\ locked[up[u].own] # Nothing
    /\ up' = [up EXCEPT ![u] = Idle]
    /\ UNCHANGED <<machine, saved, locked, ghosts, counts>>

StopsNext(u) ==
    up' = [up EXCEPT ![u] = [pc |-> "stopping", own |-> @.own, restart |-> @.restart, plan |-> @.plan,
                            left |-> Targets(u), half |-> Nothing]]

WriteState(u) ==
    /\ At(u, "saving")
    /\ saved' = [saved EXCEPT ![up[u].own] = up[u].plan[up[u].own]]
    /\ StopsNext(u)
    /\ UNCHANGED <<machine, locked, ghosts, counts>>

-----------------------------------------------------------------------------
(* Stop, move, set up.                                                      *)

\* Mutant of Disabled: a unit that is only stopped starts at the next boot.
DisabledUntilBoot(i) == unit
Disabled(i) == IF unit[i] = "enabled" THEN [unit EXCEPT ![i] = "disabled"] ELSE unit

\* stop-bot.sh --disable: systemctl stop and disable ...
StopUnit(u, i) ==
    /\ At(u, "stopping") /\ i \in up[u].left /\ up[u].half = Nothing
    /\ up' = [up EXCEPT ![u].half = i]
    /\ unit' = Disabled(i)
    /\ active' = [active EXCEPT ![i] = FALSE]
    /\ proc' = IF active[i] THEN Signalled(i) ELSE proc
    /\ owed' = IF owed[i] = Nothing THEN [owed EXCEPT ![i] = up[u].plan[up[u].own][i]] ELSE owed
    /\ UNCHANGED <<marker, saved, locked, torn, counts>>

\* ... then the process the lock names.
StopProcess(u) ==
    /\ At(u, "stopping") /\ up[u].half # Nothing
    /\ proc' = Signalled(up[u].half)
    /\ up' = [up EXCEPT ![u].left = @ \ {up[u].half}, ![u].half = Nothing]
    /\ UNCHANGED <<unit, active, marker, saved, locked, ghosts, counts>>

\* verifyStopped: no target has a live process, nor a successor.
Verified(u) ==
    /\ At(u, "stopping") /\ up[u].left = {}
    /\ Targets(u) \cap LiveInstances = {}
    /\ GoesTo(u, "moving")
    /\ UNCHANGED <<machine, saved, locked, ghosts, counts>>

ApplySource(u) ==
    /\ At(u, "moving")
    /\ torn' = torn \cup Targets(u)
    /\ GoesTo(u, "setup")
    /\ UNCHANGED <<machine, saved, locked, owed, counts>>

Recorded(u) == up[u].plan[up[u].at]
RestoresNext(u, k) ==
    [pc |-> "restoring", own |-> up[u].own, plan |-> up[u].plan, at |-> k, left |-> DOMAIN up[u].plan[k],
     child |-> Nothing]

\* The record's promises are kept, or given up by --no-restart.
Discharged(entries) ==
    owed' = [i \in Instances |-> IF i \in DOMAIN entries /\ owed[i] = entries[i] THEN Nothing ELSE owed[i]]

\* setup.mjs: prerequisites, configuration, and no running bot of its own
\* instance, before it touches anything.
SetupChecked(u) ==
    /\ At(u, "setup") /\ ~Live(up[u].own)
    /\ GoesTo(u, "building")
    /\ UNCHANGED <<machine, saved, locked, ghosts, counts>>

\* npm install and build, the .env, and the updater goes on.
SetupDone(u) ==
    /\ At(u, "building")
    /\ torn' = {}
    /\ IF up[u].restart
       THEN /\ up' = [up EXCEPT ![u] = RestoresNext(u, up[u].own)]
            /\ UNCHANGED <<saved, locked, owed>>
       ELSE /\ up' = [up EXCEPT ![u] = Idle]
            /\ saved' = [saved EXCEPT ![up[u].own] = Nothing]
            /\ locked' = [locked EXCEPT ![up[u].own] = Nothing]
            /\ Discharged(up[u].plan[up[u].own])
    /\ UNCHANGED <<machine, counts>>

-----------------------------------------------------------------------------
(* Restore: the last stage of an update, and the command of its own.        *)

Released(u) == IF up[u].own = Nothing THEN locked ELSE [locked EXCEPT ![up[u].own] = Nothing]

\* Mutant of Fails: a failed update takes its record away.
FailsClean(u) ==
    /\ up[u].pc \in {"stopping", "moving", "setup", "building", "restoring"}
    /\ locked' = Released(u) /\ up' = [up EXCEPT ![u] = Idle]
    /\ saved' = IF up[u].own = Nothing THEN saved ELSE [saved EXCEPT ![up[u].own] = Nothing]
    /\ UNCHANGED <<machine, ghosts, counts>>

\* Any step may throw: the lock goes, the record stays.
Fails(u) ==
    /\ up[u].pc \in {"stopping", "moving", "setup", "building", "restoring"}
    /\ locked' = Released(u) /\ up' = [up EXCEPT ![u] = Idle]
    /\ UNCHANGED <<machine, saved, ghosts, counts>>

\* Every record of this checkout is read, and worked off without a lock.
RestoreSaved(u, k) ==
    /\ Begins(u) /\ saved[k] # Nothing
    /\ up' = [up EXCEPT ![u] = [pc |-> "restoring", own |-> Nothing, plan |-> saved, at |-> k, left |-> DOMAIN saved[k],
                               child |-> Nothing]]
    /\ UNCHANGED <<machine, saved, locked, ghosts, crashes>>

\* systemctl enable, and start if the bot ran: the unit does the rest.
RestoreResidency(u, i) ==
    /\ At(u, "restoring") /\ i \in up[u].left /\ Recorded(u)[i].enabled
    /\ unit' = [unit EXCEPT ![i] = "enabled"]
    /\ active' = [active EXCEPT ![i] = @ \/ Recorded(u)[i].ran]
    /\ torn' = torn \ {i}
    /\ up' = [up EXCEPT ![u].left = @ \ {i}]
    /\ UNCHANGED <<bots, saved, locked, owed, counts>>

LeaveDown(u, i) ==
    /\ At(u, "restoring") /\ i \in up[u].left /\ ~Recorded(u)[i].enabled /\ ~Recorded(u)[i].ran
    /\ up' = [up EXCEPT ![u].left = @ \ {i}]
    /\ UNCHANGED <<machine, saved, locked, ghosts, counts>>

\* launchDetached refuses a live lock (Fails) and waits for its child's marker.
StartInstance(u, i) ==
    /\ At(u, "restoring") /\ i \in up[u].left /\ ~Recorded(u)[i].enabled /\ Recorded(u)[i].ran
    /\ ~Live(i)
    /\ proc' = [proc EXCEPT ![i] = "starting"]
    /\ torn' = torn \ {i}
    /\ up' = [up EXCEPT ![u].left = @ \ {i}, ![u].child = i, ![u].pc = "launching"]
    /\ UNCHANGED <<unit, active, marker, saved, locked, owed, counts>>

Launched(u) ==
    /\ At(u, "launching") /\ proc[up[u].child] = "ready"
    /\ GoesTo(u, "restoring")
    /\ UNCHANGED <<machine, saved, locked, ghosts, counts>>

\* The child exited, or was not ready in time and is terminated.
LaunchFails(u) ==
    /\ At(u, "launching")
    /\ proc' = Signalled(up[u].child)
    /\ locked' = Released(u) /\ up' = [up EXCEPT ![u] = Idle]
    /\ UNCHANGED <<unit, active, marker, saved, ghosts, counts>>

\* Mutant of Ready: any ready marker counts, a dead process's too.
ReadyByMarker(i) == Live(i) /\ marker[i] # "none"

\* readyMarkerMatches: the marker names the process that holds the lock.
Ready(i) == Live(i) /\ marker[i] = "own"

\* Every bot that ran is ready: the record goes, and the next one is taken up.
Proved(u) ==
    /\ At(u, "restoring") /\ up[u].left = {}
    /\ \A i \in DOMAIN Recorded(u) : Recorded(u)[i].ran => Ready(i)
    /\ saved' = [saved EXCEPT ![up[u].at] = Nothing]
    /\ Discharged(Recorded(u))
    /\ LET rest == [up[u].plan EXCEPT ![up[u].at] = Nothing]
       IN  \/ \E k \in Instances :
                 /\ rest[k] # Nothing
                 /\ up' = [up EXCEPT ![u].plan = rest, ![u].at = k, ![u].left = DOMAIN rest[k]]
                 /\ UNCHANGED locked
           \/ /\ \A k \in Instances : rest[k] = Nothing
              /\ up' = [up EXCEPT ![u] = Idle] /\ locked' = Released(u)
    /\ UNCHANGED <<machine, torn, counts>>

-----------------------------------------------------------------------------
Environment(i) ==
    BotReady(i) \/ BotFalls(i) \/ BotStopped(i) \/ Respawn(i) \/ HandStart(i) \/ HandStop(i) \/ LockRemovedByHand(i)

Applies(u) ==
    \/ \E i \in Instances, all, restart \in BOOLEAN : Preflight(u, i, all, restart)
    \/ Snapshot(u) \/ Refused(u) \/ Declined(u) \/ AcquireLock(u) \/ LockHeld(u) \/ WriteState(u)
    \/ (\E i \in Instances : StopUnit(u, i)) \/ StopProcess(u) \/ Verified(u)
    \/ ApplySource(u) \/ SetupChecked(u) \/ SetupDone(u) \/ Fails(u)

Restores(u) ==
    \/ \E i \in Instances : RestoreSaved(u, i) \/ RestoreResidency(u, i) \/ LeaveDown(u, i) \/ StartInstance(u, i)
    \/ Launched(u) \/ LaunchFails(u) \/ Proved(u)

UpdateNext ==
    \/ \E i \in Instances : Environment(i)
    \/ \E u \in Updaters : Applies(u) \/ Restores(u) \/ UpdaterDies(u)
    \/ Reboot

UpdateSpec == UpdateInit /\ [][UpdateNext]_updateVars

Swap == Permutations(Instances)

-----------------------------------------------------------------------------
\* What a bot was before an update stopped it stays on record until it is put
\* back or --no-restart gives it up, through failures, deaths of the updater,
\* reboots, restores that fail half-way and updates for another instance
\* (writeState before stopInstance; the record is removed last).
DowntimeIsRemembered ==
    \A i \in Instances : owed[i] # Nothing =>
        \E k \in Instances : saved[k] # Nothing /\ i \in DOMAIN saved[k] /\ saved[k][i] = owed[i]

\* From the moment the files move until a setup has succeeded, no bot the
\* update stopped runs, unless the operator starts it or asks for --restore: not
\* by its unit, not at the next boot; and while setup runs, no bot of the
\* checkout runs at all ("a bot that starts halfway through a build",
\* scripts/update.mjs:7-12; liveInstances, stopInstance, verifyStopped).
NoBotOnTornFiles ==
    /\ \A i \in torn : ~Live(i)
    /\ (\E u \in Updaters : At(u, "setup") \/ At(u, "building")) => LiveInstances = {}

\* A record is only ever removed when every bot on it that ran is ready (or is
\* on its way out and its unit brings it back) and every unit is enabled that
\* was, or by an update told not to restart: a bot that died and left its marker
\* does not count (restoreState, then rmSync; readyMarkerMatches).
PutBackAsFound ==
    [][\A u \in Updaters : At(u, "restoring") => \A k \in Instances :
         saved[k] # Nothing /\ saved'[k] = Nothing /\ up[u].at = k => \A i \in DOMAIN saved[k] :
             /\ saved[k][i].ran => proc[i] = "ready" \/ (proc[i] = "stopping" /\ active[i])
             /\ saved[k][i].enabled => unit[i] = "enabled"]_updateVars
=============================================================================
