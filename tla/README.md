# Verification project for the Discord ↔ Copilot bridge

The repository is a Discord bot that runs GitHub Copilot SDK sessions on the
operator's own machine: one Discord thread is one conversation, bound to one
repository or git worktree. It is one Node process, but nearly everything it
does awaits something (Discord, the SDK, git, a file), so two operations of one
thread interleave at every `await`, and the process itself may be stopped or
killed between any two of them and started again over the same files. What can
go wrong is therefore seldom in a function and mostly between two of them: a
`/end` that overtakes a rebind, a shutdown that overtakes both, an SDK session
nobody can prove stopped, a store write that fails half way through a rollback.
The modules here model those, TLC explores every order of them on small
instances, and TLAPS proves the central ones for all sizes.

Paths below are relative to the repository. `PROJECT.json` maps every
definition to its source lines.

## 1. Inventory of the system

| Component | State it keeps | Operations | Hard behaviour | What makes it correct |
|---|---|---|---|---|
| **Lifecycle ownership** `src/core/lifecycle-ownership.ts` | running scopes, live teardown claims per thread, retained teardown obligations, armed teardown, release latch | `runExclusive`, `claimTeardown`/`joinAll`/`finish`, `retainUntil`/`discharge`/`forget`, `armTeardown`, `beginShutdown`, `releaseWhenSettled` | bodies that never settle, obligations registered late, several attempts on one obligation, two claims of one thread | the process lock is let go exactly when nobody owes anything, and the shutdown still always answers |
| **Single-instance lock** `src/core/single-instance.ts` | `<data>/bot.lock` with a pid | `acquireSingleInstanceLock`, `release` | two starters at once, stale and torn files, reused pids | one owner; a dead owner's file can be reclaimed |
| **Startup readiness, bootstrap** `src/core/startup-ready.ts`, `bootstrap.ts`, `src/index.ts` | marker and status file, the startup scopes | publish, retract, clear | a shutdown during startup; files that cannot be written | no live claim of readiness without the lock behind it |
| **Session store** `src/core/session-store.ts` | primaries, stale companions, a generation counter, byte quotas, the file | reserve, complete, commit, CAS delete/restore/remove, attachment reservation | every write may fail; a crash between memory and file | no generation that fenced an actor off comes again; a late CAS never touches a newer incarnation |
| **New session, `/end`, retirement** `src/app.ts` | the session map, `endedSessions`, starting threads | `/new`, `/end`, `endLiveSession`, `endStaleRecord` | runs over a rebind's awaits | an ended conversation stays ended |
| **Rebind coordinator** `src/core/rebind-coordinator.ts` | the transaction's phase, incarnations whose stop is unproven, fallback plans, retries | check, open root, reserve, create, commit, retire, abandon, undo, retry | everything above at once | every runtime is recorded and gates the lock; one side wins; no checkout is pulled from under a runtime |
| **Worktrees** `src/core/worktree.ts`, `git.ts` | checkouts on disk | add or reuse, remove | removal refused; reuse of another incarnation's directory | see rebind |
| **Application shutdown** `src/app.ts` (`teardownResources`) | the sweep over sessions and unproven incarnations | join or retry each teardown | teardown already running, store failing | see rebind, lifecycle |
| **Session actor: turns** `src/copilot/session-actor.ts`, `core/turn-gate.ts` | turn gate, aborting flag, queued steers, faults | prompt, steer, abort, disconnect | a steer or a fault racing `/stop` | a stopped turn takes no further input; one turn at a time |
| **Session actor: file delivery** same, `outbound-file.ts` | gate owner, approval epoch, single-use approvals, fence | approve, send, suspend, resume | approvals that outlive a turn, the fence over an in-flight send | one approval, at most one upload; none under a fence |
| **Interaction broker** `core/broker.ts` | pending requests and their timers | register, settle, time out, abort all | a late answer, a failed card, teardown of the actor | each request settles exactly once, and some time |
| **Approval policy** `core/approval-policy.ts`, `audit-log.ts` | session and repository rules, the epoch of the last revocation, the rules' file | grant, revoke, decide; `/yolo`, `/approvals clear` | a click acknowledged after the revocation it knew nothing of, a revocation that cannot be written | a revoked grant approves nothing, nor does it come back |
| **Reconciliation engine** `core/reconciliation-engine.ts`, `reconcile.ts`, `binding.ts` | the attempt under way, runtimes held as barriers, the retry timer | startup pass, resume, access-retry loop | Discord unreachable, `/end` or a disabled channel in any await of a resume, an SDK session that was to be discarded and was not | one runtime per conversation; a record is resumed, parked or reaped exactly by its state, and no parked one is forgotten |
| **Inbound messages, turn queue** `src/app.ts` | per-thread queue, ownership of inbound messages | enqueue, drain | messages while a turn ends | each message runs once, in order |
| **Local repository leases** `src/app.ts` (`localLeases`) | who may use a repository in place, in memory only | take, move, restore, release, the startup pre-scan | a rebind hands a lease over across its awaits; a restart has only the records | one agent in a checkout, and one durable claimant of it |
| **Channel registry** `core/channel-registry.ts` | enabled channels on disk | enable, disable | failed writes; sessions that hold the channel | a disabled channel has no session and gains none |
| **Repository provisioning** `core/repo-provision.ts`, `repo.ts` | clones on disk | clone, list | cancelled clones | no half clone is listed |
| **Secure open** `core/secure-open.ts` | none between calls | open, verify | platform I/O | out of a model's reach |
| **Turn rendering** `core/turn-render.ts`, `render-chunks.ts` | a block's timeline of texts, tool calls and notices; its messages | delta, message, tool start and end, seal, reconcile the messages | output that arrives while a card seals the block, an anchor somebody deleted | what was rendered is shown, once, above the card that came after it |
| **Discord transport** `platforms/discord/discord-transport.ts` | epoch, anchors, flush timer, chain of writes | render, flush, reset, dispose, sendFile | a reset overtakes a write that Discord has accepted | one write at a time; a late one is taken back |
| **Updater and launcher** `scripts/update.mjs`, `run-bot.sh`, `stop-bot.sh`, `lib/run-core.mjs` | the recovery record, the update lock, who is stopped | apply, `--restore`, `--no-restart` | any step fails, the updater or the machine dies, units start bots by themselves | what was stopped is remembered until it is back; nothing runs from half-replaced files |
| **Setup and residency** `scripts/setup.mjs`, the units | enabled units, the built files | check, build, install a unit | a bot that starts in the middle of a build | see updater |
| **Copilot client** `copilot/sdk.ts` | — | wraps the external SDK | any answer at any time | nondeterminism in the models |
| **Names, texts, configuration; uninstall, release, smoke scripts** | none that is shared | format, parse, wire | none | left out |

How they interact. `src/index.ts` takes the lock, and the lifecycle coordinator
owns it from then on; startup, every exclusive operation of a thread (`/new`,
rebind, resume) and the registration of commands are scopes of it. `/end` and
the shutdown claim threads in it and join those scopes. The rebind coordinator,
`/end` and the shutdown share the session map, the store and the set of
incarnations that are not proved stopped; each of the latter is a retained
obligation of the lifecycle coordinator, which is how a wedged SDK session keeps
the lock. The store is what the next boot's reconciliation reads; what it resumes,
and what the access-retry loop resumes later, competes with `/end`, `/new` and the
channel registry for the same records. The leases of repositories are rebuilt from
those records, since they live in memory only. A session's actor reaches its thread
through the transport: its renderer's blocks, the cards of the broker between them
and its files share one writer per thread. The updater stands outside: it knows the
bot by its process, its readiness files and its unit.

`PROJECT.json` lists the same components with their status, and under
`hazards` every place where this goes wrong in a way a test would hardly reach.

## 2. The plan

Modules in their order; those marked ✓ are here.

1. ✓ `LifecycleOwnership` — who holds the process lock and when it goes; and
   `LockLease`, the abstract promise it implements. Everything else registers
   with it, so it comes first and is the first one proved about.
2. ✓ `SingleInstance` — the lock file, process deaths and readiness.
3. ✓ `SessionStore` — the store as operators on a value, without state of its
   own, so that other modules compose with it by `EXTENDS`; `SessionRecords`
   drives it with the flows of `src/app.ts`, crashes and reloads.
4. ✓ `RebindCoordinator` — rebind, `/end`, retries and shutdown over
   `SessionStore`: the heart of the system.
5. ✓ `FileDelivery` — the session actor's attachment gate, cards, approvals,
   fence and limits, and the transport's upload. (An abstract specification, in
   which an Allow is a permit consumed at most once, was planned and not written:
   `UploadAsApproved` says the same as an action property, and is proved.)
6. ✓ `SessionTurns` — turns, steers, stop and disconnect of the session actor, and
   the turn queue of `src/app.ts` that drives them.
7. ✓ `Approvals` — permissions and questions of one session through the broker, the
   rules and their revocation, `/yolo`, and the answers that race `/stop`.
8. ✓ `Reconciliation` — the startup pass, resumes and the access-retry loop against
   `/new`, `/end` and the channel registry, composed with `SessionStore`; and
   ✓ `LocalLeases` — the leases of repositories used in place.
9. ✓ `Update` — the updater with the units and launchers it drives.
10. ✓ `Timeline` — the renderer, the transport's writer and the cards between blocks.

Every one of these has theorems (section 7): each invariant, action property and
refinement that a run checks is proved, and what is left to TLC alone is liveness. No
module declares a `RECURSIVE` operator. At most eight modules hold theorems, so those of
`SingleInstance` and `Update` stand in `LifecycleOwnershipProofs` (the lock and the
processes under it) and those of `Timeline` in `SessionTurnsProofs` (the output of a turn).

Runs are few by design, one per question. A type invariant stands in every module
for its reader and is not checked again in each run; all are proved, alone or as parts of
the inductive invariant.

## 3. The modules

### `LifecycleOwnership`, `LockLease`, `LifecycleOwnershipProofs`

One action per method of `ThreadOwnership`, `TeardownClaim`,
`TeardownObligation` and `ShutdownOwnership`, and one per settlement of a
promise: a scope's body, an attempt, the armed teardown, the bounds of
`joinAll`, of the sweep and of `forget`. `obligations` is the code's map;
`entryKey` remembers under which key an entry was ever registered, `proved`
those whose cleanup really happened, so that a property can speak of a runtime
the map has already forgotten. `orphans` are entries retained after the release:
the code accepts them and cannot hold a lock that is gone. `RuntimeKeys`
exist from the start and may be registered under again and again; `LateKeys` are
those `shutdown` may still see appear. `evaluate` is an operator conjoined to
every action whose handler ends in it.

`LockLease` is the promise without the bookkeeping: work is taken and finished,
draining is itself work, and the lock goes in the very step that finishes the
last of it. `Lease` maps scopes, claims, obligations and the unfinished shutdown
to `owed`, and the run `lifecycle` checks `Lease!Spec`: early release and missed
release are both violations of it.

### `SingleInstance`

Every process is a program counter over single system calls:
`openSync(…, "wx")`, the write of the pid, the read of another's file,
`kill(pid, 0)`, `unlink`, and then the startup scopes, the publication of the
marker and status file, and the shutdown's clearing in its order. A mortal
process may die between any two. `Reused` processes start under the pid of a dead
one. `Failing` processes may fail to write or to remove a file, which the code reports
for a publication and swallows for the lock and at the end of a teardown.

What a shutdown clears depends on what was armed (`clearing`): a start that fails
before the wide arm of `app.ts:1063` has nothing, or only the SDK client, to put
down, and lets go of the lock with the status file as it found it. Nothing else can
begin a shutdown before that arm, as the signal handlers come after it.

Starts overlap as they like. The code reads a lock file and removes it in two steps, and so two
starters that judge one dead owner's file can end with two owners: a real finding
(section 6). Two ghosts tell these cases from the rest. A starter is `overtaken`
when somebody has removed the file since it read it; a process is `robbed` when its file has been
removed by an overtaken starter, or by a robbed one that lets go of the
lock. `MutualExclusion` is about the processes that were not robbed: deaths, torn files, reused pids, several starters and
releases in any order never make two of those. The specification is `LockSpec`
(`LockInit`, `LockNext`), because its proofs extend it together with `LifecycleOwnership`.

### `SessionStore`, `SessionRecords`, `SessionRecordsProofs`

A store is a record: the primaries, the rows of old incarnations, and the generation's
high-water mark. Each mutating method is an operator from a store to the store it
leaves; `Written` is whether its write succeeded. `mutate` is synchronous and writes the file
before it adopts the value, so that a death between the two is a death right after both: the
memory dies with the process. Several mutations in one synchronous stretch are one step,
and a death between them is that step with the later ones failed, followed by
`Crash`. That memory and file agree is therefore the shape of the model and no
property of it; what a restart makes of the file is (`Loaded`, `GenerationsAdvance`).
`clear` and the unconditional `restore` have no caller and are left out, as are schema
migration and quarantine of a corrupt file.

`SessionRecords` drives it from two threads with the flows of `src/app.ts` and
the coordinator: `/new` (generation first, reservation later), rebind with its
companion rows, rollback and commit, `/end`, attachments and releases of late
actors, a crash that keeps the file and loses the memory, and the boot
classification of `reconcile.ts`. Two ghosts outlive the records and the process: `used`,
the incarnations ever reserved, and `delivered`, the attachment bytes that left.

### `RebindCoordinator`, `RebindCoordinatorProofs`

The thread, its store, its incarnations, its worktrees. A synchronous stretch of
code between two awaits is one action however many store writes it makes, and
every outcome of an awaited call is a step: `tx.phase` names the await the
transaction is in (`checking`, `opening`, `capturing`, `unreserved`, `creating`,
`uncommitted`, `retiring`, `abandoning`, `joining`, `undoing`). `end` and `stop` are
the same for `/end` and the shutdown, `disc` for the teardown of an actor. A
teardown never has to be confirmed; it may be retried, joined by `/end`, by
the transaction or by the shutdown, and an incarnation it could not confirm stays
in `tracked` with its `fallback` plan and its obligation in `owed`. A worktree's
path is a function of binding and thread, so two incarnations of one binding
share it. `Events` selects what may meet a rebind, `WritesFail` whether a store
write may fail at any of them.

Left out: the local lease (`LocalLeases`), the byte quota (`SessionRecords`), the
confirmation card and texts, and crashes (a crash of the process is `SessionRecords`' subject: what
the file holds at any moment is what the store operators say).

### `FileDelivery`, `FileDeliveryProofs`

One session actor. A permission request (`req`) validates the file, registers a
card and waits for its answer; the card is presented by a detached call of its own
(`card`), and a delivery (`send`) goes through the chain, the second reading of the
file, the flush, the quota and Discord's `send`. Each await is a step of its own,
and every check after it is repeated there as the code repeats it. `epoch`,
`owner`, `nonce`, `suspended` and `fence` are the actor's fields;
`clearFileDeliveryApprovals` is the operator conjoined to every boundary. Both
`disconnect` and a fault are `Teardown`: what they do to files is the same. A file is
its version, of size 1, and eligible or not by choice.

The ghosts give an Allow a number: `shown` what its card said, `stale` those
a boundary has overtaken, `uploads` what was sent on its account, `visible` what is
in the thread by now, `told` what the agent heard. Discord may accept
what was cancelled, refuse, or lose its answer with the attachment there or not;
`Refused` stands for the errors `classifySendFileError` takes for proof that it is not.

### `SessionTurns`, `SessionTurnsProofs`

One session of the app and its actor. `pc` says in which await each prompt is:
`preparing` (attachments are downloaded), `sending` (`session.send`), `ending`
(`awaitTurnEnd`), `flushing` (the `finally` of the app's `runTurn`), `card` and
`steering` for a steer; `queued` is the session's queue. What runs between two
awaits is one step: the guard of `drainQueue` and the claim of the turn, the check of
the abort signal and the send. `/stop`, `/end`, `/queue clear`, the watchdog, its
hard limit and a shutdown are actions that may fall anywhere between them, and
`timer` is the watchdog with the deadline behind it. A `/stop` or `/end` acts
after the await of its deferred reply, and so also in a process that has begun to
shut down since.

The runtime is external: prompts are read in order (`wire`), those it has make one
busy period (`busy`), and its end is told by one idle event (`idles`), possibly
late, possibly never; `abort` only asks it to hurry. The ghosts remember what
reached it and as what (`turns`, `steers`), what was `stopped` before it did, and the
two things the properties set apart: `strays`, steers that missed the turn they were
for, and `left`, prompts whose `/queue` could not reply (section 6).

### `Reconciliation`, `ReconciliationProofs`

The records of a few threads under one channel, each with a worktree binding, and
everything that acts on a record without a rebind. `attempt` is the one exclusive
scope the startup pass or a tick of the retry loop has open, with the await it is
in (`stage`): the thread's access, git, the discard of a runtime left as a barrier,
`createSession`, the disconnect of one that came too late. `ends` holds the `/end`
commands under way, `new` a `/new`; `barrier` the runtimes whose discard nobody could
confirm and which the process remembers; `retry` the timer of the loop. `Lost` is
`resumeOwnershipLost`'s first half and is read again after every await, as the code
does; `Terminal`, `Consider` and `Classified` are the decisions over a record. A crash
keeps `store` and `tree` and loses the rest. A fatal error at startup is the phase
`stopping` followed by `Exit`. `opened` are the threads that exist in Discord: `/new` always makes a new one.

Abstracted: back-off and idle delays are "the timer fires"; enabling a channel is
one step, and a write of the registry that fails changes nothing; the cap on live
sessions is not reached; the second key of a superseded runtime is not kept.

### `LocalLeases`, `LocalLeasesProofs`

`lease` is the code's map; what a rebind, `/end` and the startup pre-scan do to it is
written as functions of the map (`Acquired`, `Released`, `RestoredFor`,
`ReleasedRetired`), so that a step that releases and takes again is one step. The
rest of a rebind is `RebindCoordinator`'s: here it has three stages, and each of
its outcomes leaves what it leaves of records, sessions and leases. `Reconciled`
takes a thread from the pre-scan's list: resumed, kept for later, or blocked.
`LocalMoves` lets a rebind go from one repository in place to another, which
releases the first before the second is sure (section 6). A second `/end` in the
middle of a rebind is excluded here; it is `RebindCoordinator`'s `reend`.

### `Approvals`, `ApprovalsProofs`

One session's permissions and questions (a plan is answered as a question is). A
request is `posting` its card, `waiting`, and idle again once its handler has resumed;
`result` is the settlement of the broker's promise, which only the first of click,
typed answer, timeout, failed card, `/stop` and shutdown makes. A click is validated
when it is made and acts when Discord has acknowledged it, with the epoch it saw.
`session` and `repo` are the rules in memory with the number of revocations they were
granted after, `file` the rules on disk, `promised` the revocation the operator was
told is durable. Two `/yolo` may be acknowledged in either order; `asked` is the last
one typed.

Permissions are for simple commands of one executable. `Init` chooses whether the
operator has used up his revocations or his toggles: rules and guard are separate
state that only the permission handler reads together, and this bound keeps the two
from multiplying. The confirmation card of a rebind, its
`clearSession` and elicitations are left out.

### `Update` (proofs in `LifecycleOwnershipProofs`)

The updater of one checkout with two bots that run from its files. A bot is a
process (`proc`), its readiness marker and its unit (enabled, and active at present);
the ghost `torn` has the bots that were stopped for a move of the files, until a
setup has succeeded. An
updater is a program counter through its steps with its plan (`up[u].plan`): the
snapshot of what ran, the lock, the recovery record, stop and disable, verify, move
the files, setup's own check, the build, and then the restore, instance by
instance, which is also the command `--restore`. `saved` is the record on disk, `locked`
the updater's own lock file, which one that dies leaves behind. Any
step may fail, the updater may die or the machine reboot between any two, a bot may
fall at any time and a unit starts it again. `owed` is the ghost: what each bot was
before an update stopped it, until it is put back or `--no-restart` gives it up.

It is the Linux flavour, with systemd user units. One invocation runs at a time
(`Updaters`), nobody starts or stops a bot by hand beside an update (`Unattended`),
the source always has a newer revision, and a bot holds its lock from the start of
its process. An unreachable systemd (`stop || true`), reuse of a pid, private
references, `--check` and `--dry-run` are left out.

### `Timeline` (proofs in `SessionTurnsProofs`)

How one session's output reaches its thread. `items` is the renderer's timeline and
`born` the epoch it belongs to; an item is its kind, its call or block, and its
length, which is all that is left of its text: only an answer may outgrow a message.
`Chunks` is the packing of `timeline-chunk.ts` as a fold over the items. `epoch`,
`msgIds`, `armed` (the debounce timer) and `chain` are the transport's; `write` is the write under way, one
call to Discord at a time, with the state it took when it began. A card seals the
block: it waits for a flush, posts, and starts the next epoch, while events go on.
`exists` turns FALSE with Dispose, and events stop with it. Discord may refuse a call
(`faults`; `blip` has the blocks whose last write it failed), an anchor may have been deleted, and a write that a reset
overtook is deleted again (`late`), unless Discord refuses that too (`stray`).

A waiter resumes in the step in which its flush ends, as microtasks do; a stale
flush in the queue just returns. Layout (markdown, fences, tables), direct notices
outside turns, steers, which have no card, and blank open texts are left out. So are events of
the SDK outside a turn, which the renderer shows as soon as they come (`session-actor.ts:640`):
only the busy period of a stray steer has any, and they would do what a todo refresh does (section 6). The
residuals `render-chunks.ts` accepts in its header are set apart by `blip` and `stray`.

## 4. The runs

| Run | Bounds | What it shows |
|---|---|---|
| `lifecycle` | 1 thread, 2 scopes, 2 claims, 1 runtime key and 1 late key with 2 entries, the gate, 1 teardown; fair | `ReleaseSafe`, `JoinedAlone`, `UnprovenObligationStays`, that the shutdown always answers (`ShutdownAnswers`), and the refinement of `LockLease` (`LeaseSpec`). 143,000 states |
| `single_instance` | 3 processes, all mortal, one with a reused pid, one whose writes and removals may fail | `MutualExclusion`, `NoClaimAfterRelease`. 1,276,000 states |
| `session_records` | 2 threads, 3 session ids, budget 2, 2 crashes, failing writes | `BudgetCovered`, `GenerationsAdvance`, `CommittedStays`. 45,000 states |
| `rebind` | 3 ids, 3 bindings of which 2 are worktrees, `/end` or a shutdown | `RuntimeGatesLock`, `EndStands`, `RebindSettles`, `ConversationSurvivesStop`, `TreeNotPulled`. 346,000 states |
| `rebind_disk` | 2 ids, 2 bindings, failing writes, `/end`; fair | `RuntimeRecorded`, and that a rebind and `/end` always answer (`CommandsAnswer`). 211,000 states |
| `file_delivery` | 2 requests, 1 tool call id, 2 deliveries, 2 Allows, 1 edit of the file, 2 boundaries, 2 fences, 1 crash; 1 upload a turn, quota 2 | `UploadAsApproved`, `QuotaCovers`, `ReportTruthful`, `FenceHolds`. 1,368,000 states |
| `session_turns` | 3 prompts, a queue of 2, 1 `/stop`; fair | `TurnsAreWatched`, `StopQuiets`, `QueueServed`, and that a turn always ends (`TurnEnds`). 1,025,000 states |
| `reconciliation` | 2 threads, 1 of them with a record, 1 session id, 2 `/end` commands, 1 crash, failing writes; fair | `OneRuntime`, `EndStands`, `DisabledChannelEmpty`, and that no parked record is forgotten (`ParkedIsRetried`). 549,000 states |
| `local_leases` | 2 threads, 2 repositories and worktrees, 3 rebinds, 1 crash | `LocalAlone`. 55,000 states |
| `approvals` | 1 permission, 2 questions, 1 click, 2 `/yolo`, 2 revocations, 1 restart; fair | `RevocationStands`, `YoloAsAsked`, `FirstAnswerStands`, and that every prompt is answered (`RequestsAnswered`). 459,000 states |
| `update` | 2 instances, 1 updater, 3 updates or restores, 1 death or reboot | `DowntimeIsRemembered`, `NoBotOnTornFiles`, `PutBackAsFound`. 4,462,000 states |
| `timeline` | 1 tool, 1 card, messages of 2, texts up to 3, 2 turns, 2 events, 1 failure | `BlocksKeepApart`, `ToolsAreNamed`, `OutputAppears`. 7,912,000 states |

Why the bounds are enough. *lifecycle*: threads meet only through
the obligations and the shutdown, which one thread already exercises; two claims
are what it takes for one to finish under the other, two scopes for one to start
while the other is joined, two entries under one key for a second runtime under a
retained key. *single_instance*: an owner that dies, the starter that reclaims
from it and a third that overtakes it or meets either; the pid of the dead owner comes
back with the last. *session_records*: a predecessor, its replacement and one
more in the other thread; the second crash meets what the first recovered. *rebind*:
three ids are two rebinds in a row, so that the second one meets the unconfirmed
remains of the first; `/end` and the shutdown do not meet in one behaviour;
`a`, `b` worktrees and `c` a plain checkout give each
direction of a change. With `WritesFail` two ids are one rebind with a
failure at any of its writes; a second rebind on top would multiply the same
states. Symmetry is used only in runs without liveness properties; session
ids and bindings in `Trees` are interchangeable because nothing orders them.
*file_delivery*: two requests contend for the gate, and the second may hold it
while the handler of the first is still running; two deliveries of one tool call id
are the host's duplicate; two fences let an early rollback meet a late rebind; a
crash counts as a boundary, and of two boundaries the second meets an upload that
survived the first; a quota of two files is reached by two Allows.

*session_turns*: three prompts are a turn, its steer and a queued one, or two callers
that drain and the turn that finishes, or a full queue of two and one too many;
`/end`, the watchdog and the shutdown are not bounded.

*reconciliation*: one thread with a record is what the startup pass and the loop
act on, the other is what `/new` creates, and threads meet only in the loop's order;
two `/end` let the second claim what the first is still closing; one crash is met by
a second startup pass over what the first process left. *local_leases*: two threads
contend for either of two repositories; a third rebind goes back to what the first
one left; the restart pre-scans what the crash left behind. *approvals*: a second
question is what lets a typed answer choose; a revocation may come before and after
a click; two `/yolo` are what it takes to be acknowledged out of order. *update*: the
second failed update may be for the other instance and the third invocation restores
both; one updater, as section 6 says why. *timeline*: a text of 3 in messages of 2 is
one that grows over an edge, and 2 events are an item before a card and one after
it; the second turn meets what the first left in the thread. It was also run with
two cards in one turn, and with three events, without a difference.

`CHECK_DEADLOCK FALSE` in every run: the program may stop (shut down, everything
ended, or ids exhausted).

## 5. Fairness

Only `lifecycle`, `rebind_disk`, `session_turns`, `reconciliation` and `approvals`
check liveness; the other runs assume nothing. `timeline` says that output appears as
safety of the states in which no write is planned or under way.

`LifecycleOwnership!FairSpec` assumes only that timers fire and that code between
two awaits runs: the bounds of `joinAll` and of each attempt, the sweep's own
attempts, the start of the armed teardown and the answer. It does not assume
that a scope's body, an attempt or a teardown ever ends; `ShutdownAnswers` holds all the
same, which is its point.

`RebindCoordinator!FairSpec` assumes that what has started goes on: every await of the
transaction, of `/end` and of the shutdown is on a call with a timeout or on
git's own exit, so each of them has weak fairness, and so has each teardown. A
waiter on a teardown is resumed by its end even when another teardown of the same
actor begins in the same turn of the microtask queue (a promise that has resolved
stays resolved), so the joins have strong fairness. Commands are never fair:
nobody has to type one.

`SessionTurns!FairSpec` assumes that the timers fire, that a turn goes on when the
await it is in is over (downloads have a timeout, flushes end), and that the runtime
reads what it is sent. It does not assume that the runtime ever goes idle, that an
abort has any effect or that a disconnect is answered; `TurnEnds` holds by the
watchdog alone.

`Reconciliation!FairSpec` assumes that the retry timer fires and that what the pass
awaits ends: a request with a timeout, git, an SDK call with a bound. Every thread has
its turn, since a tick goes through the records in order. `/end`, `/new`, crashes and
the channel's commands are never fair.

`Approvals!FairSpec` assumes that the broker's timer fires, that Discord answers a post
or fails it, and that a settled promise resumes its handler. Nobody has to click.

## 6. Where the code and what it says disagree

The passing runs exclude these by a named constant or a named exception of the
property; giving the constant its other value, or taking the exception out, makes TLC
print the behaviour. `PROJECT.json` quotes both sides under `findings`.

- `SingleInstance`, `MutualExclusion` without the exception `robbed`: two starters that both
  found the dead owner's file; the slower removes the faster one's fresh lock, and both
  go on (`single-instance.ts:61`).
- The same, `NoClaimAfterRelease` without the exception for a teardown that was not
  armed: a start that fails early under the pid of a process that was killed while it served lets go of the lock, and
  the old status file names it (`app.ts:1063`). A removal that fails leaves the
  file too, and the teardown swallows it (`app.ts:4241`; the exception `Failing`).
- `SessionRecords`, `GenerationsAdvance` without `old.thread = new.thread`: `/new` draws
  its generation before its worktree exists and reserves it seconds later, so that
  a rebind of another thread may take the same one (`app.ts:1618`), against the comment on
  `nextGeneration` (`session-store.ts:217`). Harmless, as no CAS compares across threads.
- `RebindCoordinator`, `"overtake"` in `Events`, `EndStands`: which of `/end` and a
  shutdown a rebind blames is decided when it looks, not by which came first; the
  ended conversation may be restored (`rebind-coordinator.ts:948`).
- The same, `"reend"`, `RuntimeRecorded`: a second `/end` reaps the reservation of a
  rebind that is still creating its session (`app.ts:2311`).
- The same, `"revisit"`, `TreeNotPulled`: a worktree left by an unconfirmed incarnation
  is taken for one the transaction created, and removed with it
  (`rebind-coordinator.ts:1007`).
- `LocalLeases`, `LocalMoves = TRUE`, `RestoredAlone`: a rebind that releases one
  repository for another and fails takes the first one back without looking whether
  somebody else has it by now (`rebind-coordinator.ts:1043`).
- `Update`, `Updaters = {u1, u2}`, `DowntimeIsRemembered`, twice: an update that passed
  its check before another wrote its record overwrites it, as the lock is taken later
  (`update.mjs:905`); `--restore`, which takes no lock, removes the record of an update
  that has not stopped its bots yet (`update.mjs:749`).
- `Update`, `Pauses = TRUE`, `NoBotOnTornFiles`: a resident bot in its unit's restart
  pause is no live process, and starts in the middle of the build (`update.mjs:452`).
- `Update`, `PutBackAsFound` without its clause for a stopping bot: a process on its way
  out still has its marker and counts as ready (`update.mjs:697`).
- `Reconciliation`, `LeftoversAnnounced`: a parked record whose worktree `/end` could
  not remove is neither announced nor retried (`app.ts:2193`).
- `Timeline`, `EarlyTodos = TRUE`, `BlocksKeepApart`: a todo refresh between the reset of
  a turn and its own renderer repeats the previous turn's text below it
  (`app.ts:4027`).
- `Timeline`, `OutputAppears` without the exception `late`: what arrives while a card
  waits for its flush is in a renderer that is dropped (`session-actor.ts:829`).
- `Timeline`, two cards and `ToolsAreNamed` without the exception `beyond`: a call that
  outlives a second card loses its name (`turn-render.ts:151`).

Seen in the same models: a failing reservation write together with a `/end` that has
already finished leaves the active primary behind (`rebind-coordinator.ts:1189`;
`EndStands` with `WritesFail`); `removeIfCurrent` failing in an abandoned rebind leaves
a `creating` row a later `/end` reaps with its worktree although the runtime is still
tracked (`app.ts:2336`; `TreeNotPulled` with `WritesFail`); a shutdown in the middle of
a rebind whose terminal row cannot be written leaves the thread without a record, as
the plan to restore it is refused while the process stops (`rebind-coordinator.ts:715`,
against the comment at 1525; `ConversationSurvivesStop` with `WritesFail`); a steer
looks at `aborting` before it awaits its card and not after, so that one which
`/stop`, the watchdog or a teardown overtakes there is still sent, into a session that
may be idle (`session-actor.ts:1547`, against the comment at 1537; `strays`); a
`/queue` on an idle session whose reply fails leaves its prompt waiting for another
turn (`app.ts:3787`; `left`); a `session.send` that never answers is under no watchdog,
which starts after it (`session-actor.ts:1604`); a status file may outlive a
shutdown that overtook its publication when the publication then fails, or when its retraction
does (`bootstrap.ts:72`, `75`); a reused pid makes an old
status file name a process that is not ready yet (`startup-ready.ts:113`). The passing runs exclude exactly these: `rebind_disk`
leaves out the first two properties, `rebind` write failures, `NoClaimAfterRelease` the
failing writers, `TurnsAreWatched` a session with a stray and `QueueServed` the prompts
that were left.

## 7. What is proved

Every theorem is about all values of the constants, under the assumptions the
module names on them: sets may be infinite unless a count is taken of them
(`Claims` and `Cards` must be finite), bounds are naturals, `None` and the other marks are none of the
values they are told apart from. The bounds of the runs are therefore no bounds of the theorems.
Each property is proved by an inductive invariant, checked by TLC on the module's run
before it was proved; the property itself is never inductive, and what was missing is
said here, because that is what a change of the code must not break.

`LifecycleOwnershipProofs`:

- `TypeCorrect`: `Spec => []TypeOK`.
- `ClaimsAreCounted`: a thread's count of teardown claims is the number of live
  claims on it. `Typed == TypeOK /\ ClaimCounted` is inductive; neither half is
  without the other (the count stays a natural number because it counts), with
  two lemmas on the cardinality of `ClaimsOn` when a claim is added or finished.
- `ObligationsStay`: the action property that no step drops or replaces an
  obligation unless its runtime has been proved stopped.
- `ReleaseIsSafe`: once the lock is gone, no scope, claim or teardown
  runs and every cleanup that was registered in time has happened. `ReleaseSafe` is
  not inductive: that nothing is owed now says nothing of entries that left the map
  earlier. `Retention` adds that an entry is in the map or proved, and that a
  running teardown holds the gate; `Concluded` adds how the shutdown's stages
  relate. `ReleaseInv == Typed /\ Retention /\ Concluded` is inductive.
- `JoinedIsAlone`: a teardown whose join succeeded runs alone. `Joined` adds that a
  claim past `idle` has a thread; the count proved above is what keeps new
  exclusive work out, and so `Typed` is a conjunct of the induction.
- `ImplementsLease`: `Spec => LeaseSpec`, the refinement of `LockLease` under the mapping
  `Lease`. Each step is a taking, a finishing or a stutter of the abstract
  lease; where a handler retains and settles at once (an orphan, a cancelled
  teardown) the lemmas `LeaseTakes` and `LeaseFinishes` say which of the two remains to be seen. It
  shows both halves of the promise: not let go too early, and not kept by a step that
  finishes the last of the work.

Of `SingleInstance`, in the same module, since the release of that lock is what the
coordinator decides, without hypotheses: `LockTypeCorrect`, `OneInstance` (`MutualExclusion`)
and `NothingClaimed` (`NoClaimAfterRelease`). `Alone` ties every step of an acquisition
to what it has read: the file of an owner that was not robbed is in its place, and a
starter that was not overtaken judges and removes what is there. `Cleared` ties the marker and the status
file to the stage of the publication and of the teardown that is armed, because a
teardown may overtake the publication at each.

Of `Update`, there too, for any number of instances, invocations, deaths and reboots:
`UpdateTypeCorrect`, without hypothesis, and with one updater at a time (`OneUpdater`; two
are findings of section 6)

- `DowntimeRemembered` (`DowntimeIsRemembered`) and `FilesAreWhole` (`NoBotOnTornFiles`, also
  under `Pauses = FALSE`). What an updater does from its plan is right because the plan is
  on disk (`Known`): one that updates found no record and wrote its own, one that restores
  read what is there. `Down` says what each stage may rely on: whoever is no target ran
  nothing when the update began, a target is stopped for good (process, unit and
  residency) before the files move. `TornStaysDown` carries that over the death of the
  updater, until a setup or a start by hand.
- `AllPutBack` (`PutBackAsFound`). What restoring has dealt with is as it was or has a unit
  at it (`Back`), and nobody takes that back while it goes on; a marker of its own says that the
  process got ready (`MarkerIsReady`), which is why the check of readiness may trust it.

`SessionRecordsProofs`:

- one lemma for each mutating operation of `SessionStore` (`SetStateIs`, `RemoveIs`,
  `ReserveBytesIs`, `RemoveStaleIs`, `RetainStaleIs`, `LoadedIs`): what it does to a
  sound store, that it leaves other threads and other incarnations alone, and that
  the generation's high-water mark still covers all it names;
- `InvHolds`: the store is sound, the file is the memory, and every plan under way has its reservation
  in the store or nothing durable yet;
- `GenerationsOnlyAdvance` (the action property `GenerationsAdvance`). `Numbered`
  says that the mark is never below a generation that was used, and that a thread whose
  `/new` has not reserved yet has used none, which is why what `/new` drew seconds ago is still new; the
  mark only rises (`MarksRise`), whatever record goes or comes back and whatever a restart reads;
- `BudgetsAreKept` (`BudgetCovered`) and the action
  property `CommitsStay` (`CommittedStays`). All hold whether or not writes fail; the last two need
  `Planned`: the record a rollback puts back is older than a committed one only if
  somebody else may replace the reservation, which nobody does.

`FileDeliveryProofs`: `TypeCorrect`, `UploadsAsApproved`, `QuotaIsKept`, `ToldTheTruth`, `FenceStands`, and
`InvHolds` for the invariant under them. It follows an Allow from hand to
hand. It is the settled answer of one request, then the approval of one call, then
what one delivery has consumed (`Answered`, `Approved`, `Sending`), never two of
these, and never an overtaken one under the epoch of now; `Chained` says that one delivery at
a time has come to its turn, which makes the check and the reservation of the
quota one (`Counted`), although they are two awaits apart.

`SessionTurnsProofs`: `StopsQuiet`, `TurnsWatched` and the action property `QueuesServed`, from
`Inv`: one turn at a time; a prompt's place tells whether it waits, is on the
wire or was never sent; a stopped prompt has no way to the runtime left
(`Quiet`); and an account of the runtime's busy periods (`Watched`), valid as long as no steer
came too late. `TypeCorrect`, for finitely many
prompts, bounds the idle events on their way by the prompts that were written: each busy
period takes at least one (`Accounted`).

Of `Timeline`, in the same module, for any number of turns, events, cards, calls in parallel
and failures:

- lemmas on the operators. `ChunksFold` says that the packing of a timeline and one more
  item is that of the timeline and a step; `ChunksIs`, that what holds of no messages and
  is kept by each step holds of the packing. Both come down to a least counterexample
  (`LeastIs`): an induction, for one formula at a time.
- `TimelineTypeCorrect`. The epochs are finite in number because each is a turn's or a
  card's (`Counted`), and a card seals once: that a flush under way or in line is the only
  one for its card (`Lined`) needs the whole order of the line. `Bounded` says where a
  write may stand relative to the anchors, without which the anchors would be no sequence.
- `ToolsKeepTheirNames` (`ToolsAreNamed`), without hypothesis, for the calls that the property does
  not set apart (`beyond`). `Tooled` relates what became
  of a call to the three places that may know its name: the timeline, what was carried into
  the block, and the snapshot of a card that still waits.
- `BlocksStayApart` (`BlocksKeepApart`) under `EarlyTodos = FALSE`. `Owned` says whose the
  timeline is: what the transport holds was made in this block, by a renderer of this
  block. `Anchored` says it of the messages: the anchors of a block are its own, no two the
  same, and a write has the text of one block; a message is late only where the block is over.
- `FinalStateIsFlushed` (`OutputAppears`) under the same hypothesis. `Showing` has the
  progress of the write: it has what was rendered unless something came since, each message
  before the one it is at is as it shall be (`WrittenTo`), and every message of the block
  that can be seen is at an anchor (`Tended`), so that no anchor is given up while its
  message stands; an anchor that was lost is replaced by the one that is posted for it.
  Without a write the block is on show.

What came of the attempt: `Showing` was run with TLC at two failures before it was proved,
and failed. The ghost `blip` held one epoch then, and a failure in the next block made the
model forget that Discord had failed the one before. It is a set of epochs now; the
property had been right for the run's one failure and would have been false for two.

`ApprovalsProofs`: `TypeCorrect`, `RevocationsStand`, `YoloIsAsAsked` and the action property
`FirstAnswersStand`. A revocation and a toggle leave a mark on whatever is under way when they come
(the epoch of a click, `superseded`); the invariants relate those marks to the rules.

`LocalLeasesProofs`: `LeasesKeepApart` (`LocalAlone`) under the hypothesis `LocalMoves = FALSE`,
that no rebind goes straight from one local repository to another (section 6 has what happens
otherwise). That a session or a durable claim has its lease is inductive only
with what a rebind and an `/end` under way may assume of each other (`Reserved`, `Ending`), and
with the startup pass that has not considered every record yet (`Starting`).

`RebindCoordinatorProofs`, over lemmas on what each operation of the store does to the
slot and the rows of one thread (`RetainGood`, `RestoreGood`, `RollBackIs`, `ReclaimIs`,
...), with five invariants, each resting on those before it:

- `BaseHolds`: every id, record, row and plan that a transaction, `/end` or the shutdown
  remembers names an incarnation there has been. The compare-and-set operations compare id
  and generation; this is why they never hit another incarnation of the thread.
- `NobodysRuntime` (`RuntimeGatesLock`). `Gated` adds, for every phase of a rebind and of
  `/end`, what it knows of the runtimes in its hands: whose obligation is still to come is
  either on the way to the live session or held by the transaction. No hypothesis: it
  holds whatever fails to be written and whoever overtakes whom.
- `NoRuntimeUnnamed` (`RuntimeRecorded`), whichever write fails, under
  `"reend" \notin Events`. `Account` says where each runtime's row is: the slot, its own
  row, or a plan that puts it back. It also says which writes may still take a row away,
  and that those in whose hands they are know the runtime to be stopped.
- `RebindsSettle` (`RebindSettles`), `ConversationSurvives` (`ConversationSurvivesStop`) and
  `EndedStaysEnded` (`EndStands`) under `WritesFail = FALSE`, the last one also under
  `"overtake" \notin Events`. `Calm` relates the slot to who has the thread: a reservation
  is always some rebind's that is on its way or giving way, the fence lasts as long as its
  rebind, and what a rebind lost it lost to whoever claimed the thread first.
- `WorktreesStay` (`TreeNotPulled`) under `WritesFail = FALSE` and `Events` without `"reend"`
  and `"revisit"`. `Apart` adds that no two incarnations share a binding, so that a
  worktree goes only with its own incarnation, which whoever removes it has seen stopped.
- `TypeCorrect`. A thread's rows are keyed by incarnation (`Filed`); without that the byte
  total of a row written again would be the maximum of a set nobody bounds.

`ReconciliationProofs`: `TypeCorrect`, `RuntimesAreOne` (`OneRuntime`), `EndsStand`
(`EndStands`) and `DisabledStaysEmpty` (`DisabledChannelEmpty`), without hypotheses: whichever
write fails, however often the process dies, for any number of `/end`. Nothing locks the
thread; what keeps the four apart is what each has seen of the others before its
await and what they ask after it. `Inv` says so for one thread at a time (`Own`): while a
record is attempted it stays as the attempt found it (`Attempted`), because an `/end` past
its join meets no attempt and one that reclaims meets no `/new`, session or obligation
(`Closed`), and `/new` has a record that no attempt wants (`Made`). The lemma `StepOfOne`
then makes every step a question about one thread; `Answered`, `EndStep` and `NewStep` are the
forms that the steps of the three actors have.

Each of the hypotheses is one of section 6: without it TLC finds the property violated, by
what the code does. Only `RebindSettles` needs `WritesFail = FALSE` for a plainer reason: a
rollback that cannot be written leaves its reservation in the slot, and the next boot
classifies it as interrupted.

Only model-checked is liveness (`ShutdownAnswers`, `CommandsAnswer`, `TurnEnds`,
`ParkedIsRetried`, `RequestsAnswered`), which is out of the prover's reach and stays with
TLC, on the instances and under the fairness of sections 4 and 5. An induction over data
cannot be had as a theorem for every property; where a proof needs one (the packing, the
quantities that are counted) it is made for the formula at hand, from the least
counterexample or from the cardinality of a set. What `Chunks` is for every timeline
is not stated otherwise than by its definition: the theorems say that the thread shows
`Chunks` of what was rendered, not that `Chunks` is what a reader would want.

## 8. Not modelled

`PROJECT.json` has the status of every part. What is left out of a module is said
with it in section 3; beyond that:

- Repository provisioning clones into a directory of its own and removes it on
  failure; it meets none of the state modelled here.
- Secure open is handles and path comparison of an operating system, without state
  between calls; names, texts, layout, configuration and the entry point are
  formatting, parsing and wiring.
- The Copilot client wraps an external SDK: in every model it may refuse, answer
  late or never, and its answers are choices.
- Uninstall, release and smoke scripts run once and share nothing with a running bot
  but its stop, which `Update` has.
- Of the store, schema migration and the quarantine of a corrupt file; of `src/app.ts`,
  the cap on live sessions, authorization, the choice of repository and branch and the
  operator's own `/file`; of the session actor, its settings and the fence that
  `init` puts on its root after `createSession` (a bounded disconnect whose runtime
  nobody owes, `session-actor.ts:474`).
- The modules are composed where they share state that the properties relate:
  `RebindCoordinator`, `SessionRecords` and `Reconciliation` over `SessionStore`. A
  rebind beside a resume of the same thread is not composed, since one needs a live
  session and the other that there is none.
