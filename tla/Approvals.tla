------------------------------- MODULE Approvals -------------------------------
(***************************************************************************)
(* What the agent of one session asks the operator, and how he answers:    *)
(* the permission and question handlers of src/copilot/session-actor.ts,   *)
(* the pending-interaction broker (src/core/broker.ts), the approval rules *)
(* and the audit log (approval-policy.ts, audit-log.ts), and the buttons   *)
(* and commands of src/app.ts: `/yolo`, `/approvals clear`, `/stop`.       *)
(*                                                                         *)
(* Every answer and every widening of trust waits for Discord first, so    *)
(* each may be overtaken by a revocation, a stop, a timeout or a shutdown. *)
(* All requests are simple commands of one executable or questions.        *)
(***************************************************************************)
EXTENDS Naturals, FiniteSets

CONSTANTS
    Permissions, Questions,  \* what the agent may have asked at once
    Clicks,     \* button interactions that may be on their way at once
    Toggles,    \* `/yolo` commands
    None,
    MaxClears, MaxCrashes    \* bounds

ASSUME ApprovalsAssumption ==
    /\ Permissions \cap Questions = {} /\ None \notin Permissions \cup Questions
    /\ MaxClears \in Nat /\ MaxCrashes \in Nat

VARIABLES
    pc,         \* the handler of each request
    result,     \* what its promise was settled with, until the handler resumes
    freeform,   \* freeformAskNonce
    aborting,   \* a /stop, until the runtime is idle or the next turn
    click,      \* buttons that wait for their acknowledgement
    session,    \* the session's rule, as the epoch of the click it stands for
    repo,       \* the repository's rule in memory, the same
    file,       \* ... and in approvals.json
    yolo,
    toggle,     \* `/yolo on` commands that wait for their acknowledgement
    stopping,   \* the process is shutting down
    clears,     \* revocationEpoch, one for every `/approvals clear`
    revoked,    \* ghost: clears this process knows to be in force
    promised,   \* ghost: clears the operator was told are durable
    asked,      \* ghost: the last `/yolo` typed
    crashes

requests == <<pc, result, freeform>>
rules == <<session, repo, file, clears, revoked, promised>>
blanket == <<yolo, toggle, asked>>
vars == <<requests, aborting, click, rules, blanket, stopping, crashes>>

Requests == Permissions \cup Questions
Granted == {None} \cup (0 .. MaxClears)
Decisions == {"once", "session", "always", "deny"}
Results == {"allow", "deny"}

TypeOK ==
    /\ pc \in [Requests -> {"idle", "posting", "waiting"}]
    /\ result \in [Requests -> Results \cup {None}]
    /\ freeform \in Questions \cup {None}
    /\ aborting \in BOOLEAN
    /\ click \in [Clicks -> [req : Requests \cup {None}, decision : Decisions, epoch : 0 .. MaxClears] \cup {None}]
    /\ session \in Granted /\ repo \in Granted /\ file \in Granted
    /\ clears \in 0 .. MaxClears /\ revoked \in 0 .. clears /\ promised \in 0 .. revoked
    /\ yolo \in BOOLEAN /\ toggle \in [Toggles -> {"unused", "acking", "superseded", "used"}]
    /\ stopping \in BOOLEAN
    /\ asked \in {"off", "on"} /\ crashes \in 0 .. MaxCrashes

\* Bound: the operator has used up either his clears or his toggles.
Init ==
    /\ pc = [r \in Requests |-> "idle"] /\ result = [r \in Requests |-> None]
    /\ freeform = None /\ aborting = FALSE
    /\ click = [c \in Clicks |-> None]
    /\ session = None /\ repo = None /\ file = None
    /\ clears \in {0, MaxClears} /\ revoked = clears /\ promised = clears
    /\ yolo = FALSE /\ asked = "off"
    /\ toggle = [y \in Toggles |-> IF clears = MaxClears THEN "unused" ELSE "used"]
    /\ stopping = FALSE /\ crashes = 0

-----------------------------------------------------------------------------
(* The broker: a request is settled once, by whoever comes first.           *)

Pending(r) == pc[r] \in {"posting", "waiting"} /\ result[r] = None

\* Mutant of Settled: the last to come decides.
SettledAgain(r, value) == [result EXCEPT ![r] = value]

Settled(r, value) == IF Pending(r) THEN [result EXCEPT ![r] = value] ELSE result

\* abortSession: every pending request gets its safe default.
AllDenied == [r \in Requests |-> IF Pending(r) THEN "deny" ELSE result[r]]

\* Mutant of Timeout: a question is waited for as long as it takes.
TimeoutOfPermission(r) ==
    /\ r \in Permissions /\ Pending(r)
    /\ result' = Settled(r, "deny")
    /\ UNCHANGED <<pc, freeform, aborting, click, rules, blanket, stopping, crashes>>

Timeout(r) ==
    /\ Pending(r)
    /\ result' = Settled(r, "deny")
    /\ UNCHANGED <<pc, freeform, aborting, click, rules, blanket, stopping, crashes>>

-----------------------------------------------------------------------------
(* The agent asks.                                                          *)

\* A rule of the session or the repository for the command's executable.
Approved == session # None \/ repo # None

Interactive == \E q \in Questions : pc[q] \in {"posting", "waiting"}

Rest == UNCHANGED <<aborting, click, rules, blanket, stopping, crashes>>

\* A card under a nonce of its own; whatever needs none is answered at once.
Register(r) == pc' = [pc EXCEPT ![r] = "posting"] /\ UNCHANGED <<result, freeform>> /\ Rest

\* handlePermission.  Under YOLO or a rule there is no card; the answer is no
\* if the audit log cannot be written.
Permission(p) ==
    /\ pc[p] = "idle" /\ ~aborting /\ ~yolo /\ ~Approved
    /\ Register(p)

\* handleUserInput and handleExitPlan: one of either at a time.
Question(q) ==
    /\ pc[q] = "idle" /\ ~aborting /\ ~Interactive
    /\ Register(q)

\* The card is there, or could not be posted; a question may take a typed answer
\* from then on, a plan does not.
Posted(r, ok) ==
    /\ pc[r] = "posting"
    /\ pc' = [pc EXCEPT ![r] = "waiting"]
    /\ result' = IF ok THEN result ELSE Settled(r, "deny")
    /\ freeform' \in {freeform} \cup IF ok /\ r \in Questions THEN {r} ELSE {}
    /\ Rest

\* The handler answers the runtime and forgets the request with its nonce.
Answered(r) ==
    /\ pc[r] = "waiting" /\ result[r] # None
    /\ pc' = [pc EXCEPT ![r] = "idle"] /\ result' = [result EXCEPT ![r] = None]
    /\ freeform' = IF freeform = r THEN None ELSE freeform
    /\ click' = [c \in Clicks |-> IF click[c] # None /\ click[c].req = r
                                  THEN [click[c] EXCEPT !.req = None] ELSE click[c]]
    /\ UNCHANGED <<aborting, rules, blanket, stopping, crashes>>

-----------------------------------------------------------------------------
(* The operator answers.                                                    *)

\* onButton: the card must still be pending when it is clicked.
Clicked(c, r, decision) ==
    /\ click[c] = None /\ Pending(r) /\ ~stopping
    /\ r \in Questions => decision \in {"once", "deny"}
    /\ click' = [click EXCEPT ![c] = [req |-> r, decision |-> decision, epoch |-> clears]]
    /\ UNCHANGED <<requests, aborting, rules, blanket, stopping, crashes>>

\* Mutant of Delivered: the epoch is not asked again.
DeliveredAsClicked(k, acked) == IF ~acked \/ stopping THEN "deny" ELSE k.decision

\* What is delivered: nothing unacknowledged is allowed, and nothing is widened
\* that was revoked meanwhile.
Delivered(k, acked) ==
    IF ~acked \/ stopping THEN "deny"
    ELSE IF k.decision \in {"session", "always"} /\ k.epoch # clears THEN "once"
    ELSE k.decision

\* A rule stands under the epoch of the click that made it first.
ApproveForSession(k) == session' = IF session = None THEN k.epoch ELSE session

\* The write is tried even when the rule is there already.
ApproveForRepo(k, written) ==
    /\ repo' = IF repo = None THEN k.epoch ELSE repo
    /\ file' = IF written THEN repo' ELSE file

\* buildDecision records a wider scope while the handler has not resumed, even
\* if the request has been settled; the broker then settles it or does not.
Acked(c, acked, written) ==
    /\ click[c] # None
    /\ click' = [click EXCEPT ![c] = None]
    /\ LET r == click[c].req
           d == Delivered(click[c], acked)
           grants == r # None /\ d \in {"session", "always"}
       IN /\ IF grants /\ d = "session" THEN ApproveForSession(click[c]) ELSE UNCHANGED session
          /\ IF grants /\ d = "always" THEN ApproveForRepo(click[c], written) ELSE UNCHANGED <<repo, file>>
          /\ result' \in IF r = None THEN {result}
                         ELSE IF r \in Questions /\ (~acked \/ stopping)
                         THEN {result, Settled(r, "deny")}  \* a choice is left, a plan rejected
                         ELSE {Settled(r, IF d = "deny" THEN "deny" ELSE "allow")}
    /\ UNCHANGED <<pc, freeform, aborting, clears, revoked, promised, blanket, stopping, crashes>>

\* A message in the thread answers the question whose card awaits one.
Message ==
    /\ freeform # None /\ ~stopping
    /\ result' = Settled(freeform, "allow")
    /\ freeform' = IF Pending(freeform) THEN None ELSE freeform
    /\ UNCHANGED pc /\ Rest

\* /stop: pending requests are denied, and new ones until the runtime is idle
\* or the next turn begins.
Stop ==
    /\ ~aborting
    /\ aborting' = TRUE
    /\ result' = AllDenied
    /\ UNCHANGED <<pc, freeform, click, rules, blanket, stopping, crashes>>

Idle ==
    /\ aborting
    /\ aborting' = FALSE
    /\ UNCHANGED <<requests, click, rules, blanket, stopping, crashes>>

-----------------------------------------------------------------------------
(* `/yolo` and `/approvals clear`.                                          *)

\* Mutant of Superseded: only the toggle itself is looked at.
SupersededByNone == toggle

\* yoloEpoch: a toggle that is applied supersedes those still waiting.
Superseded == [y \in Toggles |-> IF toggle[y] = "acking" THEN "superseded" ELSE toggle[y]]

\* Off applies at once, on only after Discord has shown the warning.
YoloOff(y) ==
    /\ toggle[y] = "unused" /\ ~stopping
    /\ yolo' = FALSE
    /\ toggle' = [Superseded EXCEPT ![y] = "used"] /\ asked' = "off"
    /\ UNCHANGED <<requests, aborting, click, rules, stopping, crashes>>

YoloOn(y) ==
    /\ toggle[y] = "unused" /\ ~stopping
    /\ toggle' = [toggle EXCEPT ![y] = "acking"] /\ asked' = "on"
    /\ UNCHANGED <<requests, aborting, click, rules, yolo, stopping, crashes>>

\* ... and only if nothing toggled since; a shutdown in between undoes it.
YoloAcked(y, acked) ==
    /\ toggle[y] \in {"acking", "superseded"}
    /\ LET enabled == acked /\ toggle[y] = "acking"
       IN /\ yolo' = IF enabled THEN ~stopping ELSE yolo
          /\ toggle' = [(IF enabled /\ stopping THEN Superseded ELSE toggle) EXCEPT ![y] = "used"]
    /\ UNCHANGED <<requests, aborting, click, rules, asked, stopping, crashes>>

\* clearSession and clearAllRepos: memory first, with a new epoch, then the file.
RevokeAll(written) ==
    /\ clears' = clears + 1
    /\ session' = None /\ repo' = None
    /\ file' = IF written THEN None ELSE file

\* The operator is told whether the file was written.
Clear(written) ==
    /\ clears < MaxClears /\ ~stopping
    /\ RevokeAll(written)
    /\ revoked' = clears'
    /\ promised' = IF written THEN clears' ELSE promised
    /\ UNCHANGED <<requests, aborting, click, blanket, stopping, crashes>>

-----------------------------------------------------------------------------
(* The process.                                                             *)

Shutdown ==
    /\ ~stopping
    /\ stopping' = TRUE
    /\ UNCHANGED <<requests, aborting, click, rules, blanket, crashes>>

\* Only the file survives; YOLO is never persisted, a card of the old process
\* has a nonce nobody knows, and the resumed session asks anew.
Restart ==
    /\ crashes < MaxCrashes
    /\ crashes' = crashes + 1
    /\ pc' = [r \in Requests |-> "idle"] /\ result' = [r \in Requests |-> None]
    /\ freeform' = None /\ aborting' = FALSE
    /\ click' = [c \in Clicks |-> None]
    /\ session' = None /\ repo' = file /\ revoked' = promised
    /\ yolo' = FALSE /\ asked' = "off"
    /\ toggle' = [y \in Toggles |-> IF toggle[y] = "unused" THEN "unused" ELSE "used"]
    /\ stopping' = FALSE
    /\ UNCHANGED <<file, clears, promised>>

-----------------------------------------------------------------------------
Next ==
    \/ \E p \in Permissions : Permission(p)
    \/ \E q \in Questions : Question(q)
    \/ \E r \in Requests : Timeout(r) \/ Answered(r) \/ \E ok \in BOOLEAN : Posted(r, ok)
    \/ \E c \in Clicks : \/ \E r \in Requests, d \in Decisions : Clicked(c, r, d)
                         \/ \E acked, written \in BOOLEAN : Acked(c, acked, written)
    \/ Message \/ Stop \/ Idle
    \/ \E y \in Toggles : \/ YoloOff(y) \/ YoloOn(y)
                          \/ \E acked \in BOOLEAN : YoloAcked(y, acked)
    \/ \E written \in BOOLEAN : Clear(written)
    \/ Shutdown \/ Restart

Spec == Init /\ [][Next]_vars

\* The broker's timer fires, Discord answers a post or fails it, and a settled
\* promise resumes its handler.  Nobody has to click.
FairSpec ==
    /\ Spec
    /\ \A r \in Requests : /\ WF_vars(Timeout(r)) /\ WF_vars(Answered(r))
                           /\ WF_vars(\E ok \in BOOLEAN : Posted(r, ok))

-----------------------------------------------------------------------------
(* Properties.                                                              *)

\* A rule the operator has revoked does not come back: not from a click made
\* before and acknowledged after, and not from the file if he was told that the
\* revocation is durable.
RevocationStands ==
    /\ session \in {None, clears}
    /\ repo # None => repo >= revoked
    /\ file # None => file >= promised

\* The first answer stands: what /stop, a timeout or a failed card has denied
\* is not allowed by a click that was on its way.
FirstAnswerStands ==
    [][\A r \in Requests : result[r] # None => result'[r] \in {result[r], None}]_vars

\* The guard is down only if the last `/yolo` typed asked for it, in whatever
\* order Discord acknowledges them.
YoloAsAsked == yolo => asked = "on"

\* The runtime never waits for ever on a prompt nobody answers.
RequestsAnswered == \A r \in Requests : pc[r] # "idle" ~> pc[r] = "idle"
=============================================================================
