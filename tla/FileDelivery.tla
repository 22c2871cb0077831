---------------------------- MODULE FileDelivery -----------------------------
(***************************************************************************)
(* How a session actor lets the agent send a file to its Discord thread    *)
(* (src/copilot/session-actor.ts): a permission request validates the file *)
(* and shows a card, an Allow on the card approves one tool call, and that *)
(* call may upload the file once.  Everything in between is an await, and  *)
(* a new turn, `/stop`, `/yolo`, a rebind, a teardown or a crash may fall  *)
(* into any of them; the file may change; Discord may accept an upload     *)
(* after it was cancelled, or accept it and lose the answer.               *)
(*                                                                         *)
(* Files have size 1.  The arguments of a call always match its approval:  *)
(* a mismatch only refuses.  The root capability is closed only after the  *)
(* lifecycle has left "active", so the checks of both are one.             *)
(***************************************************************************)
EXTENDS Integers, Sequences, FiniteSets, Functions

CONSTANTS
    Requests,       \* permission requests the runtime can have outstanding
    Calls,          \* tool call ids
    Sends,          \* deliveries of a tool call the host can have outstanding
    TurnLimit,      \* FILE_DELIVERY_TURN_LIMIT
    Quota,          \* FILE_DELIVERY_SESSION_BYTE_LIMIT
    None,
    MaxClicks,      \* bound: Allow clicks; no request begins after the last
    MaxEdits,       \* bound: edits of the file
    MaxEpoch,       \* bound: boundaries, a crash included
    MaxFences,      \* bound: rebinds that suspend one actor
    MaxRestarts     \* bound: crashes with a resume

ASSUME DeliveryAssumption ==
    /\ None \notin Requests \cup Calls \cup Sends
    /\ {TurnLimit, Quota, MaxClicks, MaxEdits, MaxEpoch, MaxFences, MaxRestarts} \subseteq Nat

VARIABLES
    active,         \* lifecycle === "active"
    aborting, yolo, \* ... of the actor
    suspended,      \* fileDeliverySuspended
    fence,          \* fileDeliveryFence
    epoch,          \* fileApprovalEpoch
    owner,          \* fileDeliveryPermissionOwner: the request holding the gate
    nonce,          \* pendingFilePermissionNonce, named by its request
    req,            \* handleFileDeliveryPermission of each request
    card,           \* presentFileDeliveryPermissionCard of each request
    pending,        \* requests with an unsettled entry in the broker
    answer,         \* how a settled entry was settled: 0, or the Allow click
    approvals,      \* approvedFileDeliveries
    chain,          \* fileDeliveryChain: the deliveries in it, in their order
    send,           \* sendApprovedFileDelivery of each delivery
    delivered,      \* successfulFileDeliveriesThisTurn
    mirror,         \* fileDeliveryBytes of the actor
    durable,        \* ... of the thread's record in the store
    file,           \* which version of the file is on disk
    fences,         \* fences whose rebind may still roll back
    clicks,         \* Allow clicks so far
    shown,          \* what was on the card of each click
    stale,          \* clicks some boundary has overtaken
    uploads,        \* what has been uploaded for each click, in order
    visible,        \* clicks whose attachment is in the thread
    told,           \* what the agent was told of each click
    restarts

fenceVars == <<active, aborting, yolo, suspended, fence, fences>>
gateVars == <<epoch, owner, nonce, req, card, pending, answer>>
sendVars == <<chain, send, delivered, mirror, durable>>
ghostVars == <<clicks, shown, stale, uploads, visible, told>>
vars == <<fenceVars, gateVars, approvals, sendVars, file, ghostVars, restarts>>

Clicks == 1..MaxClicks
Contents == 0..MaxEdits

NoRequest == [pc |-> "idle", call |-> None, epoch |-> 0, content |-> 0]
NoSend == [pc |-> "idle", call |-> None, approval |-> None, bytes |-> 0, base |-> 0]

\* What an approval fixes: the file as validated, and the epoch it is good for.
Approval == [content : Contents, epoch : 0..MaxEpoch, click : Clicks]

GateTyped ==
    /\ fence \in 0..MaxFences /\ fences \subseteq 1..fence
    /\ epoch \in 0..MaxEpoch /\ restarts \in 0..MaxRestarts
    /\ owner \in Requests \cup {None} /\ nonce \in Requests \cup {None}
    /\ req \in [Requests -> [pc : {"idle", "validating", "deciding"},
                             call : Calls \cup {None},
                             epoch : 0..MaxEpoch,
                             content : Contents]]
    /\ card \in [Requests -> {"none", "flushing", "posting"}]
    /\ pending \subseteq Requests
    /\ answer \in [Requests -> 0..MaxClicks]

SendTyped ==
    /\ approvals \in [Calls -> Approval \cup {None}]
    /\ \A i \in DOMAIN chain : chain[i] \in Sends
    /\ send \in [Sends -> [pc : {"idle", "waiting", "resolving", "sealing", "fetching",
                                 "uploading", "accepted", "retracting"},
                           call : Calls \cup {None},
                           approval : Approval \cup {None},
                           bytes : Contents,
                           base : 0..Quota]]
    /\ delivered \in 0..TurnLimit /\ mirror \in 0..Quota /\ durable \in 0..Quota
    /\ file \in Contents

ClicksTyped ==
    /\ clicks \in 0..MaxClicks /\ stale \subseteq Clicks /\ visible \subseteq Clicks
    /\ shown \in [Clicks -> Contents]
    /\ \A k \in Clicks : Range(uploads[k]) \subseteq Contents
    /\ told \in [Clicks -> {"nothing", "delivered", "cancelled", "failed", "maybe"}]

TypeOK ==
    /\ {active, aborting, yolo, suspended} \subseteq BOOLEAN
    /\ GateTyped /\ SendTyped /\ ClicksTyped

------------------------------------------------------------------------------
(* Guards and effects shared by the handlers.                               *)

\* fileDeliveryPermissionIsCurrent, with the epoch the request captured.
RequestIsCurrent(r) ==
    /\ owner = r
    /\ active /\ ~aborting /\ ~yolo /\ ~suspended
    /\ req[r].epoch = epoch

\* (Mutant: an approval is good for as long as the actor delivers files.)
IsCurrentWhateverTheEpoch(a) == active /\ ~aborting /\ ~yolo /\ ~suspended

\* fileDeliveryIsCurrent.
IsCurrent(a) ==
    /\ active /\ ~aborting /\ ~yolo /\ ~suspended
    /\ a.epoch = epoch

\* The predicate a delivery checks after each await, and gives to the transport.
DeliveryIsCurrent(s) == IsCurrent(send[s].approval)

\* broker.settle and broker.abort with the safe default: an entry settles once.
Deny(rs) ==
    /\ pending' = pending \ rs
    /\ answer' = [r \in Requests |-> IF r \in pending \cap rs THEN 0 ELSE answer[r]]

\* clearFileDeliveryApprovals; `also` is what broker.abortSession settles too.
ClearFileDeliveryApprovals(also) ==
    /\ epoch + restarts < MaxEpoch
    /\ epoch' = epoch + 1
    /\ approvals' = [c \in Calls |-> None]
    /\ owner' = None
    /\ nonce' = None
    /\ Deny({nonce} \cup also)
    /\ stale' = 1..clicks
    /\ UNCHANGED <<req, card, clicks, shown, uploads, visible, told>>

ReleaseGate(r) == owner' = IF owner = r THEN None ELSE owner

------------------------------------------------------------------------------
(* What overtakes a delivery.                                               *)

\* send: a new turn.
BeginTurn ==
    /\ active
    /\ aborting' = FALSE
    /\ delivered' = 0
    /\ ClearFileDeliveryApprovals({})
    /\ UNCHANGED <<active, yolo, suspended, fence, fences, chain, send, mirror, durable, file, restarts>>

Stop ==
    /\ aborting' = TRUE
    /\ ClearFileDeliveryApprovals(pending)
    /\ UNCHANGED <<active, yolo, suspended, fence, fences, sendVars, file, restarts>>

\* The runtime's session.idle.
Idle ==
    /\ aborting
    /\ aborting' = FALSE
    /\ UNCHANGED <<active, yolo, suspended, fence, fences, gateVars, approvals, sendVars, file,
                   ghostVars, restarts>>

\* setYolo(true) and enableYoloIfCurrent.
YoloOn ==
    /\ ~yolo
    /\ yolo' = TRUE
    /\ ClearFileDeliveryApprovals({})
    /\ UNCHANGED <<active, aborting, suspended, fence, fences, sendVars, file, restarts>>

YoloOff ==
    /\ yolo
    /\ yolo' = FALSE
    /\ UNCHANGED <<active, aborting, suspended, fence, fences, gateVars, approvals, sendVars, file,
                   ghostVars, restarts>>

\* suspendFileDelivery: a rebind fences the actor.
SuspendFileDelivery ==
    /\ fence < MaxFences
    /\ fence' = fence + 1
    /\ fences' = fences \cup {fence + 1}
    /\ suspended' = TRUE
    /\ ClearFileDeliveryApprovals({})
    /\ UNCHANGED <<active, aborting, yolo, sendVars, file, restarts>>

\* (Mutant: any rollback lifts the fence.)
ResumeWhicheverFence(f) ==
    /\ f \in fences
    /\ fences' = fences \ {f}
    /\ suspended' = (suspended /\ ~active)
    /\ UNCHANGED <<active, aborting, yolo, fence, gateVars, approvals, sendVars, file,
                   ghostVars, restarts>>

\* resumeFileDeliveryIfCurrent, from the rollback of the rebind that holds f.
ResumeFileDeliveryIfCurrent(f) ==
    /\ f \in fences
    /\ fences' = fences \ {f}
    /\ suspended' = (suspended /\ ~(f = fence /\ active))
    /\ UNCHANGED <<active, aborting, yolo, fence, gateVars, approvals, sendVars, file,
                   ghostVars, restarts>>

\* disconnect and markFaulted: either way the actor is done with files.
Teardown ==
    /\ active
    /\ active' = FALSE
    /\ aborting' = TRUE
    /\ ClearFileDeliveryApprovals(pending)
    /\ UNCHANGED <<yolo, suspended, fence, fences, sendVars, file, restarts>>

\* Anyone with access to the workdir edits the file.
Edit ==
    /\ file < MaxEdits
    /\ file' = file + 1
    /\ UNCHANGED <<fenceVars, gateVars, approvals, sendVars, ghostVars, restarts>>

------------------------------------------------------------------------------
(* handlePermission for a file, and its card.                               *)

\* handlePermission lets a request for a file through.
MayAsk == ~aborting /\ ~yolo

\* With the gate taken or the actor fenced the request is refused on the spot.
Ask(r, c) ==
    /\ req[r].pc = "idle" /\ card[r] = "none" /\ clicks < MaxClicks
    /\ MayAsk
    /\ owner = None /\ active /\ ~suspended
    /\ owner' = r
    /\ approvals' = [approvals EXCEPT ![c] = None]
    /\ req' = [req EXCEPT ![r] = [pc |-> "validating", call |-> c, epoch |-> epoch, content |-> 0]]
    /\ UNCHANGED <<fenceVars, epoch, nonce, card, pending, answer, sendVars, file, ghostVars, restarts>>

EndRequest(r) ==
    /\ req' = [req EXCEPT ![r] = NoRequest]
    /\ answer' = [answer EXCEPT ![r] = 0]

\* The file is eligible, and the request still owns the gate: register the
\* nonce and start presenting the card, detached.
Validated(r) ==
    /\ req[r].pc = "validating"
    /\ RequestIsCurrent(r)
    /\ req' = [req EXCEPT ![r].pc = "deciding", ![r].content = file]
    /\ pending' = pending \cup {r}
    /\ nonce' = r
    /\ card' = [card EXCEPT ![r] = "flushing"]
    /\ UNCHANGED <<fenceVars, epoch, owner, answer, approvals, sendVars, file, ghostVars, restarts>>

\* It is not eligible, cannot be read, or the request has been overtaken.
NotValidated(r) ==
    /\ req[r].pc = "validating"
    /\ EndRequest(r)
    /\ ReleaseGate(r)
    /\ UNCHANGED <<fenceVars, epoch, nonce, card, pending, approvals, sendVars, file, ghostVars, restarts>>

\* The flush of the thread's output is over.
CardFlushed(r) ==
    /\ card[r] = "flushing"
    /\ IF RequestIsCurrent(r)
       THEN /\ card' = [card EXCEPT ![r] = "posting"]
            /\ UNCHANGED <<pending, answer>>
       ELSE /\ card' = [card EXCEPT ![r] = "none"]
            /\ Deny({r})
    /\ UNCHANGED <<fenceVars, epoch, owner, nonce, req, approvals, sendVars, file, ghostVars, restarts>>

\* Discord has answered showPermission; a card that failed is denied at once.
CardPosted(r, ok) ==
    /\ card[r] = "posting"
    /\ card' = [card EXCEPT ![r] = "none"]
    /\ Deny(IF ok /\ RequestIsCurrent(r) THEN {} ELSE {r})
    /\ UNCHANGED <<fenceVars, epoch, owner, nonce, req, approvals, sendVars, file, ghostVars, restarts>>

\* onDecision: the card may be clicked as soon as Discord shows it, before the
\* answer to showPermission.
Allow(r) ==
    /\ r \in pending /\ card[r] # "flushing"
    /\ clicks < MaxClicks
    /\ clicks' = clicks + 1
    /\ shown' = [shown EXCEPT ![clicks'] = req[r].content]
    /\ pending' = pending \ {r}
    /\ answer' = [answer EXCEPT ![r] = clicks']
    /\ UNCHANGED <<fenceVars, epoch, owner, nonce, req, card, approvals, sendVars, file,
                   stale, uploads, visible, told, restarts>>

\* The operator denies, or the broker's timer fires: the same safe default.
DenyOrTimeout(r) ==
    /\ r \in pending
    /\ Deny({r})
    /\ UNCHANGED <<fenceVars, epoch, owner, nonce, req, card, approvals, sendVars, file, ghostVars, restarts>>

\* The handler resumes from the broker's promise.
Decided(r) ==
    /\ req[r].pc = "deciding" /\ r \notin pending
    /\ approvals' =
         IF RequestIsCurrent(r) /\ answer[r] # 0
         THEN [approvals EXCEPT ![req[r].call] =
                 [content |-> req[r].content, epoch |-> req[r].epoch, click |-> answer[r]]]
         ELSE approvals
    /\ nonce' = IF nonce = r THEN None ELSE nonce
    /\ EndRequest(r)
    /\ ReleaseGate(r)
    /\ UNCHANGED <<fenceVars, epoch, card, pending, sendVars, file, ghostVars, restarts>>

------------------------------------------------------------------------------
(* handleFileDelivery and the transport's sendFile.                         *)

Invoke(s, c) ==
    /\ send[s].pc = "idle"
    /\ send' = [send EXCEPT ![s].pc = "waiting", ![s].call = c]
    /\ chain' = Append(chain, s)
    /\ UNCHANGED <<fenceVars, gateVars, approvals, delivered, mirror, durable, file, ghostVars, restarts>>

\* The delivery answers the runtime and lets the next one in the chain go.
Answer(s, text) ==
    /\ send' = [send EXCEPT ![s] = NoSend]
    /\ chain' = Tail(chain)
    /\ told' = IF send[s].approval = None THEN told
               ELSE [told EXCEPT ![send[s].approval.click] = text]

GoOn(s, pc) ==
    /\ send' = [send EXCEPT ![s].pc = pc]
    /\ UNCHANGED <<chain, told>>

\* (Mutant: the approval stays until the delivery has succeeded.)
StartWithoutConsuming(s) ==
    /\ send[s].pc = "waiting" /\ Head(chain) = s
    /\ LET a == approvals[send[s].call]
       IN  IF a # None /\ IsCurrent(a)
           THEN /\ send' = [send EXCEPT ![s].pc = "resolving", ![s].approval = a]
                /\ UNCHANGED <<chain, told>>
           ELSE Answer(s, "failed")
    /\ UNCHANGED <<fenceVars, gateVars, approvals, delivered, mirror, durable, file,
                   clicks, shown, stale, uploads, visible, restarts>>

\* It is this delivery's turn: the approval is consumed before any await.
Start(s) ==
    /\ send[s].pc = "waiting" /\ Head(chain) = s
    /\ LET a == approvals[send[s].call]
       IN  /\ approvals' = [approvals EXCEPT ![send[s].call] = None]
           /\ IF a # None /\ IsCurrent(a)
              THEN /\ send' = [send EXCEPT ![s].pc = "resolving", ![s].approval = a]
                   /\ UNCHANGED <<chain, told>>
              ELSE Answer(s, "failed")
    /\ UNCHANGED <<fenceVars, gateVars, delivered, mirror, durable, file,
                   clicks, shown, stale, uploads, visible, restarts>>

\* The file has been read again, as it is now.
Resolved(s) ==
    /\ send[s].pc = "resolving"
    /\ IF /\ file = send[s].approval.content
          /\ DeliveryIsCurrent(s)
          /\ delivered < TurnLimit
          /\ mirror < Quota
       THEN /\ send' = [send EXCEPT ![s].pc = "sealing", ![s].bytes = file, ![s].base = mirror]
            /\ UNCHANGED <<chain, told>>
       ELSE Answer(s, "failed")
    /\ UNCHANGED <<fenceVars, gateVars, approvals, delivered, mirror, durable, file,
                   clicks, shown, stale, uploads, visible, restarts>>

NotResolved(s) ==
    /\ send[s].pc = "resolving"
    /\ Answer(s, "failed")
    /\ UNCHANGED <<fenceVars, gateVars, approvals, delivered, mirror, durable, file,
                   clicks, shown, stale, uploads, visible, restarts>>

\* (Mutant: a reservation that could not be written does not stop the upload.)
SealedWithoutQuota(s, written) ==
    /\ send[s].pc = "sealing"
    /\ IF ~DeliveryIsCurrent(s)
       THEN Answer(s, "cancelled") /\ UNCHANGED <<mirror, durable>>
       ELSE /\ mirror' = send[s].base + 1
            /\ durable' = IF written THEN send[s].base + 1 ELSE durable
            /\ GoOn(s, "fetching")
    /\ UNCHANGED <<fenceVars, gateVars, approvals, delivered, file,
                   clicks, shown, stale, uploads, visible, restarts>>

\* The flush is over: reserve the quota from the total read before it, by a
\* compare-and-set in the store, and enter sendFile.
Sealed(s, written) ==
    /\ send[s].pc = "sealing"
    /\ IF ~DeliveryIsCurrent(s)
       THEN Answer(s, "cancelled") /\ UNCHANGED <<mirror, durable>>
       ELSE IF written /\ durable = send[s].base
       THEN /\ mirror' = send[s].base + 1
            /\ durable' = send[s].base + 1
            /\ GoOn(s, "fetching")
       ELSE Answer(s, "failed") /\ UNCHANGED <<mirror, durable>>
    /\ UNCHANGED <<fenceVars, gateVars, approvals, delivered, file,
                   clicks, shown, stale, uploads, visible, restarts>>

\* The channel is known and may be posted to, or not.
Fetched(s, ok) ==
    /\ send[s].pc = "fetching"
    /\ IF DeliveryIsCurrent(s) /\ ok
       THEN /\ GoOn(s, "uploading")
            /\ uploads' = [uploads EXCEPT ![send[s].approval.click] = Append(@, send[s].bytes)]
       ELSE /\ Answer(s, "cancelled")
            /\ UNCHANGED uploads
    /\ UNCHANGED <<fenceVars, gateVars, approvals, delivered, mirror, durable, file,
                   clicks, shown, stale, visible, restarts>>

\* Discord has the attachment; an overtaken one is taken back.
Accepted(s) ==
    /\ send[s].pc = "uploading"
    /\ visible' = visible \cup {send[s].approval.click}
    /\ GoOn(s, IF DeliveryIsCurrent(s) THEN "accepted" ELSE "retracting")
    /\ UNCHANGED <<fenceVars, gateVars, approvals, delivered, mirror, durable, file,
                   clicks, shown, stale, uploads, restarts>>

\* Discord refuses it for a reason that proves it is not there ...
Refused(s) ==
    /\ send[s].pc = "uploading"
    /\ Answer(s, "failed")
    /\ UNCHANGED <<fenceVars, gateVars, approvals, delivered, mirror, durable, file,
                   clicks, shown, stale, uploads, visible, restarts>>

\* ... or fails in a way that proves nothing.
AnswerLost(s, there) ==
    /\ send[s].pc = "uploading"
    /\ visible' = IF there THEN visible \cup {send[s].approval.click} ELSE visible
    /\ Answer(s, "maybe")
    /\ UNCHANGED <<fenceVars, gateVars, approvals, delivered, mirror, durable, file,
                   clicks, shown, stale, uploads, restarts>>

\* (Mutant: an attempt to take the attachment back passes for success.)
RetractedSurely(s, confirmed, gone) ==
    /\ send[s].pc = "retracting"
    /\ visible' = IF confirmed \/ gone THEN visible \ {send[s].approval.click} ELSE visible
    /\ Answer(s, "cancelled")
    /\ UNCHANGED <<fenceVars, gateVars, approvals, delivered, mirror, durable, file,
                   clicks, shown, stale, uploads, restarts>>

\* message.delete is confirmed, or fails with the message deleted or not.
Retracted(s, confirmed, gone) ==
    /\ send[s].pc = "retracting"
    /\ visible' = IF confirmed \/ gone THEN visible \ {send[s].approval.click} ELSE visible
    /\ Answer(s, IF confirmed THEN "cancelled" ELSE "maybe")
    /\ UNCHANGED <<fenceVars, gateVars, approvals, delivered, mirror, durable, file,
                   clicks, shown, stale, uploads, restarts>>

\* The actor resumes from a successful sendFile.
Report(s) ==
    /\ send[s].pc = "accepted"
    /\ IF DeliveryIsCurrent(s)
       THEN delivered' = delivered + 1 /\ Answer(s, "delivered")
       ELSE UNCHANGED delivered /\ Answer(s, "maybe")
    /\ UNCHANGED <<fenceVars, gateVars, approvals, mirror, durable, file,
                   clicks, shown, stale, uploads, visible, restarts>>

------------------------------------------------------------------------------
(* A crash, and the actor of the resumed session.                           *)

Init ==
    /\ active = TRUE /\ aborting = FALSE /\ yolo = FALSE /\ suspended = FALSE
    /\ fence = 0 /\ fences = {} /\ epoch = 0
    /\ owner = None /\ nonce = None /\ pending = {}
    /\ req = [r \in Requests |-> NoRequest]
    /\ card = [r \in Requests |-> "none"]
    /\ answer = [r \in Requests |-> 0]
    /\ approvals = [c \in Calls |-> None]
    /\ send = [s \in Sends |-> NoSend]
    /\ chain = <<>> /\ delivered = 0
    /\ mirror = 0 /\ durable = 0
    /\ file = 0
    /\ clicks = 0 /\ stale = {} /\ visible = {}
    /\ shown = [k \in Clicks |-> 0]
    /\ uploads = [k \in Clicks |-> <<>>]
    /\ told = [k \in Clicks |-> "nothing"]
    /\ restarts = 0

InFlight == {send[s].approval.click : s \in {s \in Sends : send[s].pc = "uploading"}}

\* Only the store survives; Discord may still accept what was on its way.
Crash ==
    /\ restarts < MaxRestarts /\ epoch + restarts < MaxEpoch
    /\ restarts' = restarts + 1
    /\ active' = TRUE /\ aborting' = FALSE /\ yolo' = FALSE /\ suspended' = FALSE
    /\ fence' = 0 /\ fences' = {} /\ epoch' = 0
    /\ owner' = None /\ nonce' = None /\ pending' = {}
    /\ req' = [r \in Requests |-> NoRequest]
    /\ card' = [r \in Requests |-> "none"]
    /\ answer' = [r \in Requests |-> 0]
    /\ approvals' = [c \in Calls |-> None]
    /\ send' = [s \in Sends |-> NoSend]
    /\ chain' = <<>> /\ delivered' = 0
    /\ mirror' = durable
    /\ \E arrived \in SUBSET InFlight : visible' = visible \cup arrived
    /\ stale' = 1..clicks
    /\ UNCHANGED <<durable, file, clicks, shown, uploads, told>>

Boundary ==
    \/ BeginTurn \/ Stop \/ Idle \/ YoloOn \/ YoloOff \/ Teardown \/ Edit \/ Crash
    \/ SuspendFileDelivery
    \/ \E f \in fences : ResumeFileDeliveryIfCurrent(f)

RequestStep(r) ==
    \/ \E c \in Calls : Ask(r, c)
    \/ Validated(r) \/ NotValidated(r)
    \/ CardFlushed(r)
    \/ \E ok \in BOOLEAN : CardPosted(r, ok)
    \/ Allow(r) \/ DenyOrTimeout(r) \/ Decided(r)

SendStep(s) ==
    \/ \E c \in Calls : Invoke(s, c)
    \/ Start(s) \/ Resolved(s) \/ NotResolved(s)
    \/ \E ok \in BOOLEAN : Sealed(s, ok) \/ Fetched(s, ok) \/ AnswerLost(s, ok)
    \/ Accepted(s) \/ Refused(s) \/ Report(s)
    \/ \E confirmed, gone \in BOOLEAN : Retracted(s, confirmed, gone)

Next ==
    \/ Boundary
    \/ \E r \in Requests : RequestStep(r)
    \/ \E s \in Sends : SendStep(s)

Spec == Init /\ [][Next]_vars

------------------------------------------------------------------------------
(* Properties.                                                              *)

\* One Allow is worth at most one upload, of the very file the card showed,
\* however often the host delivers the call or asks again under its id; and no
\* upload begins on an Allow that a turn, a stop, YOLO, a rebind, a teardown or
\* a restart has overtaken.
UploadAsApproved ==
    [][\A k \in Clicks :
        uploads'[k] # uploads[k] => k \notin stale /\ uploads'[k] = <<shown[k]>>]_vars

\* Every upload there has been, for a click and in its order.
Uploaded == UNION {{k} \X DOMAIN uploads[k] : k \in Clicks}

\* Everything that may have reached Discord is paid for in the durable total,
\* within the thread's quota, over failures, retractions and restarts; and a
\* turn delivers no more than its share.
QuotaCovers ==
    /\ Cardinality(Uploaded) <= durable
    /\ durable <= Quota
    /\ delivered <= TurnLimit

\* The agent is told the truth: what was cancelled or failed is not in the
\* thread, and what was delivered is.
ReportTruthful ==
    \A k \in Clicks :
        /\ told[k] \in {"cancelled", "failed"} => k \notin visible
        /\ told[k] = "delivered" => k \in visible

\* While the latest rebind may still commit, the actor stays fenced: the late
\* rollback of an earlier one does not lift it.
FenceHolds == fence \in fences => suspended
=============================================================================
