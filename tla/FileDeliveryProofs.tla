--------------------------- MODULE FileDeliveryProofs ---------------------------
(***************************************************************************)
(* What FileDelivery promises for any requests, calls and deliveries: an   *)
(* Allow is worth one upload at most, of the file its card showed, and     *)
(* none once it has been overtaken; all of it is paid for; the agent is    *)
(* told the truth about it.  The argument follows an Allow from hand to    *)
(* hand: it is the settled answer of one request, then the approval of one *)
(* call, then the approval one delivery has consumed, and never two of     *)
(* these, whatever falls into the awaits in between.                       *)
(***************************************************************************)
EXTENDS FileDelivery, FiniteSetTheorems, TLAPS

-----------------------------------------------------------------------------
(* The invariant.                                                           *)

Typed ==
    /\ GateTyped /\ SendTyped /\ ClicksTyped
    /\ chain \in Seq(Sends) /\ DOMAIN uploads = Clicks

\* Nothing has become of a click yet, or the agent has not heard of it.
Untold(k) == k \in 1..clicks /\ told[k] = "nothing"
Unused(k) == Untold(k) /\ k \notin visible /\ uploads[k] = <<>>

\* A card that can be clicked is the one of the request at the gate.
Gate ==
    /\ \A r \in pending : /\ owner = r /\ nonce = r /\ answer[r] = 0
                          /\ req[r].pc = "deciding" /\ req[r].epoch = epoch
    /\ \A r \in Requests : /\ req[r].pc # "idle" => req[r].epoch <= epoch
                           /\ req[r].pc # "deciding" => answer[r] = 0

\* A click in the hands of the request whose card it was on ...
Answered ==
    \A r \in Requests : answer[r] # 0 =>
        /\ Unused(answer[r])
        /\ shown[answer[r]] = req[r].content
        /\ req[r].epoch = epoch => answer[r] \notin stale
        /\ \A q \in Requests : answer[q] = answer[r] => q = r

\* ... of a tool call ...
Approved ==
    \A c \in Calls : approvals[c] # None =>
        /\ Unused(approvals[c].click)
        /\ approvals[c].content = shown[approvals[c].click]
        /\ approvals[c].epoch = epoch /\ approvals[c].click \notin stale
        /\ \A d \in Calls : approvals[d] # None /\ approvals[d].click = approvals[c].click => d = c
        /\ \A r \in Requests : answer[r] # approvals[c].click

\* ... and of a delivery.
Under(s) == send[s].pc \notin {"idle", "waiting"}

Sending ==
    \A s \in Sends : Under(s) =>
        /\ send[s].approval # None
        /\ Untold(send[s].approval.click)
        /\ send[s].approval.content = shown[send[s].approval.click]
        /\ send[s].approval.epoch = epoch => send[s].approval.click \notin stale
        /\ send[s].approval.epoch <= epoch
        /\ send[s].pc \in {"resolving", "sealing", "fetching"} => Unused(send[s].approval.click)
        /\ send[s].pc \in {"sealing", "fetching"} => send[s].bytes = send[s].approval.content
        /\ send[s].pc = "uploading" => send[s].approval.click \notin visible
        /\ send[s].pc = "accepted" => send[s].approval.click \in visible
        /\ \A r \in Requests : answer[r] # send[s].approval.click
        /\ \A c \in Calls : approvals[c] # None => approvals[c].click # send[s].approval.click

\* One delivery at a time has come to its turn.
Chained ==
    \A s \in Sends : /\ send[s].pc # "idle" => s \in Range(chain)
                     /\ Under(s) => Head(chain) = s
                     /\ ~Under(s) => send[s].approval = None
                     /\ send[s].pc # "idle" => send[s].call \in Calls

\* What has become of the clicks.
Kept ==
    /\ stale \subseteq 1..clicks
    /\ \A k \in Clicks :
          /\ k > clicks => told[k] = "nothing" /\ k \notin visible /\ uploads[k] = <<>>
          /\ uploads[k] = <<>> \/ uploads[k] = <<shown[k]>>

\* A reservation is written before its upload begins, and a turn's share is asked
\* for by the only delivery that can take from it.
Reserved == \E s \in Sends : send[s].pc = "fetching"

Counted ==
    /\ \A s \in Sends : /\ Under(s) /\ send[s].pc # "resolving" => delivered < TurnLimit
                        /\ send[s].pc = "sealing" => send[s].base < Quota
    /\ Cardinality(Uploaded) + (IF Reserved THEN 1 ELSE 0) <= durable

Inv == /\ Typed /\ Gate /\ Answered /\ Approved /\ Sending /\ Chained /\ Kept /\ Counted
       /\ ReportTruthful /\ FenceHolds

-----------------------------------------------------------------------------
(* Lemmas.                                                                  *)

LEMMA HeadAndTail ==
    ASSUME NEW q \in Seq(Sends), q # <<>>
    PROVE  /\ Head(q) \in Range(q) /\ Head(q) \in Sends /\ Tail(q) \in Seq(Sends)
           /\ Range(q) \subseteq {Head(q)} \cup Range(Tail(q))
<1>1. /\ Len(q) \in Nat \ {0} /\ Head(q) = q[1] /\ Tail(q) \in Seq(Sends)
      /\ Len(Tail(q)) = Len(q) - 1
      /\ \A i \in 1 .. Len(Tail(q)) : Tail(q)[i] = q[i + 1]
  OBVIOUS
<1>2. DOMAIN q = 1 .. Len(q) /\ DOMAIN Tail(q) = 1 .. Len(Tail(q))
  BY <1>1
<1>3. ASSUME NEW x \in Range(q), x # Head(q) PROVE x \in Range(Tail(q))
  <2>1. PICK i \in 1 .. Len(q) : x = q[i]
    BY <1>2, <1>3 DEF Range
  <2>2. i # 1 /\ i - 1 \in 1 .. Len(Tail(q)) /\ Tail(q)[i - 1] = q[(i - 1) + 1] /\ (i - 1) + 1 = i
    BY <1>1, <1>3, <2>1
  <2> QED
    BY <1>2, <2>1, <2>2 DEF Range
<1> QED
  BY <1>1, <1>2, <1>3 DEF Range

LEMMA AppendIs ==
    ASSUME NEW q \in Seq(Sends), NEW s \in Sends
    PROVE  /\ Append(q, s) \in Seq(Sends) /\ Range(Append(q, s)) = Range(q) \cup {s}
           /\ q # <<>> => Head(Append(q, s)) = Head(q)
<1> DEFINE r == Append(q, s)
<1>1. /\ Len(q) \in Nat /\ r \in Seq(Sends) /\ Len(r) = Len(q) + 1
      /\ \A i \in 1 .. Len(q) : r[i] = q[i]
      /\ r[Len(q) + 1] = s
      /\ q # <<>> => Head(r) = Head(q)
  OBVIOUS
<1>2. DOMAIN q = 1 .. Len(q) /\ DOMAIN r = 1 .. (Len(q) + 1)
  BY <1>1
<1> HIDE DEF r
<1>3. Range(r) = Range(q) \cup {s}
  BY <1>1, <1>2 DEF Range
<1> QED
  BY <1>1, <1>3 DEF r

LEMMA EmptyIs == <<>> \in Seq(Sends) /\ Range(<<>>) = {} /\ DOMAIN <<>> = {}
  BY DEF Range

\* broker.settle and broker.abort find nothing settled that they could overwrite.
LEMMA DenyIs ==
    ASSUME Typed, Gate, NEW rs, Deny(rs)
    PROVE  pending' = pending \ rs /\ answer' = answer
<1>1. answer \in [Requests -> 0..MaxClicks] /\ \A r \in pending : answer[r] = 0
  BY DEF Typed, GateTyped, Gate
<1> QED
  BY <1>1 DEF Deny

LEMMA UploadedIsFinite ==
    ASSUME Kept PROVE IsFiniteSet(Uploaded) /\ Uploaded \subseteq Clicks \X {1}
<1>1. IsFiniteSet(Clicks) /\ IsFiniteSet({1})
  <2>1. MaxClicks \in Int /\ 1 \in Int
    BY DeliveryAssumption
  <2>2. IsFiniteSet(1..MaxClicks)
    BY <2>1, FS_Interval
  <2>3. IsFiniteSet({1})
    BY FS_Singleton
  <2> QED
    BY <2>2, <2>3 DEF Clicks
<1>2. IsFiniteSet(Clicks \X {1})
  BY <1>1, FS_Product
<1>3. \A k \in Clicks : DOMAIN uploads[k] \subseteq {1}
  BY DEF Kept
<1>4. Uploaded \subseteq Clicks \X {1}
  BY <1>3 DEF Uploaded
<1> QED
  BY <1>2, <1>4, FS_Subset

LEMMA InitInv == Init => Inv
<1> SUFFICES ASSUME Init PROVE Inv
  OBVIOUS
<1>1. Typed
  <2>1. NoSend \in [pc : {"idle", "waiting", "resolving", "sealing", "fetching",
                          "uploading", "accepted", "retracting"},
                    call : Calls \cup {None}, approval : Approval \cup {None},
                    bytes : Contents, base : 0..Quota]
    BY DeliveryAssumption DEF NoSend, Contents
  <2>2. NoRequest \in [pc : {"idle", "validating", "deciding"}, call : Calls \cup {None},
                       epoch : 0..MaxEpoch, content : Contents]
    BY DeliveryAssumption DEF NoRequest, Contents
  <2>3. chain \in Seq(Sends) /\ \A k \in Clicks : Range(uploads[k]) = {}
    BY EmptyIs DEF Init
  <2>4. \A i \in DOMAIN chain : chain[i] \in Sends
    BY EmptyIs DEF Init
  <2> HIDE DEF NoSend, NoRequest
  <2>5. /\ send \in [Sends -> [pc : {"idle", "waiting", "resolving", "sealing", "fetching",
                                   "uploading", "accepted", "retracting"},
                             call : Calls \cup {None}, approval : Approval \cup {None},
                             bytes : Contents, base : 0..Quota]]
        /\ req \in [Requests -> [pc : {"idle", "validating", "deciding"}, call : Calls \cup {None},
                                epoch : 0..MaxEpoch, content : Contents]]
    BY <2>1, <2>2 DEF Init
  <2>6. GateTyped
    BY <2>5, DeliveryAssumption DEF Init, GateTyped
  <2>7. SendTyped
    BY <2>4, <2>5, DeliveryAssumption DEF Init, SendTyped, Contents
  <2>8. ClicksTyped /\ DOMAIN uploads = Clicks
    BY <2>3, DeliveryAssumption DEF Init, ClicksTyped, Contents
  <2> QED
    BY <2>3, <2>6, <2>7, <2>8 DEF Typed
<1>2. Gate /\ Answered /\ Approved /\ Kept /\ ReportTruthful /\ FenceHolds
  BY DeliveryAssumption DEF Init, Gate, Answered, Approved, Kept, ReportTruthful, FenceHolds,
     NoRequest, Clicks
<1>3. Sending /\ Chained
  BY DEF Init, Sending, Chained, Under, NoSend
<1>4. Counted
  <2>1. Uploaded = {}
    BY EmptyIs DEF Init, Uploaded
  <2>2. ~Reserved
    BY DEF Init, Reserved, NoSend
  <2> QED
    BY <2>1, <2>2, FS_EmptySet DEF Counted, Init, Under, NoSend
<1> QED
  BY <1>1, <1>2, <1>3, <1>4 DEF Inv

\* Every upload is paid for.
LEMMA PaidIs ==
    ASSUME Inv PROVE Cardinality(Uploaded) \in Nat /\ Cardinality(Uploaded) <= durable
<1>1. IsFiniteSet(Uploaded)
  BY UploadedIsFinite DEF Inv
<1>2. Cardinality(Uploaded) \in Nat
  BY <1>1, FS_CardinalityType
<1> QED
  BY <1>2 DEF Inv, Counted, Typed, SendTyped

-----------------------------------------------------------------------------
(* What overtakes a delivery.                                               *)

\* Every boundary takes the gate away, refuses its card and forgets the approvals:
\* what was clicked before belongs to an epoch that is over.
LEMMA ClearKeeps ==
    ASSUME Inv, NEW also \in SUBSET pending, ClearFileDeliveryApprovals(also),
           UNCHANGED <<chain, send, mirror, durable, file, restarts>>,
           delivered' \in {delivered, 0}
    PROVE  /\ epoch' \in 0..MaxEpoch /\ owner' = None /\ nonce' = None /\ pending' = {}
           /\ UNCHANGED <<req, card, answer>>
           /\ SendTyped' /\ ClicksTyped' /\ chain' \in Seq(Sends) /\ DOMAIN uploads' = Clicks
           /\ Gate' /\ Answered' /\ Approved' /\ Sending' /\ Chained' /\ Kept' /\ Counted'
           /\ ReportTruthful'
<1>1. /\ epoch + restarts < MaxEpoch /\ epoch' = epoch + 1
      /\ approvals' = [c \in Calls |-> None] /\ owner' = None /\ nonce' = None
      /\ Deny({nonce} \cup also) /\ stale' = 1..clicks
      /\ UNCHANGED <<req, card, clicks, shown, uploads, visible, told>>
  BY DEF ClearFileDeliveryApprovals
<1>2. pending' = {} /\ answer' = answer
  BY <1>1, DenyIs DEF Inv, Gate
<1>3. epoch \in Nat /\ epoch' \in 0..MaxEpoch /\ clicks \in 0..MaxClicks
  BY <1>1, DeliveryAssumption DEF Inv, Typed, GateTyped, ClicksTyped
<1>4. SendTyped' /\ chain' \in Seq(Sends)
  BY <1>1, DeliveryAssumption DEF Inv, Typed, SendTyped
<1>5. ClicksTyped' /\ DOMAIN uploads' = Clicks
  BY <1>1, <1>3, DeliveryAssumption DEF Inv, Typed, ClicksTyped, Clicks
<1>6. Gate'
  <2>1. \A r \in Requests : req[r].epoch \in Nat
    BY DEF Inv, Typed, GateTyped
  <2> QED
    BY <1>1, <1>2, <1>3, <2>1 DEF Inv, Gate
<1>7. Answered'
  <2>1. \A r \in Requests : answer[r] # 0 => req[r].epoch # epoch'
    <3>1. \A r \in Requests : req[r].epoch \in Nat
      BY DEF Inv, Typed, GateTyped
    <3>2. \A r \in Requests : answer[r] # 0 => req[r].pc = "deciding" /\ req[r].epoch <= epoch
      BY DEF Inv, Gate
    <3> QED
      BY <1>1, <1>3, <3>1, <3>2
  <2> QED
    BY <1>1, <1>2, <2>1 DEF Inv, Answered, Unused, Untold
<1>8. Approved'
  BY <1>1 DEF Approved
<1>9. Sending'
  <2>1. \A s \in Sends : Under(s) => send[s].approval.epoch \in Nat
    BY DEF Inv, Typed, SendTyped, Sending, Approval
  <2>2. \A s \in Sends : Under(s) => send[s].approval.epoch <= epoch /\ send[s].approval.epoch # epoch'
                                     /\ send[s].approval.epoch <= epoch'
    BY <1>1, <1>3, <2>1 DEF Inv, Sending
  <2> QED
    BY <1>1, <1>2, <2>2 DEF Inv, Sending, Under, Unused, Untold
<1>10. Chained' /\ ReportTruthful'
  BY <1>1 DEF Inv, Chained, Under, ReportTruthful
<1>11. Kept'
  BY <1>1 DEF Inv, Kept
<1>12. Counted'
  <2>1. delivered \in Nat /\ delivered' <= delivered /\ TurnLimit \in Nat /\ delivered' \in Nat
    BY DeliveryAssumption DEF Inv, Typed, SendTyped
  <2> QED
    BY <1>1, <2>1 DEF Inv, Counted, Under, Reserved, Uploaded
<1> QED
  BY <1>1, <1>2, <1>3, <1>4, <1>5, <1>6, <1>7, <1>8, <1>9, <1>10, <1>11, <1>12

LEMMA FencedKeeps ==
    ASSUME Inv,
           \/ BeginTurn \/ Stop \/ YoloOn \/ Teardown \/ SuspendFileDelivery
    PROVE  Inv'
<1>1. PICK also \in SUBSET pending :
         /\ ClearFileDeliveryApprovals(also) /\ delivered' \in {delivered, 0}
         /\ UNCHANGED <<chain, send, mirror, durable, file, restarts>>
  <2>1. {} \in SUBSET pending /\ pending \in SUBSET pending
    OBVIOUS
  <2> QED
    BY <2>1 DEF BeginTurn, Stop, YoloOn, Teardown, SuspendFileDelivery, sendVars
<1>2. /\ epoch' \in 0..MaxEpoch /\ owner' = None /\ nonce' = None /\ pending' = {}
      /\ UNCHANGED <<req, card, answer>>
      /\ SendTyped' /\ ClicksTyped' /\ chain' \in Seq(Sends) /\ DOMAIN uploads' = Clicks
      /\ Gate' /\ Answered' /\ Approved' /\ Sending' /\ Chained' /\ Kept' /\ Counted'
      /\ ReportTruthful'
  BY <1>1, ClearKeeps
<1>3. \/ fence' = fence /\ fences' = fences /\ suspended' = suspended
      \/ fence < MaxFences /\ fence' = fence + 1 /\ fences' = fences \cup {fence + 1} /\ suspended' = TRUE
  BY DEF BeginTurn, Stop, YoloOn, Teardown, SuspendFileDelivery
<1>4. fence' \in 0..MaxFences /\ fences' \subseteq 1..fence'
  BY <1>3, DeliveryAssumption DEF Inv, Typed, GateTyped
<1>5. GateTyped'
  BY <1>1, <1>2, <1>4 DEF Inv, Typed, GateTyped
<1>6. FenceHolds'
  <2>1. CASE fence' = fence /\ fences' = fences /\ suspended' = suspended
    BY <2>1 DEF Inv, FenceHolds
  <2>2. CASE suspended' = TRUE
    BY <2>2 DEF FenceHolds
  <2> QED
    BY <1>3, <2>1, <2>2
<1> QED
  BY <1>2, <1>5, <1>6 DEF Inv, Typed

\* Only the rollback of the latest rebind lifts the fence.
LEMMA ResumeKeeps ==
    ASSUME Inv, NEW f \in fences, ResumeFileDeliveryIfCurrent(f) PROVE Inv'
<1>1. /\ fences' = fences \ {f} /\ suspended' = (suspended /\ ~(f = fence /\ active))
      /\ UNCHANGED <<fence, epoch, owner, nonce, req, card, pending, answer, approvals, chain, send,
                     delivered, mirror, durable, file, clicks, shown, stale, uploads, visible,
                     told, restarts>>
  BY DEF ResumeFileDeliveryIfCurrent, gateVars, sendVars, ghostVars
<1>2. FenceHolds'
  BY <1>1 DEF Inv, FenceHolds
<1>3. Typed'
  BY <1>1 DEF Inv, Typed, GateTyped, SendTyped, ClicksTyped
<1>4. Gate' /\ Answered' /\ Approved' /\ Sending' /\ Chained' /\ Kept' /\ Counted' /\ ReportTruthful'
  BY <1>1 DEF Inv, Gate, Answered, Approved, Sending, Chained, Kept, Counted, ReportTruthful,
     Under, Reserved, Uploaded, Unused, Untold
<1> QED
  BY <1>2, <1>3, <1>4 DEF Inv

\* The end of an abort, YOLO off and an edit are no concern of the approvals.
LEMMA AsideKeeps ==
    ASSUME Inv, Idle \/ YoloOff \/ Edit PROVE Inv'
<1>1. /\ UNCHANGED <<suspended, fence, fences, epoch, owner, nonce, req, card, pending, answer,
                     approvals, chain, send, delivered, mirror, durable, clicks, shown, stale,
                     uploads, visible, told, restarts>>
      /\ file' = file \/ (file < MaxEdits /\ file' = file + 1)
  BY DEF Idle, YoloOff, Edit, gateVars, sendVars, ghostVars, fenceVars
<1>2. file' \in Contents
  BY <1>1, DeliveryAssumption DEF Inv, Typed, SendTyped, Contents
<1>3. Typed'
  BY <1>1, <1>2 DEF Inv, Typed, GateTyped, SendTyped, ClicksTyped
<1>4. Gate' /\ Answered' /\ Approved' /\ Sending' /\ Chained' /\ Kept' /\ Counted' /\ ReportTruthful'
      /\ FenceHolds'
  BY <1>1 DEF Inv, Gate, Answered, Approved, Sending, Chained, Kept, Counted, ReportTruthful,
     Under, Reserved, Uploaded, Unused, Untold, FenceHolds
<1> QED
  BY <1>3, <1>4 DEF Inv

\* A crash: only the store survives, and what Discord does with an upload that was
\* on its way nobody will be told.
LEMMA CrashKeeps ==
    ASSUME Inv, Crash PROVE Inv'
<1>1. /\ restarts < MaxRestarts /\ restarts' = restarts + 1
      /\ suspended' = FALSE /\ fence' = 0 /\ fences' = {} /\ epoch' = 0
      /\ owner' = None /\ nonce' = None /\ pending' = {}
      /\ req' = [r \in Requests |-> NoRequest]
      /\ card' = [r \in Requests |-> "none"]
      /\ answer' = [r \in Requests |-> 0]
      /\ approvals' = [c \in Calls |-> None]
      /\ send' = [s \in Sends |-> NoSend]
      /\ chain' = <<>> /\ delivered' = 0 /\ mirror' = durable /\ stale' = 1..clicks
      /\ UNCHANGED <<durable, file, clicks, shown, uploads, told>>
  BY DEF Crash
<1>2. PICK arrived \in SUBSET InFlight : visible' = visible \cup arrived
  BY DEF Crash
<1>3. \A k \in arrived : k \in Clicks /\ k \in 1..clicks /\ told[k] = "nothing"
  <2>1. ASSUME NEW k \in arrived PROVE k \in Clicks /\ k \in 1..clicks /\ told[k] = "nothing"
    <3>1. PICK s \in Sends : send[s].pc = "uploading" /\ k = send[s].approval.click
      BY DEF InFlight
    <3>2. Untold(k)
      BY <3>1 DEF Inv, Sending, Under
    <3>3. k \in Clicks
      BY <3>2, DeliveryAssumption DEF Untold, Inv, Typed, ClicksTyped, Clicks
    <3> QED
      BY <3>2, <3>3 DEF Untold
  <2> QED
    BY <2>1
<1>4. Typed'
  <2>1. NoSend \in [pc : {"idle", "waiting", "resolving", "sealing", "fetching",
                          "uploading", "accepted", "retracting"},
                    call : Calls \cup {None}, approval : Approval \cup {None},
                    bytes : Contents, base : 0..Quota]
    BY DeliveryAssumption DEF NoSend, Contents
  <2>2. NoRequest \in [pc : {"idle", "validating", "deciding"}, call : Calls \cup {None},
                       epoch : 0..MaxEpoch, content : Contents]
    BY DeliveryAssumption DEF NoRequest, Contents
  <2> HIDE DEF NoSend, NoRequest
  <2>3. chain' \in Seq(Sends) /\ \A i \in DOMAIN chain' : chain'[i] \in Sends
    BY <1>1, EmptyIs
  <2>4. GateTyped'
    BY <1>1, <2>2, DeliveryAssumption DEF Inv, Typed, GateTyped
  <2>5. SendTyped'
    BY <1>1, <2>1, <2>3, DeliveryAssumption DEF Inv, Typed, SendTyped
  <2>6. ClicksTyped' /\ DOMAIN uploads' = Clicks
    <3>1. visible' \subseteq Clicks
      BY <1>2, <1>3 DEF Inv, Typed, ClicksTyped
    <3>2. stale' \subseteq Clicks
      BY <1>1, DeliveryAssumption DEF Inv, Typed, ClicksTyped, Clicks
    <3> QED
      BY <1>1, <3>1, <3>2 DEF Inv, Typed, ClicksTyped
  <2> QED
    BY <2>3, <2>4, <2>5, <2>6 DEF Typed
<1>5. Gate' /\ Answered' /\ Approved' /\ FenceHolds'
  BY <1>1 DEF Gate, Answered, Approved, FenceHolds, NoRequest
<1>6. Sending' /\ Chained'
  BY <1>1 DEF Sending, Chained, Under, NoSend
<1>7. Kept'
  <2>1. clicks \in Nat /\ Clicks \subseteq Nat
    BY DEF Inv, Typed, ClicksTyped, Clicks
  <2>2. ASSUME NEW k \in Clicks, k > clicks PROVE k \notin visible'
    <3>1. k \notin visible
      BY <2>2 DEF Inv, Kept
    <3>2. k \notin arrived
      <4>1. k \in Nat /\ k \notin 1..clicks
        BY <2>1, <2>2
      <4> QED
        BY <1>3, <4>1
    <3> QED
      BY <1>2, <3>1, <3>2
  <2> QED
    BY <1>1, <2>2 DEF Inv, Kept
<1>8. ReportTruthful'
  BY <1>1, <1>2, <1>3 DEF Inv, ReportTruthful
<1>9. Counted'
  <2>1. Uploaded' = Uploaded /\ ~Reserved'
    BY <1>1 DEF Uploaded, Reserved, NoSend
  <2>2. Cardinality(Uploaded) \in Nat /\ Cardinality(Uploaded) <= durable
    BY PaidIs
  <2>3. \A s \in Sends : send'[s].pc = "idle"
    BY <1>1 DEF NoSend
  <2>4. Cardinality(Uploaded') + (IF Reserved' THEN 1 ELSE 0) <= durable'
    BY <1>1, <2>1, <2>2
  <2> QED
    BY <2>3, <2>4 DEF Counted, Under
<1> QED
  BY <1>4, <1>5, <1>6, <1>7, <1>8, <1>9 DEF Inv

-----------------------------------------------------------------------------
(* A permission request, and its card.                                      *)

LEMMA AskKeeps ==
    ASSUME Inv, NEW r \in Requests, NEW c \in Calls, Ask(r, c) PROVE Inv'
<1>1. /\ req[r].pc = "idle" /\ owner = None /\ owner' = r
      /\ approvals' = [approvals EXCEPT ![c] = None]
      /\ req' = [req EXCEPT ![r] = [pc |-> "validating", call |-> c, epoch |-> epoch, content |-> 0]]
      /\ UNCHANGED <<fence, fences, suspended, epoch, nonce, card, pending, answer, chain,
                     send, delivered, mirror, durable, file, clicks, shown, stale,
                     uploads, visible, told, restarts>>
  BY DEF Ask, fenceVars, sendVars, ghostVars
<1>2. /\ req'[r] = [pc |-> "validating", call |-> c, epoch |-> epoch, content |-> 0]
      /\ \A q \in Requests \ {r} : req'[q] = req[q]
      /\ req' \in [Requests -> [pc : {"idle", "validating", "deciding"}, call : Calls \cup {None},
                                epoch : 0..MaxEpoch, content : Contents]]
  BY <1>1, DeliveryAssumption DEF Inv, Typed, GateTyped, Contents
<1>3. pending = {} /\ answer[r] = 0
  BY <1>1, DeliveryAssumption DEF Inv, Typed, GateTyped, Gate
<1>4. approvals'[c] = None /\ \A d \in Calls \ {c} : approvals'[d] = approvals[d]
  BY <1>1 DEF Inv, Typed, SendTyped
<1>10. SendTyped' /\ chain' \in Seq(Sends) /\ DOMAIN uploads' = Clicks
  BY <1>1 DEF Inv, Typed, SendTyped
<1>11. GateTyped'
  BY <1>1, <1>2 DEF Inv, Typed, GateTyped
<1>12. ClicksTyped'
  BY <1>1 DEF Inv, Typed, ClicksTyped
<1>13. Gate'
  <2>1. epoch <= epoch
    BY DEF Inv, Typed, GateTyped
  <2> QED
    BY <1>1, <1>2, <1>3, <2>1 DEF Inv, Gate
<1>14. Answered'
  BY <1>1, <1>2, <1>3 DEF Inv, Answered, Unused, Untold
<1>15. Approved'
  BY <1>1, <1>4 DEF Inv, Approved, Unused, Untold
<1>16. Sending'
  BY <1>1, <1>4 DEF Inv, Sending, Under, Unused, Untold
<1>17. Chained' /\ Kept' /\ Counted' /\ ReportTruthful' /\ FenceHolds'
  BY <1>1 DEF Inv, Chained, Kept, Counted, Under, Reserved, Uploaded, ReportTruthful, FenceHolds
<1> QED
  BY <1>10, <1>11, <1>12, <1>13, <1>14, <1>15, <1>16, <1>17 DEF Inv, Typed

\* Who validates holds the gate, so there is no other card that could be clicked.
LEMMA ValidatedKeeps ==
    ASSUME Inv, NEW r \in Requests, Validated(r) PROVE Inv'
<1>1. /\ req[r].pc = "validating" /\ owner = r /\ req[r].epoch = epoch
      /\ req' = [req EXCEPT ![r].pc = "deciding", ![r].content = file]
      /\ pending' = pending \cup {r} /\ nonce' = r
      /\ card' = [card EXCEPT ![r] = "flushing"]
      /\ UNCHANGED <<fence, fences, suspended, epoch, owner, answer, approvals, chain,
                     send, delivered, mirror, durable, file, clicks, shown, stale,
                     uploads, visible, told, restarts>>
  BY DEF Validated, fenceVars, sendVars, ghostVars, RequestIsCurrent
<1>2. /\ req'[r].pc = "deciding" /\ req'[r].epoch = epoch
      /\ \A q \in Requests \ {r} : req'[q] = req[q]
      /\ req' \in [Requests -> [pc : {"idle", "validating", "deciding"}, call : Calls \cup {None},
                                epoch : 0..MaxEpoch, content : Contents]]
  <2>1. file \in Contents
    BY DEF Inv, Typed, SendTyped
  <2>2. req[r] \in [pc : {"idle", "validating", "deciding"}, call : Calls \cup {None},
                    epoch : 0..MaxEpoch, content : Contents]
    BY DEF Inv, Typed, GateTyped
  <2>3. [req[r] EXCEPT !.pc = "deciding", !.content = file]
          \in [pc : {"idle", "validating", "deciding"}, call : Calls \cup {None},
               epoch : 0..MaxEpoch, content : Contents]
    BY <2>1, <2>2
  <2>4. req' = [req EXCEPT ![r] = [req[r] EXCEPT !.pc = "deciding", !.content = file]]
    BY <1>1
  <2> QED
    BY <1>1, <2>2, <2>3, <2>4 DEF Inv, Typed, GateTyped
<1>3. pending \subseteq {r} /\ answer[r] = 0
  BY <1>1 DEF Inv, Gate
<1>10. SendTyped' /\ chain' \in Seq(Sends) /\ DOMAIN uploads' = Clicks
  BY <1>1 DEF Inv, Typed, SendTyped
<1>11. GateTyped'
  BY <1>1, <1>2 DEF Inv, Typed, GateTyped
<1>12. ClicksTyped'
  BY <1>1 DEF Inv, Typed, ClicksTyped
<1>13. Gate'
  <2>1. epoch <= epoch
    BY DEF Inv, Typed, GateTyped
  <2> QED
    BY <1>1, <1>2, <1>3, <2>1 DEF Inv, Gate
<1>14. Answered'
  BY <1>1, <1>2, <1>3 DEF Inv, Answered, Unused, Untold
<1>15. Approved'
  BY <1>1 DEF Inv, Approved, Unused, Untold
<1>16. Sending'
  BY <1>1 DEF Inv, Sending, Under, Unused, Untold
<1>17. Chained' /\ Kept' /\ Counted' /\ ReportTruthful' /\ FenceHolds'
  BY <1>1 DEF Inv, Chained, Kept, Counted, Under, Reserved, Uploaded, ReportTruthful, FenceHolds
<1> QED
  BY <1>10, <1>11, <1>12, <1>13, <1>14, <1>15, <1>16, <1>17 DEF Inv, Typed

LEMMA NotValidatedKeeps ==
    ASSUME Inv, NEW r \in Requests, NotValidated(r) PROVE Inv'
<1>1. /\ req[r].pc = "validating"
      /\ req' = [req EXCEPT ![r] = NoRequest] /\ answer' = [answer EXCEPT ![r] = 0]
      /\ owner' \in {owner, None} /\ (owner # r => owner' = owner)
      /\ UNCHANGED <<fence, fences, suspended, epoch, nonce, card, pending, approvals,
                     chain, send, delivered, mirror, durable, file, clicks, shown, stale,
                     uploads, visible, told, restarts>>
  BY DEF NotValidated, fenceVars, sendVars, ghostVars, EndRequest, ReleaseGate
<1>2. /\ req'[r] = NoRequest /\ answer'[r] = 0
      /\ \A q \in Requests \ {r} : req'[q] = req[q] /\ answer'[q] = answer[q]
      /\ req' \in [Requests -> [pc : {"idle", "validating", "deciding"}, call : Calls \cup {None},
                                epoch : 0..MaxEpoch, content : Contents]]
      /\ answer' \in [Requests -> 0..MaxClicks]
  <2>1. NoRequest \in [pc : {"idle", "validating", "deciding"}, call : Calls \cup {None},
                       epoch : 0..MaxEpoch, content : Contents]
    BY DeliveryAssumption DEF NoRequest, Contents
  <2> HIDE DEF NoRequest
  <2> QED
    BY <1>1, <2>1, DeliveryAssumption DEF Inv, Typed, GateTyped
<1>3. NoRequest.pc = "idle"
  BY DEF NoRequest
<1>10. SendTyped' /\ chain' \in Seq(Sends) /\ DOMAIN uploads' = Clicks
  BY <1>1 DEF Inv, Typed, SendTyped
<1>11. GateTyped'
  BY <1>1, <1>2 DEF Inv, Typed, GateTyped
<1>12. ClicksTyped'
  BY <1>1 DEF Inv, Typed, ClicksTyped
<1>13. Gate'
  BY <1>1, <1>2, <1>3 DEF Inv, Gate
<1>14. Answered'
  BY <1>1, <1>2, <1>3 DEF Inv, Answered, Unused, Untold
<1>15. Approved'
  BY <1>1, <1>2 DEF Inv, Approved, Unused, Untold
<1>16. Sending'
  BY <1>1, <1>2 DEF Inv, Sending, Under, Unused, Untold
<1>17. Chained' /\ Kept' /\ Counted' /\ ReportTruthful' /\ FenceHolds'
  BY <1>1 DEF Inv, Chained, Kept, Counted, Under, Reserved, Uploaded, ReportTruthful, FenceHolds
<1> QED
  BY <1>10, <1>11, <1>12, <1>13, <1>14, <1>15, <1>16, <1>17 DEF Inv, Typed

\* A card that fails, a denial and the broker's timer settle the same way: with no.
LEMMA DeniedKeeps ==
    ASSUME Inv, NEW r \in Requests,
           \/ CardFlushed(r) \/ \E ok \in BOOLEAN : CardPosted(r, ok) \/ DenyOrTimeout(r)
    PROVE  Inv'
<1>1. PICK rs \in {{}, {r}} : Deny(rs) \/ UNCHANGED <<pending, answer>>
  BY DEF CardFlushed, CardPosted, DenyOrTimeout
<1>2. pending' \subseteq pending /\ answer' = answer
  BY <1>1, DenyIs DEF Inv
<1>3. /\ card' \in [Requests -> {"none", "flushing", "posting"}]
      /\ UNCHANGED <<fence, fences, suspended, epoch, owner, nonce, req, approvals, chain,
                     send, delivered, mirror, durable, file, clicks, shown, stale,
                     uploads, visible, told, restarts>>
  BY DEF CardFlushed, CardPosted, DenyOrTimeout, fenceVars, sendVars, ghostVars, Inv, Typed, GateTyped
<1>4. Typed'
  BY <1>2, <1>3 DEF Inv, Typed, GateTyped, SendTyped, ClicksTyped
<1>5. Gate'
  BY <1>2, <1>3 DEF Inv, Gate
<1>6. Answered' /\ Approved' /\ Sending' /\ Chained'
  BY <1>2, <1>3 DEF Inv, Answered, Approved, Sending, Chained, Under, Unused, Untold
<1>7. Kept' /\ Counted' /\ ReportTruthful' /\ FenceHolds'
  BY <1>3 DEF Inv, Kept, Counted, Under, Reserved, Uploaded, ReportTruthful, FenceHolds
<1> QED
  BY <1>4, <1>5, <1>6, <1>7 DEF Inv

\* A new click is nobody else's, and no boundary has overtaken it.
LEMMA AllowKeeps ==
    ASSUME Inv, NEW r \in Requests, Allow(r) PROVE Inv'
<1>1. /\ r \in pending /\ clicks < MaxClicks /\ clicks' = clicks + 1
      /\ shown' = [shown EXCEPT ![clicks'] = req[r].content]
      /\ pending' = pending \ {r} /\ answer' = [answer EXCEPT ![r] = clicks']
      /\ UNCHANGED <<fence, fences, suspended, epoch, owner, nonce, req, card, approvals,
                     chain, send, delivered, mirror, durable, file, stale, uploads,
                     visible, told, restarts>>
  BY DEF Allow, fenceVars, sendVars, ghostVars
<1>2. clicks \in Nat /\ clicks' \in Clicks /\ clicks' \in 0..MaxClicks /\ clicks' # 0
  BY <1>1, DeliveryAssumption DEF Inv, Typed, ClicksTyped, Clicks
<1>3. /\ answer'[r] = clicks' /\ \A q \in Requests \ {r} : answer'[q] = answer[q]
      /\ answer' \in [Requests -> 0..MaxClicks] /\ req[r].content \in Contents
  BY <1>1, <1>2 DEF Inv, Typed, GateTyped
<1>4. /\ shown'[clicks'] = req[r].content
      /\ \A k \in Clicks : k # clicks' => shown'[k] = shown[k]
      /\ shown' \in [Clicks -> Contents]
  BY <1>1, <1>2, <1>3 DEF Inv, Typed, ClicksTyped
<1>5. \A k : k \in 1..clicks => k \in Clicks /\ k \in 1..clicks' /\ k # clicks'
  BY <1>1, <1>2, DeliveryAssumption DEF Clicks
<1>6. clicks' \in 1..clicks' /\ clicks' > clicks /\ clicks' \notin 1..clicks
  BY <1>1, <1>2
<1>7. /\ told[clicks'] = "nothing" /\ clicks' \notin visible /\ uploads[clicks'] = <<>>
      /\ clicks' \notin stale
  BY <1>1, <1>2, <1>6 DEF Inv, Kept
<1>8. \A k : Untold(k) => /\ k \in 1..clicks' /\ told[k] = "nothing"
                          /\ k \in Clicks /\ k # clicks' /\ shown'[k] = shown[k]
  BY <1>4, <1>5 DEF Untold
<1>10. SendTyped' /\ chain' \in Seq(Sends) /\ DOMAIN uploads' = Clicks
  BY <1>1 DEF Inv, Typed, SendTyped
<1>11. GateTyped'
  BY <1>1, <1>3 DEF Inv, Typed, GateTyped
<1>12. ClicksTyped'
  BY <1>1, <1>2, <1>4 DEF Inv, Typed, ClicksTyped
<1>13. Gate'
  BY <1>1, <1>3 DEF Inv, Gate
<1>14. Answered'
  <2>1. ASSUME NEW q \in Requests, answer'[q] # 0
        PROVE  /\ answer'[q] \in 1..clicks' /\ told[answer'[q]] = "nothing"
               /\ answer'[q] \notin visible /\ uploads[answer'[q]] = <<>>
               /\ shown'[answer'[q]] = req[q].content
               /\ req[q].epoch = epoch => answer'[q] \notin stale
               /\ \A x \in Requests : answer'[x] = answer'[q] => x = q
    <3>1. CASE q = r
      <4>1. \A x \in Requests \ {r} : answer[x] # clicks'
        BY <1>2, <1>8 DEF Inv, Answered, Unused
      <4> QED
        BY <1>3, <1>4, <1>6, <1>7, <3>1, <4>1
    <3>2. CASE q # r
      <4>1. /\ answer'[q] = answer[q] /\ answer[q] # 0
            /\ Untold(answer[q]) /\ answer[q] \notin visible /\ uploads[answer[q]] = <<>>
            /\ shown[answer[q]] = req[q].content
            /\ req[q].epoch = epoch => answer[q] \notin stale
            /\ \A x \in Requests : answer[x] = answer[q] => x = q
        BY <1>3, <2>1, <3>2 DEF Inv, Answered, Unused
      <4>2. answer[q] # clicks' /\ shown'[answer[q]] = shown[answer[q]]
            /\ answer[q] \in 1..clicks' /\ told[answer[q]] = "nothing"
        BY <1>8, <4>1
      <4> QED
        BY <1>3, <4>1, <4>2
    <3> QED
      BY <3>1, <3>2
  <2> QED
    BY <1>1, <2>1 DEF Answered, Unused, Untold
<1>15. Approved'
  <2>1. ASSUME NEW c \in Calls, approvals[c] # None
        PROVE  /\ approvals[c].click \in 1..clicks' /\ told[approvals[c].click] = "nothing"
               /\ approvals[c].content = shown'[approvals[c].click]
               /\ \A q \in Requests : answer'[q] # approvals[c].click
    BY <1>3, <1>8, <2>1 DEF Inv, Approved, Unused
  <2> QED
    BY <1>1, <2>1 DEF Inv, Approved, Unused, Untold
<1>16. Sending'
  <2>1. ASSUME NEW s \in Sends, Under(s)
        PROVE  /\ send[s].approval.click \in 1..clicks' /\ told[send[s].approval.click] = "nothing"
               /\ send[s].approval.content = shown'[send[s].approval.click]
               /\ \A q \in Requests : answer'[q] # send[s].approval.click
    BY <1>3, <1>8, <2>1 DEF Inv, Sending
  <2> QED
    BY <1>1, <2>1 DEF Inv, Sending, Under, Unused, Untold
<1>17. Chained' /\ Kept' /\ Counted' /\ ReportTruthful' /\ FenceHolds'
  <2>1. Kept'
    <3>1. stale \subseteq 1..clicks'
      BY <1>5 DEF Inv, Kept
    <3>2. \A k \in Clicks : k > clicks' => k > clicks
      BY <1>1, <1>2 DEF Clicks
    <3>3. uploads[clicks'] = <<>>
      BY <1>2, <1>6 DEF Inv, Kept
    <3> QED
      BY <1>1, <1>4, <3>1, <3>2, <3>3 DEF Inv, Kept
  <2> QED
    BY <1>1, <2>1 DEF Inv, Chained, Counted, Under, Reserved, Uploaded, ReportTruthful, FenceHolds
<1> QED
  BY <1>10, <1>11, <1>12, <1>13, <1>14, <1>15, <1>16, <1>17 DEF Inv, Typed

\* The click passes from the request to the call.
LEMMA DecidedKeeps ==
    ASSUME Inv, NEW r \in Requests, Decided(r) PROVE Inv'
<1>1. /\ req[r].pc = "deciding" /\ r \notin pending
      /\ \/ approvals' = approvals
         \/ /\ req[r].epoch = epoch /\ answer[r] # 0
            /\ approvals' = [approvals EXCEPT ![req[r].call] =
                 [content |-> req[r].content, epoch |-> req[r].epoch, click |-> answer[r]]]
      /\ nonce' \in {nonce, None} /\ (nonce # r => nonce' = nonce)
      /\ req' = [req EXCEPT ![r] = NoRequest] /\ answer' = [answer EXCEPT ![r] = 0]
      /\ owner' \in {owner, None} /\ (owner # r => owner' = owner)
      /\ UNCHANGED <<fence, fences, suspended, epoch, card, pending, chain, send,
                     delivered, mirror, durable, file, clicks, shown, stale, uploads,
                     visible, told, restarts>>
  BY DEF Decided, fenceVars, sendVars, ghostVars, EndRequest, ReleaseGate, RequestIsCurrent
<1>2. /\ req'[r] = NoRequest /\ answer'[r] = 0
      /\ \A q \in Requests \ {r} : req'[q] = req[q] /\ answer'[q] = answer[q]
      /\ req' \in [Requests -> [pc : {"idle", "validating", "deciding"}, call : Calls \cup {None},
                                epoch : 0..MaxEpoch, content : Contents]]
      /\ answer' \in [Requests -> 0..MaxClicks]
  <2>1. NoRequest \in [pc : {"idle", "validating", "deciding"}, call : Calls \cup {None},
                       epoch : 0..MaxEpoch, content : Contents]
    BY DeliveryAssumption DEF NoRequest, Contents
  <2> HIDE DEF NoRequest
  <2> QED
    BY <1>1, <2>1, DeliveryAssumption DEF Inv, Typed, GateTyped
<1>3. NoRequest.pc = "idle"
  BY DEF NoRequest
<1>4. \/ approvals' = approvals
      \/ \E c \in Calls \cup {None}, a \in Approval :
           /\ req[r].epoch = epoch /\ answer[r] # 0
           /\ a.content = req[r].content /\ a.epoch = epoch /\ a.click = answer[r]
           /\ c \in Calls => approvals'[c] = a
           /\ \A d \in Calls \ {c} : approvals'[d] = approvals[d]
           /\ approvals' \in [Calls -> Approval \cup {None}]
  <2>1. CASE approvals' = approvals
    BY <2>1
  <2>2. CASE req[r].epoch = epoch /\ answer[r] # 0 /\ approvals' # approvals
    <3> DEFINE a == [content |-> req[r].content, epoch |-> req[r].epoch, click |-> answer[r]]
    <3>1. a \in Approval
      BY <2>2, DeliveryAssumption DEF Inv, Typed, GateTyped, Approval, Clicks
    <3>2. approvals' = [approvals EXCEPT ![req[r].call] = a] /\ req[r].call \in Calls \cup {None}
      BY <1>1, <2>2 DEF Inv, Typed, GateTyped
    <3>3. a.content = req[r].content /\ a.epoch = epoch /\ a.click = answer[r]
      BY <2>2
    <3> HIDE DEF a
    <3>4. approvals' \in [Calls -> Approval \cup {None}]
      BY <3>1, <3>2 DEF Inv, Typed, SendTyped
    <3>5. /\ req[r].call \in Calls => approvals'[req[r].call] = a
          /\ \A d \in Calls \ {req[r].call} : approvals'[d] = approvals[d]
      BY <3>2 DEF Inv, Typed, SendTyped
    <3> QED
      BY <2>2, <3>1, <3>2, <3>3, <3>4, <3>5
  <2> QED
    BY <1>1, <2>1, <2>2
<1>10. SendTyped' /\ chain' \in Seq(Sends) /\ DOMAIN uploads' = Clicks
  BY <1>1, <1>4 DEF Inv, Typed, SendTyped
<1>11. GateTyped'
  BY <1>1, <1>2 DEF Inv, Typed, GateTyped
<1>12. ClicksTyped'
  BY <1>1 DEF Inv, Typed, ClicksTyped
<1>13. Gate'
  BY <1>1, <1>2, <1>3 DEF Inv, Gate
<1>14. Answered'
  BY <1>1, <1>2, <1>3 DEF Inv, Answered, Unused, Untold
<1>15. Approved'
  <2>1. CASE approvals' = approvals
    BY <1>1, <1>2, <2>1 DEF Inv, Approved, Unused, Untold
  <2>2. ASSUME NEW c \in Calls \cup {None}, NEW a \in Approval,
               req[r].epoch = epoch, answer[r] # 0,
               a.content = req[r].content, a.epoch = epoch, a.click = answer[r],
               c \in Calls => approvals'[c] = a,
               \A d \in Calls \ {c} : approvals'[d] = approvals[d]
        PROVE  Approved'
    <3>1. /\ Unused(answer[r]) /\ shown[answer[r]] = req[r].content /\ answer[r] \notin stale
          /\ \A q \in Requests : answer[q] = answer[r] => q = r
      BY <2>2 DEF Inv, Answered
    <3>2. \A d \in Calls : approvals[d] # None => approvals[d].click # a.click
      BY <2>2 DEF Inv, Approved
    <3>3. \A q \in Requests : answer'[q] # a.click
      BY <1>2, <2>2, <3>1
    <3>4. ASSUME NEW d \in Calls, approvals'[d] # None
          PROVE  /\ d = c => approvals'[d] = a
                 /\ d # c => approvals'[d] = approvals[d] /\ approvals[d] # None
      BY <2>2, <3>4
    <3>5. ASSUME NEW d \in Calls, approvals'[d] # None, d = c
          PROVE  /\ Untold(approvals'[d].click) /\ approvals'[d].click \notin visible
                 /\ uploads[approvals'[d].click] = <<>>
                 /\ approvals'[d].content = shown[approvals'[d].click]
                 /\ approvals'[d].epoch = epoch /\ approvals'[d].click \notin stale
                 /\ \A e \in Calls : approvals'[e] # None /\ approvals'[e].click = approvals'[d].click => e = d
                 /\ \A q \in Requests : answer'[q] # approvals'[d].click
      BY <2>2, <3>1, <3>2, <3>3, <3>4, <3>5 DEF Unused
    <3>6. ASSUME NEW d \in Calls, approvals'[d] # None, d # c
          PROVE  /\ Untold(approvals'[d].click) /\ approvals'[d].click \notin visible
                 /\ uploads[approvals'[d].click] = <<>>
                 /\ approvals'[d].content = shown[approvals'[d].click]
                 /\ approvals'[d].epoch = epoch /\ approvals'[d].click \notin stale
                 /\ \A e \in Calls : approvals'[e] # None /\ approvals'[e].click = approvals'[d].click => e = d
                 /\ \A q \in Requests : answer'[q] # approvals'[d].click
      <4>1. /\ approvals'[d] = approvals[d] /\ approvals[d] # None
            /\ Unused(approvals[d].click)
            /\ approvals[d].content = shown[approvals[d].click]
            /\ approvals[d].epoch = epoch /\ approvals[d].click \notin stale
            /\ \A e \in Calls : approvals[e] # None /\ approvals[e].click = approvals[d].click => e = d
            /\ \A q \in Requests : answer[q] # approvals[d].click
            /\ approvals[d].click # 0 /\ approvals[d].click # a.click
        BY <2>2, <3>2, <3>6, DeliveryAssumption DEF Inv, Approved, Unused, Untold
      <4>2. \A e \in Calls : approvals'[e] # None /\ approvals'[e].click = approvals[d].click => e = d
        BY <2>2, <3>4, <4>1
      <4> QED
        BY <1>2, <4>1, <4>2 DEF Unused
    <3> QED
      BY <1>1, <3>5, <3>6 DEF Approved, Unused, Untold
  <2> QED
    BY <1>4, <2>1, <2>2
<1>16. Sending'
  <2>1. ASSUME NEW s \in Sends, Under(s)
        PROVE  /\ \A q \in Requests : answer'[q] # send[s].approval.click
               /\ \A c \in Calls : approvals'[c] # None => approvals'[c].click # send[s].approval.click
    <3>1. /\ \A q \in Requests : answer[q] # send[s].approval.click
          /\ \A c \in Calls : approvals[c] # None => approvals[c].click # send[s].approval.click
          /\ send[s].approval.click # 0
      BY <2>1, DeliveryAssumption DEF Inv, Sending, Untold
    <3> QED
      BY <1>2, <1>4, <3>1
  <2> QED
    BY <1>1, <2>1 DEF Inv, Sending, Under, Unused, Untold
<1>17. Chained' /\ Kept' /\ Counted' /\ ReportTruthful' /\ FenceHolds'
  BY <1>1 DEF Inv, Chained, Kept, Counted, Under, Reserved, Uploaded, ReportTruthful, FenceHolds
<1> QED
  BY <1>10, <1>11, <1>12, <1>13, <1>14, <1>15, <1>16, <1>17 DEF Inv, Typed

-----------------------------------------------------------------------------
(* A delivery.                                                              *)

SendRecord == [pc : {"idle", "waiting", "resolving", "sealing", "fetching",
                     "uploading", "accepted", "retracting"},
               call : Calls \cup {None}, approval : Approval \cup {None},
               bytes : Contents, base : 0..Quota]

\* What a delivery at the head of the chain does is seen by nobody who still has
\* an Allow of his own: it touches its own click at most.
LEMMA OthersKeep ==
    ASSUME Inv, NEW s \in Sends, Under(s),
           UNCHANGED <<fence, fences, suspended, epoch, owner, nonce, req, card, pending, answer,
                       approvals, clicks, shown, stale, restarts>>,
           \A x : x # send[s].approval.click => (x \in visible' <=> x \in visible),
           \A x \in Clicks : x # send[s].approval.click => told'[x] = told[x] /\ uploads'[x] = uploads[x]
    PROVE  GateTyped' /\ Gate' /\ Answered' /\ Approved' /\ FenceHolds'
<1>1. GateTyped' /\ Gate' /\ FenceHolds'
  BY DEF Inv, Typed, GateTyped, Gate, FenceHolds
<1>2. \A x : Untold(x) => x \in Clicks
  BY DeliveryAssumption DEF Inv, Typed, ClicksTyped, Untold, Clicks
<1>3. Answered'
  <2>1. ASSUME NEW r \in Requests, answer[r] # 0
        PROVE  /\ answer[r] \in 1..clicks /\ told'[answer[r]] = "nothing"
               /\ answer[r] \notin visible' /\ uploads'[answer[r]] = <<>>
    <3>1. Unused(answer[r]) /\ answer[r] # send[s].approval.click
      BY <2>1 DEF Inv, Answered, Sending
    <3> QED
      BY <1>2, <3>1 DEF Unused, Untold
  <2> QED
    BY <2>1 DEF Inv, Answered, Unused, Untold
<1>4. Approved'
  <2>1. ASSUME NEW c \in Calls, approvals[c] # None
        PROVE  /\ approvals[c].click \in 1..clicks /\ told'[approvals[c].click] = "nothing"
               /\ approvals[c].click \notin visible' /\ uploads'[approvals[c].click] = <<>>
    <3>1. Unused(approvals[c].click) /\ approvals[c].click # send[s].approval.click
      BY <2>1 DEF Inv, Approved, Sending
    <3> QED
      BY <1>2, <3>1 DEF Unused, Untold
  <2> QED
    BY <2>1 DEF Inv, Approved, Unused, Untold
<1> QED
  BY <1>1, <1>3, <1>4

LEMMA HeadAlone ==
    ASSUME Inv, NEW s \in Sends, Head(chain) = s
    PROVE  \A q \in Sends \ {s} : ~Under(q)
  BY DEF Inv, Chained

\* The delivery answers; it told the truth, and the next one may come to its turn.
LEMMA AnswerKeeps ==
    ASSUME Inv, NEW s \in Sends, Under(s), NEW text \in {"delivered", "cancelled", "failed", "maybe"},
           Answer(s, text),
           UNCHANGED <<fence, fences, suspended, epoch, owner, nonce, req, card, pending, answer,
                       approvals, clicks, shown, stale, restarts, mirror, durable, file, uploads>>,
           delivered' = delivered \/ (delivered < TurnLimit /\ delivered' = delivered + 1),
           visible' \subseteq Clicks,
           \A x : x # send[s].approval.click => (x \in visible' <=> x \in visible),
           text \in {"cancelled", "failed"} => send[s].approval.click \notin visible',
           text = "delivered" => send[s].approval.click \in visible'
    PROVE  Inv'
<1> DEFINE k == send[s].approval.click
<1>1. /\ send' = [send EXCEPT ![s] = NoSend] /\ chain' = Tail(chain)
      /\ told' = [told EXCEPT ![k] = text]
  BY DEF Answer, Inv, Sending
<1>2. Untold(k) /\ k \in Clicks
  BY DeliveryAssumption DEF Inv, Sending, Untold, Typed, ClicksTyped, Clicks
<1>3. /\ send \in [Sends -> SendRecord] /\ NoSend \in SendRecord
      /\ NoSend.pc = "idle" /\ NoSend.approval = None
  BY DeliveryAssumption DEF Inv, Typed, SendTyped, SendRecord, NoSend, Contents
<1> HIDE DEF NoSend
<1>4. send'[s] = NoSend /\ send' \in [Sends -> SendRecord] /\ \A q \in Sends \ {s} : send'[q] = send[q]
  BY <1>1, <1>3
<1>5. Head(chain) = s /\ s \in Range(chain) /\ \A q \in Sends \ {s} : ~Under(q)
  BY HeadAlone DEF Inv, Chained, Under
<1>6. chain # <<>>
  BY <1>5, EmptyIs
<1>7. chain' \in Seq(Sends) /\ Range(chain) \subseteq {s} \cup Range(chain')
  BY <1>1, <1>5, <1>6, HeadAndTail DEF Inv, Typed
<1>8. \A q \in Sends : ~Under(q)'
  BY <1>3, <1>4, <1>5 DEF Under
<1>9. told'[k] = text /\ \A x \in Clicks : x # k => told'[x] = told[x]
  BY <1>1, <1>2 DEF Inv, Typed, ClicksTyped
<1>10. GateTyped' /\ Gate' /\ Answered' /\ Approved' /\ FenceHolds'
  BY <1>9, OthersKeep
<1>11. SendTyped'
  <2>1. \A i \in DOMAIN chain' : chain'[i] \in Sends
    BY <1>7
  <2>2. delivered' \in 0..TurnLimit
    BY DeliveryAssumption DEF Inv, Typed, SendTyped
  <2> QED
    BY <1>4, <2>1, <2>2 DEF Inv, Typed, SendTyped, SendRecord
<1>12. ClicksTyped' /\ DOMAIN uploads' = Clicks
  BY <1>1 DEF Inv, Typed, ClicksTyped
<1>13. Sending'
  BY <1>8 DEF Sending
<1>14. Chained'
  BY <1>3, <1>4, <1>5, <1>7, <1>8 DEF Inv, Chained, Under
<1>15. Kept'
  <2>1. k \in 1..clicks /\ clicks \in Nat
    BY <1>2 DEF Untold, Inv, Typed, ClicksTyped
  <2>2. \A x \in Clicks : x > clicks => x # k
    BY <2>1
  <2> QED
    BY <1>9, <2>2 DEF Inv, Kept
<1>16. Counted'
  <2>1. ~Reserved' /\ Uploaded' = Uploaded
    BY <1>8 DEF Reserved, Uploaded, Under
  <2>2. Cardinality(Uploaded') + (IF Reserved' THEN 1 ELSE 0) <= durable'
    BY <2>1, PaidIs
  <2>3. \A q \in Sends : ~Under(q)' /\ send'[q].pc # "sealing"
    BY <1>8 DEF Under
  <2> QED
    BY <2>2, <2>3 DEF Counted
<1>17. ReportTruthful'
  <2>1. k \in Clicks /\ told[k] = "nothing"
    BY <1>2 DEF Untold
  <2>2. ASSUME NEW x \in Clicks
        PROVE  /\ told'[x] \in {"cancelled", "failed"} => x \notin visible'
               /\ told'[x] = "delivered" => x \in visible'
    <3>1. CASE x = k
      BY <1>9, <3>1
    <3>2. CASE x # k
      BY <1>9, <3>2 DEF Inv, ReportTruthful
    <3> QED
      BY <3>1, <3>2
  <2> QED
    BY <2>2 DEF ReportTruthful
<1> QED
  BY <1>7, <1>10, <1>11, <1>12, <1>13, <1>14, <1>15, <1>16, <1>17 DEF Inv, Typed

\* The delivery goes on to its next await.
LEMMA GoOnKeeps ==
    ASSUME Inv, NEW s \in Sends, Under(s),
           UNCHANGED <<fence, fences, suspended, epoch, owner, nonce, req, card, pending, answer,
                       approvals, clicks, shown, stale, restarts, file, chain, told, delivered>>,
           send' \in [Sends -> SendRecord], \A q \in Sends \ {s} : send'[q] = send[q],
           send'[s].approval = send[s].approval, send'[s].call = send[s].call,
           send'[s].pc \in {"sealing", "fetching", "uploading", "accepted", "retracting"},
           send'[s].pc \in {"sealing", "fetching"} =>
               /\ send'[s].bytes = send[s].approval.content
               /\ send[s].approval.click \notin visible' /\ uploads'[send[s].approval.click] = <<>>,
           send'[s].pc = "uploading" => send[s].approval.click \notin visible',
           send'[s].pc = "accepted" => send[s].approval.click \in visible',
           send'[s].pc = "sealing" => send'[s].base < Quota,
           delivered < TurnLimit,
           DOMAIN uploads' = Clicks,
           uploads'[send[s].approval.click] \in {<<>>, <<shown[send[s].approval.click]>>},
           \A x \in Clicks : x # send[s].approval.click => uploads'[x] = uploads[x],
           visible' \subseteq Clicks,
           \A x : x # send[s].approval.click => (x \in visible' <=> x \in visible),
           mirror' \in 0..Quota /\ durable' \in 0..Quota,
           Cardinality(Uploaded') + (IF Reserved' THEN 1 ELSE 0) <= durable'
    PROVE  Inv'
<1> DEFINE k == send[s].approval.click
<1>1. Untold(k) /\ k \in Clicks /\ clicks \in Nat
  BY DeliveryAssumption DEF Inv, Sending, Untold, Typed, ClicksTyped, Clicks
<1>2. Head(chain) = s /\ \A q \in Sends \ {s} : ~Under(q)
  BY HeadAlone DEF Inv, Chained
<1>3. Under(s)' /\ \A q \in Sends \ {s} : ~Under(q)'
  BY <1>2 DEF Under
<1>4. GateTyped' /\ Gate' /\ Answered' /\ Approved' /\ FenceHolds'
  BY OthersKeep
<1>5. SendTyped' /\ chain' \in Seq(Sends)
  BY DEF Inv, Typed, SendTyped, SendRecord
<1>6. Kept'
  <2>1. \A x \in Clicks : x > clicks => x # k
    BY <1>1 DEF Untold
  <2> QED
    BY <1>1, <2>1 DEF Inv, Kept
<1>7. ClicksTyped'
  <2>1. \A x \in Clicks : Range(uploads'[x]) \subseteq Contents
    <3>1. \A x \in Clicks : shown'[x] \in Contents
      BY DEF Inv, Typed, ClicksTyped
    <3>2. \A x \in Clicks : uploads'[x] = <<>> \/ uploads'[x] = <<shown'[x]>>
      BY <1>6 DEF Kept
    <3>3. ASSUME NEW v \in Contents PROVE Range(<<>>) \subseteq Contents /\ Range(<<v>>) \subseteq Contents
      BY DEF Range
    <3> QED
      BY <3>1, <3>2, <3>3
  <2> QED
    BY <2>1 DEF Inv, Typed, ClicksTyped
<1>8. Sending'
  <2>1. /\ send[s].approval # None /\ Untold(k)
        /\ send[s].approval.content = shown[k]
        /\ send[s].approval.epoch = epoch => k \notin stale
        /\ send[s].approval.epoch <= epoch
        /\ \A r \in Requests : answer[r] # k
        /\ \A c \in Calls : approvals[c] # None => approvals[c].click # k
    BY DEF Inv, Sending
  <2> QED
    BY <1>3, <2>1 DEF Sending, Under, Unused, Untold
<1>9. Chained'
  BY <1>2, <1>3 DEF Inv, Chained, Under
<1>10. Counted'
  <2>1. \A q \in Sends : send'[q].pc = "sealing" => q = s
    BY <1>3 DEF Under
  <2> QED
    BY <2>1 DEF Counted
<1>11. ReportTruthful'
  <2>1. told[k] = "nothing"
    BY <1>1 DEF Untold
  <2> QED
    BY <2>1 DEF Inv, ReportTruthful
<1> QED
  BY <1>4, <1>5, <1>6, <1>7, <1>8, <1>9, <1>10, <1>11 DEF Inv, Typed

\* While the head of the chain is not about to upload, nothing is reserved.
LEMMA ReservedIs ==
    ASSUME Inv, NEW s \in Sends, Under(s)
    PROVE  Reserved <=> send[s].pc = "fetching"
  BY HeadAlone DEF Inv, Chained, Under, Reserved

LEMMA InvokeKeeps ==
    ASSUME Inv, NEW s \in Sends, NEW c \in Calls, Invoke(s, c) PROVE Inv'
<1>1. /\ send[s].pc = "idle" /\ chain' = Append(chain, s)
      /\ send' = [send EXCEPT ![s].pc = "waiting", ![s].call = c]
      /\ UNCHANGED <<suspended, fence, fences, epoch, owner, nonce, req, card, pending, answer,
                     approvals, delivered, mirror, durable, file, clicks, shown, stale, uploads,
                     visible, told, restarts>>
  BY DEF Invoke, fenceVars, gateVars, ghostVars
<1>2. /\ send' \in [Sends -> SendRecord] /\ send'[s].pc = "waiting"
      /\ send'[s].approval = send[s].approval /\ \A q \in Sends \ {s} : send'[q] = send[q]
  BY <1>1 DEF Inv, Typed, SendTyped, SendRecord
<1>3. /\ chain' \in Seq(Sends) /\ Range(chain') = Range(chain) \cup {s}
      /\ chain # <<>> => Head(chain') = Head(chain)
  BY <1>1, AppendIs DEF Inv, Typed
<1>4. \A i \in DOMAIN chain' : chain'[i] \in Sends
  BY <1>3
<1>5. Typed'
  <2>1. UNCHANGED <<suspended, fence, fences, epoch, owner, nonce, req, card, pending, answer,
                    approvals, delivered, mirror, durable, file, clicks, shown, stale, uploads,
                    visible, told, restarts>>
    BY <1>1
  <2>2. GateTyped' /\ ClicksTyped' /\ DOMAIN uploads' = Clicks
    BY <2>1 DEF Inv, Typed, GateTyped, ClicksTyped
  <2>3. SendTyped'
    BY <1>2, <1>4, <2>1 DEF Inv, Typed, SendTyped, SendRecord
  <2> QED
    BY <1>3, <2>2, <2>3 DEF Typed
<1>6. Gate' /\ Answered' /\ Approved' /\ Kept' /\ ReportTruthful' /\ FenceHolds'
  BY <1>1 DEF Inv, Gate, Answered, Approved, Kept, ReportTruthful, FenceHolds, Unused, Untold
<1>7. \A q \in Sends : /\ Under(q)' <=> Under(q)
                       /\ Under(q) => send'[q] = send[q]
  BY <1>1, <1>2 DEF Under
<1>8. Sending'
  <2>1. UNCHANGED <<epoch, answer, approvals, clicks, shown, stale, uploads, visible, told>>
    BY <1>1
  <2> QED
    BY <1>7, <2>1 DEF Inv, Sending, Under, Unused, Untold
<1>9. Chained'
  <2>1. \A q \in Sends : Under(q) => chain # <<>>
    BY EmptyIs DEF Inv, Chained, Under
  <2> QED
    BY <1>1, <1>2, <1>3, <1>7, <2>1 DEF Inv, Chained, Under
<1>10. Counted'
  BY <1>1, <1>2, <1>7 DEF Inv, Counted, Under, Reserved, Uploaded
<1> QED
  BY <1>5, <1>6, <1>8, <1>9, <1>10 DEF Inv

\* The approval passes from the call to the delivery, before any await.
LEMMA StartKeeps ==
    ASSUME Inv, NEW s \in Sends, Start(s) PROVE Inv'
<1> DEFINE c == send[s].call
           a == approvals[c]
<1>1. /\ send[s].pc = "waiting" /\ Head(chain) = s
      /\ approvals' = [approvals EXCEPT ![c] = None]
      /\ IF a # None /\ IsCurrent(a)
         THEN /\ send' = [send EXCEPT ![s].pc = "resolving", ![s].approval = a]
              /\ UNCHANGED <<chain, told>>
         ELSE Answer(s, "failed")
      /\ UNCHANGED <<suspended, fence, fences, epoch, owner, nonce, req, card, pending, answer,
                     delivered, mirror, durable, file, clicks, shown, stale, uploads,
                     visible, restarts>>
  BY DEF Start, fenceVars, gateVars
<1>2. send[s].approval = None /\ s \in Range(chain) /\ chain # <<>>
  BY <1>1, EmptyIs DEF Inv, Chained, Under
<1>3. \A q \in Sends \ {s} : ~Under(q)
  BY <1>1, HeadAlone
<1>4. /\ approvals' \in [Calls -> Approval \cup {None}]
      /\ \A d \in Calls : approvals'[d] = approvals[d] \/ approvals'[d] = None
      /\ c \in Calls => approvals'[c] = None
  BY <1>1 DEF Inv, Typed, SendTyped
<1>5. /\ send \in [Sends -> SendRecord] /\ NoSend \in SendRecord
      /\ NoSend.pc = "idle" /\ NoSend.approval = None
  BY DeliveryAssumption DEF Inv, Typed, SendTyped, SendRecord, NoSend, Contents
<1> HIDE DEF NoSend
<1>6. CASE ~(a # None /\ IsCurrent(a))
  <2>1. send' = [send EXCEPT ![s] = NoSend] /\ chain' = Tail(chain) /\ told' = told
    BY <1>1, <1>2, <1>6 DEF Answer
  <2>2. send'[s] = NoSend /\ send' \in [Sends -> SendRecord] /\ \A q \in Sends \ {s} : send'[q] = send[q]
    BY <1>5, <2>1
  <2>3. chain' \in Seq(Sends) /\ Range(chain) \subseteq {s} \cup Range(chain')
    BY <1>1, <1>2, <2>1, HeadAndTail DEF Inv, Typed
  <2>4. \A i \in DOMAIN chain' : chain'[i] \in Sends
    BY <2>3
  <2>5. \A q \in Sends : ~Under(q)'
    BY <1>3, <1>5, <2>2 DEF Under
  <2>6. SendTyped'
    BY <1>1, <1>4, <2>2, <2>4 DEF Inv, Typed, SendTyped, SendRecord
  <2>7. Typed'
    BY <1>1, <2>1, <2>3, <2>6 DEF Inv, Typed, GateTyped, ClicksTyped
  <2>8. Gate' /\ Answered' /\ Approved' /\ Kept' /\ ReportTruthful' /\ FenceHolds'
    BY <1>1, <1>4, <2>1 DEF Inv, Gate, Answered, Approved, Kept, ReportTruthful, FenceHolds,
       Unused, Untold
  <2>9. Sending' /\ Chained'
    BY <1>3, <1>5, <2>2, <2>3, <2>5 DEF Inv, Sending, Chained, Under
  <2>10. Counted'
    <3>1. ~Reserved' /\ Uploaded' = Uploaded
      BY <1>1, <2>5 DEF Reserved, Uploaded, Under
    <3>2. Cardinality(Uploaded') + (IF Reserved' THEN 1 ELSE 0) <= durable'
      BY <1>1, <3>1, PaidIs
    <3>3. \A q \in Sends : ~Under(q)' /\ send'[q].pc # "sealing"
      BY <2>5 DEF Under
    <3> QED
      BY <3>2, <3>3 DEF Counted
  <2> QED
    BY <2>7, <2>8, <2>9, <2>10 DEF Inv
<1>7. CASE a # None /\ IsCurrent(a)
  <2>1. /\ send' = [send EXCEPT ![s].pc = "resolving", ![s].approval = a]
        /\ UNCHANGED <<chain, told>>
    BY <1>1, <1>7
  <2>2. c \in Calls
    BY <1>1 DEF Inv, Chained
  <2>3. PICK w \in Approval :
           /\ w = a /\ w # None /\ w.epoch = epoch
           /\ Unused(w.click) /\ w.content = shown[w.click] /\ w.click \notin stale
           /\ \A d \in Calls : approvals[d] # None /\ approvals[d].click = w.click => d = c
           /\ \A r \in Requests : answer[r] # w.click
    BY <1>7, <2>2 DEF Inv, Typed, SendTyped, Approved, IsCurrent
  <2>4. /\ send' \in [Sends -> SendRecord] /\ \A q \in Sends \ {s} : send'[q] = send[q]
        /\ send'[s].pc = "resolving" /\ send'[s].approval = w /\ send'[s].call = c
    <3>1. send' = [send EXCEPT ![s] = [send[s] EXCEPT !.pc = "resolving", !.approval = w]]
      BY <1>5, <2>1, <2>3
    <3>2. PICK v : v = [send[s] EXCEPT !.pc = "resolving", !.approval = w]
      OBVIOUS
    <3>3. /\ v \in SendRecord /\ v.pc = "resolving" /\ v.approval = w /\ v.call = send[s].call
      BY <1>5, <3>2 DEF SendRecord
    <3> QED
      BY <1>5, <3>1, <3>2, <3>3
  <2>5. Under(s)' /\ \A q \in Sends \ {s} : ~Under(q)'
    BY <1>3, <2>4 DEF Under
  <2>6. \A d \in Calls : approvals'[d] # None => d # c /\ approvals'[d] = approvals[d]
    BY <1>4, <2>2
  <2>7. SendTyped'
    BY <1>1, <1>4, <2>1, <2>4 DEF Inv, Typed, SendTyped, SendRecord
  <2>8. Typed'
    BY <1>1, <2>1, <2>7 DEF Inv, Typed, GateTyped, ClicksTyped
  <2>9. Gate' /\ Answered' /\ Approved' /\ Kept' /\ ReportTruthful' /\ FenceHolds'
    BY <1>1, <2>1, <2>6 DEF Inv, Gate, Answered, Approved, Kept, ReportTruthful, FenceHolds,
       Unused, Untold
  <2>10. Sending'
    <3>1. \A d \in Calls : approvals'[d] # None => approvals'[d].click # w.click
      BY <2>3, <2>6
    <3>2. w.epoch = epoch' /\ epoch' \in Int
      BY <1>1, <2>3 DEF Inv, Typed, GateTyped
    <3>3. UNCHANGED <<clicks, shown, stale, uploads, visible, told, answer>>
      BY <1>1, <2>1
    <3>4. /\ w.click \in 1..clicks' /\ told'[w.click] = "nothing" /\ w.click \notin visible'
          /\ uploads'[w.click] = <<>> /\ w.click \notin stale' /\ w.content = shown'[w.click]
          /\ \A r \in Requests : answer'[r] # w.click
      BY <2>3, <3>3 DEF Unused, Untold
    <3> QED
      BY <2>3, <2>4, <2>5, <3>1, <3>2, <3>4 DEF Sending, Under, Unused, Untold
  <2>11. Chained'
    BY <1>1, <1>2, <2>1, <2>2, <2>4, <2>5 DEF Inv, Chained, Under
  <2>12. Counted'
    <3>1. ~Reserved' /\ Uploaded' = Uploaded
      BY <1>1, <1>3, <2>4 DEF Reserved, Uploaded, Under
    <3>2. Cardinality(Uploaded') + (IF Reserved' THEN 1 ELSE 0) <= durable'
      BY <1>1, <3>1, PaidIs
    <3>3. \A q \in Sends : (Under(q)' => send'[q].pc = "resolving") /\ send'[q].pc # "sealing"
      BY <2>4, <2>5 DEF Under
    <3> QED
      BY <3>2, <3>3 DEF Counted
  <2> QED
    BY <2>8, <2>9, <2>10, <2>11, <2>12 DEF Inv
<1> QED
  BY <1>6, <1>7

\* What a delivery is while it holds the approval it has consumed.
LEMMA UnderIs ==
    ASSUME Inv, NEW s \in Sends, Under(s)
    PROVE  /\ send \in [Sends -> SendRecord] /\ send[s].approval \in Approval
           /\ send[s].approval # None /\ send[s].approval.click \in 1..clicks
           /\ send[s].approval.click \in Clicks /\ told[send[s].approval.click] = "nothing"
           /\ send[s].call \in Calls
<1>1. send \in [Sends -> SendRecord] /\ send[s].approval # None /\ Untold(send[s].approval.click)
  BY DEF Inv, Typed, SendTyped, SendRecord, Sending
<1>2. send[s].approval \in Approval
  BY <1>1 DEF SendRecord
<1>3. send[s].call \in Calls
  BY DEF Inv, Chained, Under
<1> QED
  BY <1>1, <1>2, <1>3 DEF Untold, Approval

\* A delivery that ends before anything was uploaded, or by a refusal, tells the
\* agent that there is nothing in the thread, and nothing is.
LEMMA EndKeeps ==
    ASSUME Inv, NEW s \in Sends, send[s].pc \in {"resolving", "sealing", "fetching", "uploading"},
           NEW text \in {"cancelled", "failed"}, Answer(s, text),
           UNCHANGED <<fence, fences, suspended, epoch, owner, nonce, req, card, pending, answer,
                       approvals, clicks, shown, stale, restarts, mirror, durable, file, uploads,
                       visible, delivered>>
    PROVE  Inv'
<1>1. Under(s)
  BY DEF Under
<1>2. send[s].approval.click \notin visible /\ visible \subseteq Clicks
  BY <1>1 DEF Inv, Sending, Unused, Typed, ClicksTyped
<1> QED
  BY <1>1, <1>2, AnswerKeeps

LEMMA ResolvedKeeps ==
    ASSUME Inv, NEW s \in Sends, Resolved(s) \/ NotResolved(s) PROVE Inv'
<1>1. /\ send[s].pc = "resolving"
      /\ UNCHANGED <<suspended, fence, fences, epoch, owner, nonce, req, card, pending, answer,
                     approvals, delivered, mirror, durable, file, clicks, shown, stale, uploads,
                     visible, restarts>>
      /\ \/ /\ file = send[s].approval.content /\ delivered < TurnLimit /\ mirror < Quota
            /\ send' = [send EXCEPT ![s].pc = "sealing", ![s].bytes = file, ![s].base = mirror]
            /\ UNCHANGED <<chain, told>>
         \/ Answer(s, "failed")
  BY DEF Resolved, NotResolved, fenceVars, gateVars
<1>2. Under(s) /\ ~Reserved
  BY <1>1, ReservedIs DEF Under
<1>3. ASSUME Answer(s, "failed") PROVE Inv'
  BY <1>1, <1>3, EndKeeps
<1>4. ASSUME file = send[s].approval.content, delivered < TurnLimit, mirror < Quota,
             send' = [send EXCEPT ![s].pc = "sealing", ![s].bytes = file, ![s].base = mirror],
             UNCHANGED <<chain, told>>
      PROVE  Inv'
  <2>1. send \in [Sends -> SendRecord] /\ file \in Contents /\ mirror \in 0..Quota
    BY <1>2, UnderIs DEF Inv, Typed, SendTyped
  <2>2. /\ send[s] \in SendRecord
        /\ send' = [send EXCEPT ![s] = [send[s] EXCEPT !.pc = "sealing", !.bytes = file,
                                                       !.base = mirror]]
    BY <1>4, <2>1
  <2>3. /\ send' \in [Sends -> SendRecord] /\ \A q \in Sends \ {s} : send'[q] = send[q]
        /\ send'[s].pc = "sealing" /\ send'[s].bytes = file
        /\ send'[s].approval = send[s].approval /\ send'[s].call = send[s].call
        /\ send'[s].base = mirror
    <3>1. PICK v : v = [send[s] EXCEPT !.pc = "sealing", !.bytes = file, !.base = mirror]
      OBVIOUS
    <3>2. /\ v \in SendRecord /\ v.pc = "sealing" /\ v.bytes = file /\ v.base = mirror
          /\ v.approval = send[s].approval /\ v.call = send[s].call
      BY <2>1, <2>2, <3>1 DEF SendRecord
    <3>3. send'[s] = v /\ send' \in [Sends -> SendRecord] /\ \A q \in Sends \ {s} : send'[q] = send[q]
      BY <2>1, <2>2, <3>1, <3>2
    <3> QED
      BY <3>2, <3>3
  <2>4. send[s].approval.click \notin visible /\ uploads[send[s].approval.click] = <<>>
    BY <1>1, <1>2 DEF Inv, Sending, Unused
  <2>5. Uploaded' = Uploaded /\ ~Reserved'
    <3>1. \A q \in Sends : send'[q].pc # "fetching"
      BY <1>2, <2>3 DEF Reserved
    <3> QED
      BY <1>1, <3>1 DEF Uploaded, Reserved
  <2>6. Cardinality(Uploaded') + (IF Reserved' THEN 1 ELSE 0) <= durable'
    BY <1>1, <2>5, PaidIs
  <2>7. visible \subseteq Clicks /\ DOMAIN uploads = Clicks /\ durable \in 0..Quota
    BY DEF Inv, Typed, ClicksTyped, SendTyped
  <2> QED
    BY <1>1, <1>2, <1>4, <2>1, <2>3, <2>4, <2>6, <2>7, GoOnKeeps
<1> QED
  BY <1>1, <1>3, <1>4

\* The total is raised from what it still is, and the reservation is the one that
\* the upload will use up.
LEMMA SealedKeeps ==
    ASSUME Inv, NEW s \in Sends, NEW written, Sealed(s, written) PROVE Inv'
<1>1. /\ send[s].pc = "sealing"
      /\ UNCHANGED <<suspended, fence, fences, epoch, owner, nonce, req, card, pending, answer,
                     approvals, delivered, file, clicks, shown, stale, uploads, visible, restarts>>
      /\ \/ \E text \in {"cancelled", "failed"} : Answer(s, text) /\ UNCHANGED <<mirror, durable>>
         \/ /\ durable = send[s].base /\ mirror' = send[s].base + 1 /\ durable' = send[s].base + 1
            /\ GoOn(s, "fetching")
  BY DEF Sealed, fenceVars, gateVars
<1>2. Under(s) /\ ~Reserved
  BY <1>1, ReservedIs DEF Under
<1>3. ASSUME NEW text \in {"cancelled", "failed"}, Answer(s, text), UNCHANGED <<mirror, durable>>
      PROVE  Inv'
  BY <1>1, <1>3, EndKeeps
<1>4. ASSUME durable = send[s].base, mirror' = send[s].base + 1, durable' = send[s].base + 1,
             GoOn(s, "fetching")
      PROVE  Inv'
  <2>1. send \in [Sends -> SendRecord]
    BY <1>2, UnderIs
  <2>2. send' = [send EXCEPT ![s].pc = "fetching"] /\ UNCHANGED <<chain, told>>
    BY <1>4 DEF GoOn
  <2>3. /\ send' \in [Sends -> SendRecord] /\ \A q \in Sends \ {s} : send'[q] = send[q]
        /\ send'[s].pc = "fetching" /\ send'[s].bytes = send[s].bytes
        /\ send'[s].approval = send[s].approval /\ send'[s].call = send[s].call
    BY <2>1, <2>2 DEF SendRecord
  <2>4. /\ send[s].approval.click \notin visible /\ uploads[send[s].approval.click] = <<>>
        /\ send[s].bytes = send[s].approval.content
    BY <1>1, <1>2 DEF Inv, Sending, Unused
  <2>5. /\ delivered < TurnLimit /\ send[s].base < Quota /\ send[s].base \in 0..Quota
    BY <1>1, <1>2, <2>1 DEF Inv, Counted, SendRecord
  <2>6. mirror' \in 0..Quota /\ durable' \in 0..Quota /\ durable' = durable + 1
    BY <1>4, <2>5, DeliveryAssumption
  <2>7. Uploaded' = Uploaded /\ Reserved'
    BY <1>1, <2>3 DEF Uploaded, Reserved
  <2>8. Cardinality(Uploaded') + (IF Reserved' THEN 1 ELSE 0) <= durable'
    <3>1. Cardinality(Uploaded) \in Nat /\ Cardinality(Uploaded) <= durable /\ durable \in Nat
      BY PaidIs DEF Inv, Typed, SendTyped
    <3> QED
      BY <2>6, <2>7, <3>1
  <2>9. visible \subseteq Clicks /\ DOMAIN uploads = Clicks
    BY DEF Inv, Typed, ClicksTyped
  <2> QED
    BY <1>1, <1>2, <2>2, <2>3, <2>4, <2>5, <2>6, <2>8, <2>9, GoOnKeeps
<1> QED
  BY <1>1, <1>3, <1>4

\* The upload begins: the bytes of the card, for a click nothing has overtaken.
LEMMA FetchedIs ==
    ASSUME Inv, NEW s \in Sends, Fetched(s, TRUE), DeliveryIsCurrent(s)
    PROVE  /\ send[s].approval.click \in Clicks /\ send[s].approval.click \notin stale
           /\ uploads[send[s].approval.click] = <<>>
           /\ uploads' = [uploads EXCEPT ![send[s].approval.click] = <<shown[send[s].approval.click]>>]
<1> DEFINE k == send[s].approval.click
<1>1. /\ send[s].pc = "fetching"
      /\ uploads' = [uploads EXCEPT ![k] = Append(uploads[k], send[s].bytes)]
  BY DEF Fetched
<1>2. Under(s)
  BY <1>1 DEF Under
<1>3. /\ uploads[k] = <<>> /\ send[s].bytes = shown[k]
      /\ k \notin stale
  BY <1>1, <1>2 DEF Inv, Sending, Unused, DeliveryIsCurrent, IsCurrent
<1>4. k \in Clicks
  BY <1>2, UnderIs
<1>5. \A v : Append(<<>>, v) = <<v>>
  OBVIOUS
<1> QED
  BY <1>1, <1>3, <1>4, <1>5

LEMMA FetchedKeeps ==
    ASSUME Inv, NEW s \in Sends, NEW ok \in BOOLEAN, Fetched(s, ok) PROVE Inv'
<1> DEFINE k == send[s].approval.click
<1>1. /\ send[s].pc = "fetching"
      /\ UNCHANGED <<suspended, fence, fences, epoch, owner, nonce, req, card, pending, answer,
                     approvals, delivered, mirror, durable, file, clicks, shown, stale, visible,
                     restarts>>
  BY DEF Fetched, fenceVars, gateVars
<1>2. Under(s) /\ Reserved
  BY <1>1, ReservedIs DEF Under
<1>3. CASE ~(DeliveryIsCurrent(s) /\ ok)
  <2>1. Answer(s, "cancelled") /\ uploads' = uploads
    BY <1>3 DEF Fetched
  <2> QED
    BY <1>1, <2>1, EndKeeps
<1>4. CASE DeliveryIsCurrent(s) /\ ok
  <2>1. /\ k \in Clicks /\ uploads[k] = <<>>
        /\ uploads' = [uploads EXCEPT ![k] = <<shown[k]>>]
    BY <1>4, FetchedIs
  <2>2. send' = [send EXCEPT ![s].pc = "uploading"] /\ UNCHANGED <<chain, told>>
    BY <1>4 DEF Fetched, GoOn
  <2>3. send \in [Sends -> SendRecord]
    BY <1>2, UnderIs
  <2>4. /\ send' \in [Sends -> SendRecord] /\ \A q \in Sends \ {s} : send'[q] = send[q]
        /\ send'[s].pc = "uploading"
        /\ send'[s].approval = send[s].approval /\ send'[s].call = send[s].call
    BY <2>2, <2>3 DEF SendRecord
  <2>5. DOMAIN uploads = Clicks /\ visible \subseteq Clicks /\ durable \in 0..Quota /\ mirror \in 0..Quota
    BY DEF Inv, Typed, ClicksTyped, SendTyped
  <2>6. /\ DOMAIN uploads' = Clicks /\ uploads'[k] = <<shown[k]>>
        /\ \A x \in Clicks \ {k} : uploads'[x] = uploads[x]
    BY <2>1, <2>5
  <2>7. k \notin visible /\ delivered < TurnLimit
    BY <1>1, <1>2 DEF Inv, Sending, Unused, Counted
  <2>8. ~Reserved'
    <3>1. \A q \in Sends \ {s} : ~Under(q)
      BY <1>2, HeadAlone DEF Inv, Chained
    <3> QED
      BY <2>4, <3>1 DEF Reserved, Under
  <2>9. Uploaded' = Uploaded \cup {<<k, 1>>}
    <3>1. DOMAIN uploads[k] = {} /\ DOMAIN uploads'[k] = {1}
      <4>1. ASSUME NEW v PROVE DOMAIN <<v>> = {1}
        OBVIOUS
      <4> QED
        BY <2>1, <2>6, <4>1, EmptyIs
    <3>2. \A x \in Clicks \ {k} : DOMAIN uploads'[x] = DOMAIN uploads[x]
      BY <2>6
    <3> HIDE DEF k
    <3> QED
      BY <2>1, <3>1, <3>2 DEF Uploaded
  <2>10. Cardinality(Uploaded') + (IF Reserved' THEN 1 ELSE 0) <= durable'
    <3>1. Cardinality(Uploaded') <= Cardinality(Uploaded) + 1 /\ Cardinality(Uploaded') \in Nat
      <4>1. IsFiniteSet(Uploaded)
        BY UploadedIsFinite DEF Inv
      <4>2. /\ IsFiniteSet(Uploaded \cup {<<k, 1>>})
            /\ Cardinality(Uploaded \cup {<<k, 1>>}) =
                 IF <<k, 1>> \in Uploaded THEN Cardinality(Uploaded) ELSE Cardinality(Uploaded) + 1
        BY <4>1, FS_AddElement
      <4>3. Cardinality(Uploaded) \in Nat
        BY PaidIs
      <4> HIDE DEF k
      <4> QED
        BY <2>9, <4>2, <4>3
    <3>2. Cardinality(Uploaded) + 1 <= durable
      BY <1>2 DEF Inv, Counted
    <3>3. Cardinality(Uploaded) \in Nat /\ durable \in Nat
      BY <2>5, PaidIs
    <3> QED
      BY <1>1, <2>8, <3>1, <3>2, <3>3
  <2> HIDE DEF k
  <2> QED
    BY <1>1, <1>2, <2>2, <2>4, <2>5, <2>6, <2>7, <2>10, GoOnKeeps DEF k
<1> QED
  BY <1>3, <1>4

\* Discord has the attachment, and the agent has not been told.
LEMMA AcceptedKeeps ==
    ASSUME Inv, NEW s \in Sends, Accepted(s) PROVE Inv'
<1> DEFINE k == send[s].approval.click
<1>1. /\ send[s].pc = "uploading" /\ visible' = visible \cup {k}
      /\ GoOn(s, IF DeliveryIsCurrent(s) THEN "accepted" ELSE "retracting")
      /\ UNCHANGED <<suspended, fence, fences, epoch, owner, nonce, req, card, pending, answer,
                     approvals, delivered, mirror, durable, file, clicks, shown, stale, uploads,
                     restarts>>
  BY DEF Accepted, fenceVars, gateVars
<1>2. Under(s) /\ ~Reserved
  BY <1>1, ReservedIs DEF Under
<1>3. send \in [Sends -> SendRecord] /\ k \in Clicks
  BY <1>2, UnderIs
<1>4. PICK pc \in {"accepted", "retracting"} :
         send' = [send EXCEPT ![s].pc = pc] /\ UNCHANGED <<chain, told>>
  BY <1>1 DEF GoOn
<1>5. /\ send' \in [Sends -> SendRecord] /\ \A q \in Sends \ {s} : send'[q] = send[q]
      /\ send'[s].pc = pc /\ send'[s].approval = send[s].approval /\ send'[s].call = send[s].call
  BY <1>3, <1>4 DEF SendRecord
<1>6. /\ DOMAIN uploads = Clicks /\ visible' \subseteq Clicks /\ durable \in 0..Quota
      /\ mirror \in 0..Quota /\ k \in visible'
  BY <1>1, <1>3 DEF Inv, Typed, ClicksTyped, SendTyped
<1>7. delivered < TurnLimit /\ uploads[k] \in {<<>>, <<shown[k]>>}
  BY <1>1, <1>2, <1>3 DEF Inv, Counted, Kept
<1>8. ~Reserved' /\ Uploaded' = Uploaded
  BY <1>1, <1>2, <1>5 DEF Reserved, Uploaded
<1>9. Cardinality(Uploaded') + (IF Reserved' THEN 1 ELSE 0) <= durable'
  BY <1>1, <1>8, PaidIs
<1>10. \A x : x # k => (x \in visible' <=> x \in visible)
  BY <1>1
<1> HIDE DEF k
<1> QED
  BY <1>1, <1>2, <1>4, <1>5, <1>6, <1>7, <1>9, <1>10, GoOnKeeps DEF k

\* However Discord answers, the agent hears no more than is known.
LEMMA UploadEndsKeeps ==
    ASSUME Inv, NEW s \in Sends, NEW confirmed \in BOOLEAN, NEW gone \in BOOLEAN,
           Refused(s) \/ AnswerLost(s, gone) \/ Retracted(s, confirmed, gone)
    PROVE  Inv'
<1> DEFINE k == send[s].approval.click
<1>1. CASE Refused(s)
  <2>1. /\ send[s].pc = "uploading" /\ Answer(s, "failed")
        /\ UNCHANGED <<suspended, fence, fences, epoch, owner, nonce, req, card, pending, answer,
                     approvals, delivered, mirror, durable, file, clicks, shown, stale, uploads,
                     visible, restarts>>
    BY <1>1 DEF Refused, fenceVars, gateVars
  <2> QED
    BY <2>1, EndKeeps
<1>2. CASE AnswerLost(s, gone) \/ Retracted(s, confirmed, gone)
  <2>1. /\ send[s].pc \in {"uploading", "retracting"}
        /\ UNCHANGED <<suspended, fence, fences, epoch, owner, nonce, req, card, pending, answer,
                       approvals, delivered, mirror, durable, file, clicks, shown, stale, uploads,
                       restarts>>
        /\ visible' \in {visible, visible \cup {k}, visible \ {k}}
    BY <1>2 DEF AnswerLost, Retracted, fenceVars, gateVars
  <2>2. PICK text \in {"cancelled", "maybe"} :
           Answer(s, text) /\ (text = "cancelled" => visible' = visible \ {k})
    BY <1>2 DEF AnswerLost, Retracted
  <2>3. Under(s)
    BY <2>1 DEF Under
  <2>4. k \in Clicks /\ visible \subseteq Clicks
    BY <2>3, UnderIs DEF Inv, Typed, ClicksTyped
  <2>5. /\ visible' \subseteq Clicks /\ \A x : x # k => (x \in visible' <=> x \in visible)
        /\ text \in {"cancelled", "failed"} => k \notin visible'
    BY <2>1, <2>2, <2>4
  <2> HIDE DEF k
  <2> QED
    BY <2>1, <2>2, <2>3, <2>5, AnswerKeeps DEF k
<1> QED
  BY <1>1, <1>2

LEMMA ReportKeeps ==
    ASSUME Inv, NEW s \in Sends, Report(s) PROVE Inv'
<1>1. /\ send[s].pc = "accepted"
      /\ UNCHANGED <<suspended, fence, fences, epoch, owner, nonce, req, card, pending, answer,
                     approvals, mirror, durable, file, clicks, shown, stale, uploads,
                     visible, restarts>>
      /\ \/ delivered' = delivered + 1 /\ Answer(s, "delivered")
         \/ UNCHANGED delivered /\ Answer(s, "maybe")
  BY DEF Report, fenceVars, gateVars
<1>2. Under(s)
  BY <1>1 DEF Under
<1>3. /\ delivered < TurnLimit /\ send[s].approval.click \in visible /\ visible \subseteq Clicks
  BY <1>1, <1>2 DEF Inv, Counted, Sending, Typed, ClicksTyped
<1>4. CASE delivered' = delivered + 1 /\ Answer(s, "delivered")
  BY <1>1, <1>2, <1>3, <1>4, AnswerKeeps
<1>5. CASE UNCHANGED delivered /\ Answer(s, "maybe")
  BY <1>1, <1>2, <1>3, <1>5, AnswerKeeps
<1> QED
  BY <1>1, <1>4, <1>5

LEMMA NextInv == Inv /\ [Next]_vars => Inv'
<1> SUFFICES ASSUME Inv, [Next]_vars PROVE Inv'
  OBVIOUS
<1>1. CASE Boundary
  <2>1. CASE BeginTurn \/ Stop \/ YoloOn \/ Teardown \/ SuspendFileDelivery
    BY <2>1, FencedKeeps
  <2>2. CASE Idle \/ YoloOff \/ Edit
    BY <2>2, AsideKeeps
  <2>3. CASE Crash
    BY <2>3, CrashKeeps
  <2>4. CASE \E f \in fences : ResumeFileDeliveryIfCurrent(f)
    BY <2>4, ResumeKeeps
  <2> QED
    BY <1>1, <2>1, <2>2, <2>3, <2>4 DEF Boundary
<1>2. ASSUME NEW r \in Requests, RequestStep(r) PROVE Inv'
  <2>1. CASE \E c \in Calls : Ask(r, c)
    BY <2>1, AskKeeps
  <2>2. CASE Validated(r)
    BY <2>2, ValidatedKeeps
  <2>3. CASE NotValidated(r)
    BY <2>3, NotValidatedKeeps
  <2>4. CASE CardFlushed(r) \/ (\E ok \in BOOLEAN : CardPosted(r, ok)) \/ DenyOrTimeout(r)
    BY <2>4, DeniedKeeps
  <2>5. CASE Allow(r)
    BY <2>5, AllowKeeps
  <2>6. CASE Decided(r)
    BY <2>6, DecidedKeeps
  <2> QED
    BY <1>2, <2>1, <2>2, <2>3, <2>4, <2>5, <2>6 DEF RequestStep
<1>3. ASSUME NEW s \in Sends, SendStep(s) PROVE Inv'
  <2>1. CASE \E c \in Calls : Invoke(s, c)
    BY <2>1, InvokeKeeps
  <2>2. CASE Start(s)
    BY <2>2, StartKeeps
  <2>3. CASE Resolved(s) \/ NotResolved(s)
    BY <2>3, ResolvedKeeps
  <2>4. CASE \E ok \in BOOLEAN : Sealed(s, ok)
    BY <2>4, SealedKeeps
  <2>5. CASE \E ok \in BOOLEAN : Fetched(s, ok)
    BY <2>5, FetchedKeeps
  <2>6. CASE Refused(s) \/ (\E ok \in BOOLEAN : AnswerLost(s, ok))
             \/ (\E confirmed, gone \in BOOLEAN : Retracted(s, confirmed, gone))
    BY <2>6, UploadEndsKeeps
  <2>7. CASE Accepted(s)
    BY <2>7, AcceptedKeeps
  <2>8. CASE Report(s)
    BY <2>8, ReportKeeps
  <2> QED
    BY <1>3, <2>1, <2>2, <2>3, <2>4, <2>5, <2>6, <2>7, <2>8 DEF SendStep
<1>4. CASE UNCHANGED vars
  <2>1. UNCHANGED <<suspended, fence, fences, epoch, owner, nonce, req, card, pending, answer,
                    approvals, chain, send, delivered, mirror, durable, file, clicks, shown, stale,
                    uploads, visible, told, restarts>>
    BY <1>4 DEF vars, fenceVars, gateVars, sendVars, ghostVars
  <2>2. Typed' /\ Kept' /\ ReportTruthful' /\ FenceHolds'
    BY <2>1 DEF Inv, Typed, GateTyped, SendTyped, ClicksTyped, Kept, ReportTruthful, FenceHolds
  <2>3. Gate' /\ Answered' /\ Approved'
    BY <2>1 DEF Inv, Gate, Answered, Approved, Unused, Untold
  <2>4. Sending' /\ Chained' /\ Counted'
    BY <2>1 DEF Inv, Sending, Chained, Counted, Under, Unused, Untold, Reserved, Uploaded
  <2> QED
    BY <2>2, <2>3, <2>4 DEF Inv
<1> QED
  BY <1>1, <1>2, <1>3, <1>4 DEF Next

-----------------------------------------------------------------------------
(* Theorems.                                                                *)

\* The gate, the approvals, the chain, the clicks and what became of them are as
\* described above in every state: an Allow is in one hand at a time, however a
\* turn, `/stop`, `/yolo`, a rebind or a crash falls into the awaits of
\* handleFileDeliveryPermission and sendApprovedFileDelivery.
THEOREM InvHolds == Spec => []Inv
  BY InitInv, NextInv, PTL DEF Spec

\* Every variable of the gate, the approvals, the deliveries and the limits keeps
\* its type: neither the epoch of an answer, nor a turn's count of files, nor the
\* durable total of the thread leaves its range.
THEOREM TypeCorrect == Spec => []TypeOK
<1> DEFINE Flags == {active, aborting, yolo, suspended} \subseteq BOOLEAN
<1>1. Init => Flags
  BY DEF Init
<1>2. Flags /\ [Next]_vars => Flags'
  <2> SUFFICES ASSUME Flags, [Next]_vars PROVE Flags'
    OBVIOUS
  <2>1. CASE Boundary
    <3>1. CASE BeginTurn \/ Stop \/ Idle \/ YoloOn \/ YoloOff \/ Edit
      BY <3>1, Zenon DEF BeginTurn, Stop, Idle, YoloOn, YoloOff, Edit, fenceVars
    <3>2. CASE Teardown \/ Crash \/ SuspendFileDelivery
      BY <3>2, Zenon DEF Teardown, Crash, SuspendFileDelivery
    <3>3. CASE \E f \in fences : ResumeFileDeliveryIfCurrent(f)
      BY <3>3, Zenon DEF ResumeFileDeliveryIfCurrent
    <3> QED
      BY <2>1, <3>1, <3>2, <3>3 DEF Boundary
  <2>2. CASE UNCHANGED fenceVars
    BY <2>2 DEF fenceVars
  <2>3. ASSUME NEW r \in Requests, RequestStep(r) PROVE UNCHANGED fenceVars
    BY <2>3 DEF RequestStep, Ask, Validated, NotValidated, CardFlushed, CardPosted, Allow,
       DenyOrTimeout, Decided
  <2>4. ASSUME NEW s \in Sends, SendStep(s) PROVE UNCHANGED fenceVars
    BY <2>4 DEF SendStep, Invoke, Start, Resolved, NotResolved, Sealed, Fetched, AnswerLost, Accepted,
       Refused, Report, Retracted
  <2> QED
    BY <2>1, <2>2, <2>3, <2>4 DEF Next, vars
<1>3. Inv /\ Flags => TypeOK
  BY DEF Inv, Typed, TypeOK
<1> QED
  BY <1>1, <1>2, <1>3, InvHolds, PTL DEF Spec

\* What the delivery tells the agent is so: no file in the thread after "failed"
\* or "cancelled", and one there after "delivered" (sendFile, its retraction and
\* the answers of sendApprovedFileDelivery).
THEOREM ToldTheTruth == Spec => []ReportTruthful
<1>1. Inv => ReportTruthful
  BY DEF Inv
<1> QED
  BY <1>1, InvHolds, PTL

\* Between suspendFileDelivery of a rebind and its own resume nothing lifts the
\* fence (resumeFileDeliveryIfCurrent compares its token).
THEOREM FenceStands == Spec => []FenceHolds
<1>1. Inv => FenceHolds
  BY DEF Inv
<1> QED
  BY <1>1, InvHolds, PTL

\* reserveFileDeliveryBytes is written before the upload begins, from the total
\* it was compared with: what may be in the thread never exceeds what is durable.
THEOREM QuotaIsKept == Spec => []QuotaCovers
<1>1. Inv => QuotaCovers
  <2> SUFFICES ASSUME Inv PROVE QuotaCovers
    OBVIOUS
  <2>1. delivered \in 0..TurnLimit /\ durable \in 0..Quota /\ Quota \in Int /\ TurnLimit \in Int
    BY DeliveryAssumption DEF Inv, Typed, SendTyped
  <2> QED
    BY <2>1, PaidIs DEF QuotaCovers
<1> QED
  BY <1>1, InvHolds, PTL

\* No upload begins but the first one of an Allow, of the bytes its card showed,
\* and while nothing has overtaken it (the checks of fileDeliveryIsCurrent, and
\* the approval consumed by deleting it before the first await).
THEOREM UploadsAsApproved == Spec => UploadAsApproved
<1>1. Inv /\ [Next]_vars =>
        [\A k \in Clicks :
            uploads'[k] # uploads[k] => k \notin stale /\ uploads'[k] = <<shown[k]>>]_vars
  <2> SUFFICES ASSUME Inv, Next, NEW k \in Clicks, uploads'[k] # uploads[k]
               PROVE  k \notin stale /\ uploads'[k] = <<shown[k]>>
    OBVIOUS
  <2>1. ASSUME NEW s \in Sends, NEW ok \in BOOLEAN, Fetched(s, ok)
        PROVE  k \notin stale /\ uploads'[k] = <<shown[k]>>
    <3>1. ok = TRUE /\ DeliveryIsCurrent(s)
      BY <2>1 DEF Fetched
    <3>2. /\ send[s].approval.click \in Clicks /\ send[s].approval.click \notin stale
          /\ uploads' = [uploads EXCEPT ![send[s].approval.click] =
                           <<shown[send[s].approval.click]>>]
      BY <2>1, <3>1, FetchedIs
    <3>3. DOMAIN uploads = Clicks
      BY DEF Inv, Typed
    <3>4. k = send[s].approval.click
      BY <3>2, <3>3
    <3> QED
      BY <3>2, <3>3, <3>4
  <2>2. CASE Boundary
    BY <2>2 DEF Boundary, BeginTurn, Stop, Idle, YoloOn, YoloOff, Teardown, Edit, Crash,
       SuspendFileDelivery, ResumeFileDeliveryIfCurrent, ClearFileDeliveryApprovals, ghostVars
  <2>3. ASSUME NEW r \in Requests, RequestStep(r) PROVE uploads' = uploads
    BY <2>3 DEF RequestStep, Ask, Validated, NotValidated, CardFlushed, CardPosted, Allow,
       DenyOrTimeout, Decided, ghostVars
  <2>4. ASSUME NEW s \in Sends, SendStep(s)
        PROVE  uploads' = uploads \/ \E ok \in BOOLEAN : Fetched(s, ok)
    BY <2>4 DEF SendStep, Invoke, Start, Resolved, NotResolved, Sealed, AnswerLost, Accepted,
       Refused, Report, Retracted, ghostVars
  <2> QED
    BY <2>1, <2>2, <2>3, <2>4 DEF Next
<1> QED
  BY <1>1, InvHolds, PTL DEF Spec, UploadAsApproved
=============================================================================
