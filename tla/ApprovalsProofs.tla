---------------------------- MODULE ApprovalsProofs ----------------------------
(***************************************************************************)
(* What Approvals promises for any requests, clicks, toggles and bounds:   *)
(* a revoked rule stays revoked, the guard is down only as it was last     *)
(* asked for, and the first answer to a request stands.  A revocation and  *)
(* a toggle leave a mark (an epoch, a superseded toggle) on what was under *)
(* way when they came: the invariants relate that mark to the rules, and   *)
(* to the commands that the operator has typed.                            *)
(***************************************************************************)
EXTENDS Approvals, TLAPS

Click == [req : Requests \cup {None}, decision : Decisions, epoch : 0 .. MaxClears]

-----------------------------------------------------------------------------
(* Types.                                                                   *)

\* The broker's answers: only a pending request changes, and only to a result.
LEMMA SettledTyped ==
    ASSUME TypeOK, NEW r \in Requests, NEW value \in Results
    PROVE  Settled(r, value) \in [Requests -> Results \cup {None}]
BY DEF TypeOK, Settled

LEMMA TypeInit == ASSUME Init PROVE TypeOK
<1>1. MaxClears \in Nat /\ MaxCrashes \in Nat BY ApprovalsAssumption
<1>2. clears \in 0 .. MaxClears BY <1>1 DEF Init
<1>3. revoked \in 0 .. clears /\ promised \in 0 .. revoked BY <1>1, <1>2 DEF Init
<1>4. session \in Granted /\ repo \in Granted /\ file \in Granted BY DEF Init, Granted
<1>5. crashes \in 0 .. MaxCrashes BY <1>1 DEF Init
<1>6. toggle \in [Toggles -> {"unused", "acking", "superseded", "used"}] BY DEF Init
<1> QED BY <1>2, <1>3, <1>4, <1>5, <1>6 DEF Init, TypeOK

\* What an acknowledged click delivers is one of the decisions; a wider one
\* only under the epoch of the click.
LEMMA DeliveredIs ==
    ASSUME NEW k \in Click, NEW acked \in BOOLEAN
    PROVE  /\ Delivered(k, acked) \in Decisions
           /\ Delivered(k, acked) \in {"session", "always"} => k.epoch = clears
BY DEF Delivered, Click, Decisions

LEMMA AckedTyped ==
    ASSUME TypeOK, NEW c \in Clicks, NEW acked \in BOOLEAN, NEW written \in BOOLEAN,
           Acked(c, acked, written)
    PROVE  TypeOK'
<1> DEFINE r == click[c].req
           d == Delivered(click[c], acked)
<1>1. click[c] \in Click /\ r \in Requests \cup {None} /\ click[c].epoch \in Granted
    BY DEF TypeOK, Acked, Click, Granted
<1>2. session' \in Granted
    BY <1>1 DEF TypeOK, Acked, ApproveForSession, Granted
<1>3. repo' \in Granted /\ file' \in Granted
    BY <1>1 DEF TypeOK, Acked, ApproveForRepo, Granted
<1>4. result' \in [Requests -> Results \cup {None}]
    <2>1. "allow" \in Results /\ "deny" \in Results BY DEF Results
    <2>2. CASE r = None BY <2>2 DEF Acked, TypeOK
    <2>3. CASE r # None
        <3>1. Settled(r, "deny") \in [Requests -> Results \cup {None}] BY <1>1, <2>1, <2>3, SettledTyped
        <3>2. Settled(r, "allow") \in [Requests -> Results \cup {None}] BY <1>1, <2>1, <2>3, SettledTyped
        <3> QED BY <2>3, <3>1, <3>2 DEF Acked, TypeOK
    <2> QED BY <2>2, <2>3
<1>5. click' = [click EXCEPT ![c] = None]
    BY DEF Acked
<1> QED BY <1>2, <1>3, <1>4, <1>5 DEF TypeOK, Acked, blanket

LEMMA TypeStep == ASSUME TypeOK, [Next]_vars PROVE TypeOK'
<1> USE DEF TypeOK
<1>1. CASE UNCHANGED vars
    BY <1>1 DEF vars, requests, rules, blanket
<1>2. ASSUME NEW p \in Permissions, Permission(p) PROVE TypeOK'
    BY <1>2 DEF Permission, Register, Rest, rules, blanket, Requests
<1>3. ASSUME NEW q \in Questions, Question(q) PROVE TypeOK'
    BY <1>3 DEF Question, Register, Rest, rules, blanket, Requests
<1>4. ASSUME NEW r \in Requests, Timeout(r) PROVE TypeOK'
    <2>1. result' \in [Requests -> Results \cup {None}]
        BY <1>4, SettledTyped DEF Timeout, Results
    <2> QED BY <1>4, <2>1 DEF Timeout, rules, blanket
<1>5. ASSUME NEW r \in Requests, Answered(r) PROVE TypeOK'
    <2>1. click' \in [Clicks -> Click \cup {None}]
        <3> SUFFICES ASSUME NEW c \in Clicks, click[c] # None
                     PROVE  [click[c] EXCEPT !.req = None] \in Click
            BY <1>5 DEF Answered, Click
        <3> QED BY DEF Click
    <2> QED BY <1>5, <2>1 DEF Answered, rules, blanket, Click
<1>6. ASSUME NEW r \in Requests, NEW ok \in BOOLEAN, Posted(r, ok) PROVE TypeOK'
    <2>1. result' \in [Requests -> Results \cup {None}]
        BY <1>6, SettledTyped DEF Posted, Results
    <2>2. freeform' \in Questions \cup {None} BY <1>6 DEF Posted
    <2> QED BY <1>6, <2>1, <2>2 DEF Posted, Rest, rules, blanket
<1>7. ASSUME NEW c \in Clicks, NEW r \in Requests, NEW d \in Decisions, Clicked(c, r, d)
      PROVE  TypeOK'
    BY <1>7 DEF Clicked, requests, rules, blanket
<1>8. ASSUME NEW c \in Clicks, NEW acked \in BOOLEAN, NEW written \in BOOLEAN,
             Acked(c, acked, written)
      PROVE  TypeOK'
    BY <1>8, AckedTyped
<1>9. CASE Message
    <2>1. result' \in [Requests -> Results \cup {None}]
        BY <1>9, SettledTyped DEF Message, Results, Requests
    <2> QED BY <1>9, <2>1 DEF Message, Rest, rules, blanket
<1>10. CASE Stop
    BY <1>10 DEF Stop, AllDenied, Results, rules, blanket
<1>11. CASE Idle
    BY <1>11 DEF Idle, requests, rules, blanket
<1>12. ASSUME NEW y \in Toggles, YoloOff(y) \/ YoloOn(y) PROVE TypeOK'
    BY <1>12 DEF YoloOff, YoloOn, Superseded, requests, rules
<1>13. ASSUME NEW y \in Toggles, NEW acked \in BOOLEAN, YoloAcked(y, acked) PROVE TypeOK'
    BY <1>13 DEF YoloAcked, Superseded, requests, rules
<1>14. ASSUME NEW written \in BOOLEAN, Clear(written) PROVE TypeOK'
    <2>1. clears' \in 0 .. MaxClears /\ revoked' \in 0 .. clears' /\ promised' \in 0 .. revoked'
        BY <1>14, ApprovalsAssumption DEF Clear, RevokeAll
    <2>2. session' \in Granted /\ repo' \in Granted /\ file' \in Granted
        BY <1>14 DEF Clear, RevokeAll, Granted
    <2> QED BY <1>14, <2>1, <2>2 DEF Clear, requests, blanket
<1>15. CASE Shutdown
    BY <1>15 DEF Shutdown, requests, rules, blanket
<1>16. CASE Restart
    <2>1. crashes' \in 0 .. MaxCrashes BY <1>16, ApprovalsAssumption DEF Restart
    <2>2. revoked' \in 0 .. clears' /\ promised' \in 0 .. revoked' BY <1>16 DEF Restart
    <2>3. session' \in Granted /\ repo' \in Granted BY <1>16 DEF Restart, Granted
    <2>4. toggle' \in [Toggles -> {"unused", "acking", "superseded", "used"}] BY <1>16 DEF Restart
    <2> QED BY <1>16, <2>1, <2>2, <2>3, <2>4 DEF Restart
<1> QED BY <1>1, <1>2, <1>3, <1>4, <1>5, <1>6, <1>7, <1>8, <1>9, <1>10, <1>11, <1>12,
           <1>13, <1>14, <1>15, <1>16 DEF Next

\* Every variable of the broker, the rules and the commands stays in its range.
THEOREM TypeCorrect == Spec => []TypeOK
BY TypeInit, TypeStep, PTL DEF Spec

-----------------------------------------------------------------------------
(* Revocation.                                                              *)

\* A click widens trust under its own epoch only, and a `/approvals clear`
\* advances the epoch: what is granted afterwards was clicked afterwards.
LEMMA RevocationStep ==
    ASSUME TypeOK, RevocationStands, [Next]_vars
    PROVE  RevocationStands'
<1> USE DEF RevocationStands
<1>1. ASSUME UNCHANGED rules PROVE RevocationStands' BY <1>1 DEF rules
<1>2. ASSUME NEW c \in Clicks, NEW acked \in BOOLEAN, NEW written \in BOOLEAN,
             Acked(c, acked, written)
      PROVE  RevocationStands'
    <2> DEFINE k == click[c]
               d == Delivered(k, acked)
    <2>1. k \in Click BY <1>2 DEF TypeOK, Acked, Click
    <2>2. d \in {"session", "always"} => k.epoch = clears BY <2>1, DeliveredIs
    <2>3. UNCHANGED <<clears, revoked, promised>> BY <1>2 DEF Acked
    <2>4. promised <= revoked /\ revoked <= clears /\ promised \in Nat /\ clears \in Nat
          /\ revoked \in Nat
        BY ApprovalsAssumption DEF TypeOK
    <2>5. session' \in {None, clears}
        BY <1>2, <2>2 DEF Acked, ApproveForSession
    <2>6. /\ repo' = repo \/ repo' = clears
          /\ file' = file \/ file' = repo'
        BY <1>2, <2>2 DEF Acked, ApproveForRepo
    <2>7. repo' # None => repo' >= revoked BY <2>4, <2>6
    <2>8. (repo' # None => repo' \in Nat) /\ (file # None => file \in Nat)
        BY <2>4, <2>6, ApprovalsAssumption DEF TypeOK, Granted
    <2>9. file' # None => file' >= promised BY <2>4, <2>6, <2>7, <2>8
    <2> QED BY <2>3, <2>5, <2>7, <2>9
<1>3. ASSUME NEW written \in BOOLEAN, Clear(written) PROVE RevocationStands'
    BY <1>3 DEF Clear, RevokeAll
<1>4. CASE Restart BY <1>4 DEF Restart
<1>5. CASE UNCHANGED vars BY <1>1, <1>5 DEF vars
<1>6. ASSUME NEW p \in Requests, Permission(p) \/ Question(p) \/ Timeout(p) \/ Answered(p)
      PROVE  RevocationStands'
    BY <1>1, <1>6 DEF Permission, Question, Register, Rest, Timeout, Answered
<1>7. ASSUME NEW r \in Requests, NEW ok \in BOOLEAN, Posted(r, ok) PROVE RevocationStands'
    BY <1>1, <1>7 DEF Posted, Rest
<1>8. ASSUME NEW c \in Clicks, NEW r \in Requests, NEW d \in Decisions, Clicked(c, r, d)
      PROVE  RevocationStands'
    BY <1>1, <1>8 DEF Clicked
<1>9. CASE Message \/ Stop \/ Idle \/ Shutdown
    BY <1>1, <1>9 DEF Message, Rest, Stop, Idle, Shutdown
<1>10. ASSUME NEW y \in Toggles, YoloOff(y) \/ YoloOn(y) \/ \E acked \in BOOLEAN : YoloAcked(y, acked)
       PROVE  RevocationStands'
    BY <1>1, <1>10 DEF YoloOff, YoloOn, YoloAcked
<1> QED BY <1>2, <1>3, <1>4, <1>5, <1>6, <1>7, <1>8, <1>9, <1>10 DEF Next, Requests

\* `/approvals clear` (app.ts, approval-policy.ts): a click made before it and
\* acknowledged after it brings no rule back, and a restart none that the
\* operator was told has gone from the file.
THEOREM RevocationsStand == Spec => []RevocationStands
<1>1. Init => RevocationStands BY DEF Init, RevocationStands
<1>2. TypeOK /\ RevocationStands /\ [Next]_vars => RevocationStands' BY RevocationStep
<1> QED BY <1>1, <1>2, TypeCorrect, PTL DEF Spec

-----------------------------------------------------------------------------
(* YOLO.                                                                    *)

\* A toggle that still waits for its acknowledgement and was not superseded was
\* typed after the last `/yolo off`.
YoloPending == \A y \in Toggles : toggle[y] = "acking" => asked = "on"

YoloInv == YoloAsAsked /\ YoloPending

LEMMA YoloStep ==
    ASSUME TypeOK, YoloInv, [Next]_vars
    PROVE  YoloInv'
<1> USE DEF YoloInv, YoloAsAsked, YoloPending
<1>1. ASSUME UNCHANGED blanket PROVE YoloInv' BY <1>1 DEF blanket
<1>2. ASSUME NEW y \in Toggles, YoloOff(y) PROVE YoloInv'
    BY <1>2 DEF YoloOff, Superseded, TypeOK
<1>3. ASSUME NEW y \in Toggles, YoloOn(y) PROVE YoloInv'
    BY <1>3 DEF YoloOn
<1>4. ASSUME NEW y \in Toggles, NEW acked \in BOOLEAN, YoloAcked(y, acked) PROVE YoloInv'
    BY <1>4 DEF YoloAcked, Superseded, TypeOK
<1>5. CASE Restart BY <1>5 DEF Restart
<1>6. CASE UNCHANGED vars BY <1>1, <1>6 DEF vars
<1>7. ASSUME NEW p \in Requests, Permission(p) \/ Question(p) \/ Timeout(p) \/ Answered(p)
      PROVE  YoloInv'
    BY <1>1, <1>7 DEF Permission, Question, Register, Rest, Timeout, Answered
<1>8. ASSUME NEW r \in Requests, NEW ok \in BOOLEAN, Posted(r, ok) PROVE YoloInv'
    BY <1>1, <1>8 DEF Posted, Rest
<1>9. ASSUME NEW c \in Clicks, NEW r \in Requests, NEW d \in Decisions, Clicked(c, r, d)
      PROVE  YoloInv'
    BY <1>1, <1>9 DEF Clicked
<1>10. ASSUME NEW c \in Clicks, NEW acked \in BOOLEAN, NEW written \in BOOLEAN,
             Acked(c, acked, written)
      PROVE  YoloInv'
    BY <1>1, <1>10 DEF Acked
<1>11. CASE Message \/ Stop \/ Idle \/ Shutdown \/ \E written \in BOOLEAN : Clear(written)
    BY <1>1, <1>11 DEF Message, Rest, Stop, Idle, Shutdown, Clear
<1> QED BY <1>2, <1>3, <1>4, <1>5, <1>6, <1>7, <1>8, <1>9, <1>10, <1>11 DEF Next, Requests

\* `/yolo on` applies after its warning is shown, and only if nothing was typed
\* since (yoloEpoch): in no order of acknowledgements does it outlive an `off`.
THEOREM YoloIsAsAsked == Spec => []YoloAsAsked
<1>1. Init => YoloInv BY DEF Init, YoloInv, YoloAsAsked, YoloPending
<1>2. TypeOK /\ YoloInv /\ [Next]_vars => YoloInv' BY YoloStep
<1>3. YoloInv => YoloAsAsked BY DEF YoloInv
<1> QED BY <1>1, <1>2, <1>3, TypeCorrect, PTL DEF Spec

-----------------------------------------------------------------------------
(* Answers.                                                                 *)

\* broker.ts settles a pending request and no other.
LEMMA SettledOnce ==
    ASSUME TypeOK, NEW r \in Requests, NEW value \in Results, NEW s \in Requests,
           result[s] # None
    PROVE  Settled(r, value)[s] = result[s]
BY DEF TypeOK, Settled, Pending

LEMMA FirstAnswerStep ==
    ASSUME TypeOK, [Next]_vars, NEW s \in Requests, result[s] # None
    PROVE  result'[s] \in {result[s], None}
<1> DEFINE Stands == result'[s] \in {result[s], None}
<1>0. "allow" \in Results /\ "deny" \in Results BY DEF Results
<1>1. ASSUME result' = result PROVE Stands BY <1>1
<1>2. ASSUME NEW r \in Requests, NEW value \in Results, result' = Settled(r, value) PROVE Stands
    BY <1>2, SettledOnce
<1>3. ASSUME NEW r \in Requests, Permission(r) \/ Question(r) PROVE Stands
    BY <1>3 DEF Permission, Question, Register
<1>4. ASSUME NEW r \in Requests, Timeout(r) PROVE Stands
    BY <1>0, <1>2, <1>4 DEF Timeout
<1>5. ASSUME NEW r \in Requests, Answered(r) PROVE Stands
    BY <1>5 DEF Answered, TypeOK
<1>6. ASSUME NEW r \in Requests, NEW ok \in BOOLEAN, Posted(r, ok) PROVE Stands
    BY <1>0, <1>1, <1>2, <1>6 DEF Posted
<1>7. ASSUME NEW c \in Clicks, NEW acked \in BOOLEAN, NEW written \in BOOLEAN,
             Acked(c, acked, written)
      PROVE  Stands
    <2>1. click[c].req \in Requests \cup {None} BY <1>7 DEF TypeOK, Acked
    <2>2. \/ result' = result
          \/ click[c].req # None /\ \E value \in Results : result' = Settled(click[c].req, value)
        BY <1>0, <1>7 DEF Acked
    <2> QED BY <1>1, <1>2, <2>1, <2>2
<1>8. CASE Message
    BY <1>0, <1>2, <1>8 DEF Message, TypeOK, Requests
<1>9. CASE Stop BY <1>9 DEF Stop, AllDenied, Pending, TypeOK
<1>10. CASE Restart BY <1>10 DEF Restart
<1>11. CASE UNCHANGED vars BY <1>1, <1>11 DEF vars, requests
<1>12. CASE Idle \/ Shutdown \/ \E written \in BOOLEAN : Clear(written)
    BY <1>1, <1>12 DEF Idle, Shutdown, Clear, requests
<1>13. ASSUME NEW c \in Clicks, NEW r \in Requests, NEW d \in Decisions, Clicked(c, r, d)
       PROVE  Stands
    BY <1>1, <1>13 DEF Clicked, requests
<1>14. ASSUME NEW y \in Toggles, YoloOff(y) \/ YoloOn(y) \/ \E acked \in BOOLEAN : YoloAcked(y, acked)
       PROVE  Stands
    BY <1>1, <1>14 DEF YoloOff, YoloOn, YoloAcked, requests
<1> QED BY <1>3, <1>4, <1>5, <1>6, <1>7, <1>8, <1>9, <1>10, <1>11, <1>12, <1>13, <1>14
        DEF Next, Requests

\* Whatever settles a request first, a click, a typed answer, a timeout, /stop or
\* a card that could not be posted, is what its handler resumes with.
THEOREM FirstAnswersStand == Spec => FirstAnswerStands
<1>1. TypeOK /\ [Next]_vars =>
          [\A r \in Requests : result[r] # None => result'[r] \in {result[r], None}]_vars
    BY FirstAnswerStep
<1> QED BY <1>1, TypeCorrect, PTL DEF Spec, FirstAnswerStands
=============================================================================
