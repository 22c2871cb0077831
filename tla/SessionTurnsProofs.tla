--------------------------- MODULE SessionTurnsProofs ---------------------------
(***************************************************************************)
(* What SessionTurns promises for any prompts, queue and stops: a prompt   *)
(* that was stopped stays unsent, a queued one becomes a turn of its own   *)
(* and does not wait behind an idle session, and the runtime never works   *)
(* for a turn that has been given up.  All of it rests on there being one  *)
(* turn at a time, whatever awaits the commands fall into, and the last on *)
(* an account of what is on its way between the actor and the runtime.     *)
(*                                                                         *)
(* And what Timeline promises of the output of those turns, for any        *)
(* events, cards and failures: a call keeps its name across a card, no     *)
(* message of a block stands below the card that sealed it, and the final  *)
(* state is shown.  It begins with lemmas on sequences and on the packing  *)
(* of a timeline into messages.                                            *)
(***************************************************************************)
EXTENDS SessionTurns, Timeline, FiniteSetTheorems, SequenceTheorems, WellFoundedInduction, TLAPS

-----------------------------------------------------------------------------
(* The invariant.                                                           *)

Places == {"new", "queued", "preparing", "sending", "ending", "flushing",
           "card", "steering", "done"}

Distinct(q) == \A i, j \in 1 .. Len(q) : q[i] = q[j] => i = j

Line(q) == q \in Seq(Prompts) /\ Distinct(q)

Typed ==
    /\ Line(queue) /\ Line(wire)
    /\ pc \in [Prompts -> Places]
    /\ running \in BOOLEAN /\ idles \in Nat
    /\ turns \cup steers \cup stopped \subseteq Prompts
    /\ lifecycle \in {"active", "closing", "closed", "faulted"}

\* There is one turn at a time, and /stop can reach it until it is sent.
InTurn(p) == pc[p] \in {"preparing", "sending", "ending", "flushing"}

OneTurn ==
    /\ \A p, q \in Prompts : InTurn(p) /\ InTurn(q) => p = q
    /\ \A p \in Prompts : InTurn(p) => running
    /\ \A p \in Prompts : pc[p] = "preparing" => currentAbort = p

\* Where a prompt is tells whether it waits, is on the wire, or was never sent.
Placed ==
    /\ \A p \in Prompts : pc[p] = "queued" <=> p \in Range(queue)
    /\ Range(wire) \subseteq turns \cup steers
    /\ \A p \in Range(wire) : /\ p \in turns => pc[p] = "sending"
                              /\ p \in steers => pc[p] = "steering"
    /\ \A p \in turns \cup steers : pc[p] \notin {"new", "queued", "preparing", "card"}

\* A stopped prompt has no way to the runtime left.
Quiet ==
    /\ StopQuiets
    /\ \A p \in stopped : pc[p] \in {"flushing", "done"} \/ (pc[p] = "preparing" /\ p \in aborted)

\* Who queues a prompt beside an idle session is still to drain it, or could not
\* reply.
Served ==
    /\ phase # "ready" => queue = <<>>
    /\ ~mapped => lifecycle # "active"
    /\ ~running /\ lifecycle = "active" => Range(queue) \subseteq replying \cup left

\* A turn waits from before its prompt is written until the runtime has told the
\* end of its busy period: there is at most one prompt of a turn, one busy period
\* or one idle event under way.  (A steer that comes too late breaks the account.)
Calm == lifecycle = "active" /\ strays = {}

Watched ==
    /\ timer = "faulting" => lifecycle # "active"
    /\ Calm => /\ \A p \in waiters : p \in Prompts /\ pc[p] \in {"sending", "ending"}
               /\ (busy \cup Range(wire)) \cap turns \subseteq waiters
               /\ busy # {} \/ idles > 0 => waiters # {}
               /\ busy # {} => idles = 0
               /\ idles <= 1
               /\ Range(wire) \cap turns # {} => busy = {} /\ idles = 0

Inv == Typed /\ OneTurn /\ Placed /\ Quiet /\ Served /\ Watched

-----------------------------------------------------------------------------
(* Lemmas about the queue and the wire.                                     *)

LEMMA EmptyIs == Line(<<>>) /\ Range(<<>>) = {}
  BY DEF Line, Distinct, Range

LEMMA LineOfPrompts == ASSUME NEW q, Line(q) PROVE Range(q) \subseteq Prompts
  BY DEF Line, Range

LEMMA HeadAndTail ==
    ASSUME NEW q, Line(q), q # <<>>
    PROVE  /\ Head(q) \in Range(q) /\ Head(q) \in Prompts
           /\ Line(Tail(q)) /\ Range(Tail(q)) = Range(q) \ {Head(q)}
<1>1. /\ q \in Seq(Prompts) /\ Len(q) \in Nat \ {0} /\ Head(q) = q[1]
      /\ Tail(q) \in Seq(Prompts) /\ Len(Tail(q)) = Len(q) - 1
      /\ \A i \in 1 .. Len(Tail(q)) : Tail(q)[i] = q[i + 1]
  BY DEF Line
<1>2. DOMAIN q = 1 .. Len(q) /\ DOMAIN Tail(q) = 1 .. Len(Tail(q))
  BY <1>1
<1>3. Line(Tail(q))
  <2>1. ASSUME NEW i \in 1 .. Len(Tail(q)), NEW j \in 1 .. Len(Tail(q)),
               Tail(q)[i] = Tail(q)[j]
        PROVE  i = j
    <3>1. q[i + 1] = q[j + 1] /\ i + 1 \in 1 .. Len(q) /\ j + 1 \in 1 .. Len(q)
      BY <1>1, <2>1
    <3> QED
      BY <1>1, <3>1 DEF Line, Distinct
  <2> QED
    BY <1>1, <2>1 DEF Line, Distinct
<1>4. Head(q) \in Range(q) /\ Head(q) \in Prompts
  BY <1>1, <1>2 DEF Range
<1>5. ASSUME NEW x \in Range(Tail(q)) PROVE x \in Range(q) /\ x # Head(q)
  <2>1. PICK i \in 1 .. Len(Tail(q)) : x = Tail(q)[i]
    BY <1>2, <1>5 DEF Range
  <2>2. x = q[i + 1] /\ i + 1 \in 1 .. Len(q) /\ i + 1 # 1 /\ 1 \in 1 .. Len(q)
    BY <1>1, <2>1
  <2> QED
    BY <1>1, <1>2, <2>2 DEF Range, Line, Distinct
<1>6. ASSUME NEW x \in Range(q), x # Head(q) PROVE x \in Range(Tail(q))
  <2>1. PICK i \in 1 .. Len(q) : x = q[i]
    BY <1>2, <1>6 DEF Range
  <2>2. i # 1 /\ i - 1 \in 1 .. Len(Tail(q)) /\ Tail(q)[i - 1] = q[(i - 1) + 1] /\ (i - 1) + 1 = i
    BY <1>1, <1>6, <2>1
  <2> QED
    BY <1>2, <2>1, <2>2 DEF Range
<1> QED
  BY <1>3, <1>4, <1>5, <1>6

LEMMA AppendIs ==
    ASSUME NEW q, Line(q), NEW p \in Prompts, p \notin Range(q)
    PROVE  Line(Append(q, p)) /\ Range(Append(q, p)) = Range(q) \cup {p}
<1> DEFINE r == Append(q, p)
<1>1. /\ q \in Seq(Prompts) /\ Len(q) \in Nat
      /\ r \in Seq(Prompts) /\ Len(r) = Len(q) + 1
      /\ \A i \in 1 .. Len(q) : r[i] = q[i]
      /\ r[Len(q) + 1] = p
  BY DEF Line
<1>2. DOMAIN q = 1 .. Len(q) /\ DOMAIN r = 1 .. (Len(q) + 1)
  BY <1>1
<1>3. \A i \in 1 .. Len(q) : q[i] # p
  BY <1>2 DEF Range
<1> HIDE DEF r
<1>4. Line(r)
  BY <1>1, <1>3 DEF Line, Distinct
<1>5. Range(r) = Range(q) \cup {p}
  BY <1>1, <1>2 DEF Range
<1> QED
  BY <1>4, <1>5 DEF r

\* runTurn of the app: without a turn under way it claims the session, and
\* otherwise the prompt goes to the turn there is.
LEMMA RunTurnIs ==
    ASSUME NEW p \in Prompts, NEW pcs \in [Prompts -> Places], NEW claimed \in BOOLEAN,
           RunTurn(p, pcs, claimed)
    PROVE  /\ pc' \in [Prompts -> Places]
           /\ \A r \in Prompts \ {p} : pc'[r] = pcs[r]
           /\ pc'[p] \in {"done", "preparing", "card"}
           /\ running' \in BOOLEAN /\ (claimed => running')
           /\ claimed => pc'[p] # "preparing" /\ currentAbort' = currentAbort
           /\ ~claimed => /\ pc'[p] = "preparing" <=> lifecycle # "faulted"
                          /\ running' <=> lifecycle # "faulted"
           /\ pc'[p] = "preparing" => currentAbort' = p
           /\ ~claimed => pc'[p] # "card"
  BY DEF RunTurn, Begun, Places

\* drainQueue changes nothing, or starts a turn with the prompt that waited longest.
LEMMA DrainIs ==
    ASSUME NEW pcs \in [Prompts -> Places], NEW claimed \in BOOLEAN, Line(queue),
           DrainQueue(pcs, claimed)
    PROVE  \/ /\ pc' = pcs /\ running' = claimed
              /\ queue' = queue /\ currentAbort' = currentAbort
              /\ phase # "ready" \/ ~mapped \/ claimed \/ queue = <<>>
           \/ \E h \in Range(queue) :
                 /\ h \in Prompts /\ ~claimed /\ phase = "ready"
                 /\ Line(queue') /\ Range(queue') = Range(queue) \ {h}
                 /\ RunTurn(h, pcs, claimed)
<1>1. CASE phase # "ready" \/ ~mapped \/ claimed \/ queue = <<>>
  BY <1>1 DEF DrainQueue
<1>2. CASE ~(phase # "ready" \/ ~mapped \/ claimed \/ queue = <<>>)
  <2>1. queue' = Tail(queue) /\ RunTurn(Head(queue), pcs, claimed)
    BY <1>2 DEF DrainQueue
  <2> QED
    BY <1>2, <2>1, HeadAndTail
<1> QED
  BY <1>1, <1>2

LEMMA DropIs ==
    ASSUME pc \in [Prompts -> Places], pc' = Drop
    PROVE  /\ pc' \in [Prompts -> Places]
           /\ \A p \in Prompts : pc'[p] = IF pc[p] = "queued" THEN "done" ELSE pc[p]
  BY DEF Drop, Places

-----------------------------------------------------------------------------
(* The invariant holds at the start.                                        *)

LEMMA InitInv == Init => Inv
<1> SUFFICES ASSUME Init PROVE Inv
  OBVIOUS
<1>1. Typed
  BY EmptyIs DEF Init, Typed, Places
<1>2. OneTurn /\ Placed /\ Quiet /\ Served /\ Watched
  BY EmptyIs DEF Init, OneTurn, InTurn, Placed, Quiet, StopQuiets, Served, Watched, Calm
<1> QED
  BY <1>1, <1>2 DEF Inv


-----------------------------------------------------------------------------
(* The app starts turns.                                                    *)

LEMMA MessageKeeps ==
    ASSUME Inv, NEW p \in Prompts, Message(p) PROVE Inv'
<1>1. /\ pc[p] = "new" /\ RunTurn(p, pc, running)
      /\ UNCHANGED <<phase, mapped, queue, aborted, replying, lifecycle, aborting, waiters,
                     timer, wire, busy, idles, turns, steers, stopped, strays, left>>
  BY DEF Message, actorVars, runtimeVars, ghosts
<1>2. /\ pc' \in [Prompts -> Places]
      /\ \A r \in Prompts \ {p} : pc'[r] = pc[r]
      /\ pc'[p] \in {"done", "preparing", "card"}
      /\ running' \in BOOLEAN /\ (running => running')
      /\ running => pc'[p] # "preparing" /\ currentAbort' = currentAbort
      /\ ~running => (pc'[p] = "preparing" <=> lifecycle # "faulted")
      /\ ~running => (running' <=> lifecycle # "faulted")
      /\ pc'[p] = "preparing" => currentAbort' = p
      /\ ~running => pc'[p] # "card"
  BY <1>1, RunTurnIs DEF Inv, Typed
<1>3. Typed'
  BY <1>1, <1>2 DEF Inv, Typed, Line
<1>4. OneTurn'
  BY <1>1, <1>2 DEF Inv, Typed, OneTurn, InTurn
<1>5. Placed'
  BY <1>1, <1>2 DEF Inv, Typed, Placed, Line
<1>6. Quiet'
  BY <1>1, <1>2 DEF Inv, Typed, Quiet, StopQuiets
<1>7. Served'
  BY <1>1, <1>2 DEF Inv, Typed, Served
<1>8. Watched'
  BY <1>1, <1>2 DEF Inv, Typed, Watched, Calm
<1> QED
  BY <1>3, <1>4, <1>5, <1>6, <1>7, <1>8 DEF Inv

LEMMA QueueKeeps ==
    ASSUME Inv, NEW p \in Prompts, Queue(p) PROVE Inv'
<1>1. /\ pc[p] = "new" /\ mapped /\ phase = "ready"
      /\ queue' = Append(queue, p)
      /\ pc' = [pc EXCEPT ![p] = "queued"]
      /\ replying' = IF running THEN replying ELSE replying \cup {p}
      /\ UNCHANGED <<phase, mapped, running, currentAbort, aborted, lifecycle, aborting, waiters,
                     timer, wire, busy, idles, turns, steers, stopped, strays, left>>
  BY DEF Queue, actorVars, runtimeVars, ghosts
<1>2. p \notin Range(queue)
  BY <1>1 DEF Inv, Placed
<1>3. Line(queue') /\ Range(queue') = Range(queue) \cup {p}
  BY <1>1, <1>2, AppendIs DEF Inv, Typed
<1>4. /\ pc' \in [Prompts -> Places] /\ pc'[p] = "queued"
      /\ \A r \in Prompts \ {p} : pc'[r] = pc[r]
  BY <1>1 DEF Inv, Typed, Places
<1>a. Typed'
  BY <1>1, <1>3, <1>4 DEF Inv, Typed
<1>b. OneTurn'
  BY <1>1, <1>3, <1>4 DEF Inv, Typed, OneTurn, InTurn
<1>c. Placed'
  BY <1>1, <1>3, <1>4 DEF Inv, Typed, Placed
<1>d. Quiet'
  BY <1>1, <1>3, <1>4 DEF Inv, Typed, Quiet, StopQuiets
<1>e. Served'
  BY <1>1, <1>3, <1>4 DEF Inv, Typed, Served
<1>f. Watched'
  BY <1>1, <1>3, <1>4 DEF Inv, Typed, Watched, Calm
<1> QED
  BY <1>a, <1>b, <1>c, <1>d, <1>e, <1>f DEF Inv

\* What follows a turn that is over, or a reply, when there is a queue: its first
\* prompt is taken and the session claimed with nothing in between.  (pcs is pc, or
\* pc with the turn that is over taken out.)
LEMMA DrainKeeps ==
    ASSUME Inv,
           NEW pcs \in [Prompts -> Places], NEW claimed \in BOOLEAN,
           \A r \in Prompts : pcs[r] = pc[r] \/ (pc[r] = "flushing" /\ pcs[r] = "done"),
           claimed => running /\ pcs = pc,
           ~claimed => \A r \in Prompts : pcs[r] \notin {"preparing", "sending", "ending", "flushing"},
           DrainQueue(pcs, claimed),
           UNCHANGED <<phase, mapped, aborted, lifecycle, aborting, waiters, timer, wire, busy,
                       idles, turns, steers, stopped, strays>>
    PROVE  /\ Typed' /\ OneTurn' /\ Placed' /\ Quiet' /\ Watched'
           /\ lifecycle = "active" /\ ~running' => queue' = <<>> /\ queue = <<>>
           /\ Range(queue') \subseteq Range(queue)
           /\ queue = <<>> => queue' = <<>>
<1>1. CASE /\ pc' = pcs /\ running' = claimed
           /\ queue' = queue /\ currentAbort' = currentAbort
           /\ phase # "ready" \/ ~mapped \/ claimed \/ queue = <<>>
  <2>1. Typed'
    BY <1>1 DEF Inv, Typed
  <2>2. OneTurn'
    BY <1>1 DEF Inv, Typed, OneTurn, InTurn
  <2>3. Placed'
    BY <1>1 DEF Inv, Typed, Placed
  <2>4. Quiet'
    BY <1>1 DEF Inv, Typed, Quiet, StopQuiets
  <2>5. Watched'
    BY <1>1 DEF Inv, Typed, Watched, Calm
  <2>6. lifecycle = "active" /\ ~running' => queue' = <<>> /\ queue = <<>>
    BY <1>1 DEF Inv, Served
  <2> QED
    BY <1>1, <2>1, <2>2, <2>3, <2>4, <2>5, <2>6
<1>2. ASSUME NEW h \in Range(queue),
             h \in Prompts, ~claimed, phase = "ready",
             Line(queue'), Range(queue') = Range(queue) \ {h},
             RunTurn(h, pcs, claimed)
      PROVE  /\ Typed' /\ OneTurn' /\ Placed' /\ Quiet' /\ Watched'
             /\ lifecycle = "active" /\ ~running' => queue' = <<>> /\ queue = <<>>
             /\ Range(queue') \subseteq Range(queue)
             /\ queue = <<>> => queue' = <<>>
  <2>1. /\ pc' \in [Prompts -> Places]
        /\ \A r \in Prompts \ {h} : pc'[r] = pcs[r]
        /\ pc'[h] \in {"done", "preparing"}
        /\ running' \in BOOLEAN
        /\ pc'[h] = "preparing" <=> lifecycle # "faulted"
        /\ running' <=> lifecycle # "faulted"
        /\ pc'[h] = "preparing" => currentAbort' = h
    <3>1. /\ pc' \in [Prompts -> Places]
          /\ \A r \in Prompts \ {h} : pc'[r] = pcs[r]
          /\ pc'[h] \in {"done", "preparing", "card"} /\ pc'[h] # "card"
          /\ running' \in BOOLEAN
          /\ pc'[h] = "preparing" <=> lifecycle # "faulted"
          /\ running' <=> lifecycle # "faulted"
          /\ pc'[h] = "preparing" => currentAbort' = h
      BY <1>2, RunTurnIs
    <3> QED
      BY <3>1
  <2>2. pc[h] = "queued" /\ pcs[h] = "queued" /\ queue # <<>>
    BY <1>2, EmptyIs DEF Inv, Placed
  <2>3. Typed'
    BY <1>2, <2>1 DEF Inv, Typed
  <2>4. OneTurn'
    BY <1>2, <2>1 DEF Inv, Typed, OneTurn, InTurn
  <2>5. Placed'
    BY <1>2, <2>1, <2>2 DEF Inv, Typed, Placed
  <2>6. Quiet'
    BY <1>2, <2>1, <2>2 DEF Inv, Typed, Quiet, StopQuiets
  <2>7. Watched'
    BY <1>2, <2>1, <2>2 DEF Inv, Typed, Watched, Calm
  <2> QED
    BY <1>2, <2>1, <2>2, <2>3, <2>4, <2>5, <2>6, <2>7
<1> QED
  BY <1>1, <1>2, DrainIs DEF Inv, Typed

LEMMA RepliedKeeps ==
    ASSUME Inv, NEW p \in Prompts, NEW ok \in BOOLEAN, Replied(p, ok) PROVE Inv'
<1>1. /\ p \in replying /\ replying' = replying \ {p}
      /\ UNCHANGED <<phase, mapped, aborted, lifecycle, aborting, waiters, timer, wire, busy,
                     idles, turns, steers, stopped, strays>>
  BY DEF Replied, actorVars, runtimeVars
<1>2. CASE ok
  <2>1. DrainQueue(pc, running) /\ left' = left
    BY <1>2 DEF Replied
  <2>2. ~running => \A r \in Prompts : pc[r] \notin {"preparing", "sending", "ending", "flushing"}
    BY DEF Inv, OneTurn, InTurn
  <2>3. /\ Typed' /\ OneTurn' /\ Placed' /\ Quiet' /\ Watched'
        /\ lifecycle = "active" /\ ~running' => queue' = <<>> /\ queue = <<>>
        /\ Range(queue') \subseteq Range(queue)
        /\ queue = <<>> => queue' = <<>>
    BY <1>1, <2>1, <2>2, DrainKeeps DEF Inv, Typed
  <2>4. Served'
    BY <1>1, <2>3, EmptyIs DEF Inv, Served
  <2> QED
    BY <2>3, <2>4 DEF Inv
<1>3. CASE ~ok
  <2>1. left' = left \cup {p} /\ UNCHANGED <<pc, running, queue, currentAbort>>
    BY <1>3 DEF Replied
  <2>2. Typed' /\ OneTurn' /\ Placed' /\ Quiet'
    BY <1>1, <2>1 DEF Inv, Typed, OneTurn, InTurn, Placed, Quiet, StopQuiets
  <2>3. Served'
    BY <1>1, <2>1 DEF Inv, Served
  <2>4. Watched'
    BY <1>1, <2>1 DEF Inv, Watched, Calm
  <2> QED
    BY <2>2, <2>3, <2>4 DEF Inv
<1> QED
  BY <1>2, <1>3

LEMMA TurnOverKeeps ==
    ASSUME Inv, NEW p \in Prompts, TurnOver(p) PROVE Inv'
<1> DEFINE over == [pc EXCEPT ![p] = "done"]
<1>1. /\ pc[p] = "flushing" /\ DrainQueue(over, FALSE)
      /\ UNCHANGED <<phase, mapped, aborted, lifecycle, aborting, waiters, timer, wire, busy,
                     idles, turns, steers, stopped, strays, replying, left>>
  BY DEF TurnOver, actorVars, runtimeVars, ghosts
<1>2. over \in [Prompts -> Places] /\ over[p] = "done" /\ \A r \in Prompts \ {p} : over[r] = pc[r]
  BY DEF Inv, Typed, Places
<1> HIDE DEF over
<1>3. \A r \in Prompts : over[r] \notin {"preparing", "sending", "ending", "flushing"}
  BY <1>1, <1>2 DEF Inv, OneTurn, InTurn
<1>4. \A r \in Prompts : over[r] = pc[r] \/ (pc[r] = "flushing" /\ over[r] = "done")
  BY <1>1, <1>2
<1>5. /\ Typed' /\ OneTurn' /\ Placed' /\ Quiet' /\ Watched'
      /\ lifecycle = "active" /\ ~running' => queue' = <<>> /\ queue = <<>>
      /\ Range(queue') \subseteq Range(queue)
      /\ queue = <<>> => queue' = <<>>
  BY <1>1, <1>2, <1>3, <1>4, DrainKeeps
<1>6. Served'
  BY <1>1, <1>5, EmptyIs DEF Inv, Served
<1> QED
  BY <1>5, <1>6 DEF Inv

-----------------------------------------------------------------------------
(* A turn and a steer.                                                      *)

LEMMA SentKeeps ==
    ASSUME Inv, NEW p \in Prompts, Sent(p) PROVE Inv'
<1>1. /\ pc[p] = "sending" /\ p \notin Range(wire)
      /\ pc' = [pc EXCEPT ![p] = "ending"] /\ timer' = "armed"
      /\ UNCHANGED <<phase, mapped, queue, running, currentAbort, aborted, replying, lifecycle,
                     aborting, waiters, wire, busy, idles, turns, steers, stopped, strays, left>>
  BY DEF Sent, appVars, runtimeVars, ghosts
<1>2. /\ pc' \in [Prompts -> Places] /\ pc'[p] = "ending"
      /\ \A r \in Prompts \ {p} : pc'[r] = pc[r]
  BY <1>1 DEF Inv, Typed, Places
<1>4. Typed'
  BY <1>1, <1>2 DEF Inv, Typed
<1>5. OneTurn'
  BY <1>1, <1>2 DEF Inv, Typed, OneTurn, InTurn
<1>6. Placed'
  BY <1>1, <1>2 DEF Inv, Typed, Placed
<1>7. Quiet'
  BY <1>1, <1>2 DEF Inv, Typed, Quiet, StopQuiets
<1>8. Served'
  BY <1>1, <1>2 DEF Inv, Typed, Served
<1>9. Watched'
  BY <1>1, <1>2 DEF Inv, Typed, Watched, Calm
<1> QED
  BY <1>4, <1>5, <1>6, <1>7, <1>8, <1>9 DEF Inv

LEMMA TurnDoneKeeps ==
    ASSUME Inv, NEW p \in Prompts, TurnDone(p) PROVE Inv'
<1>1. /\ pc[p] = "ending" /\ p \notin waiters
      /\ pc' = [pc EXCEPT ![p] = "flushing"] /\ timer' = "off"
      /\ UNCHANGED <<phase, mapped, queue, running, currentAbort, aborted, replying, lifecycle,
                     aborting, waiters, wire, busy, idles, turns, steers, stopped, strays, left>>
  BY DEF TurnDone, Done, appVars, runtimeVars, ghosts
<1>2. /\ pc' \in [Prompts -> Places] /\ pc'[p] = "flushing"
      /\ \A r \in Prompts \ {p} : pc'[r] = pc[r]
  BY <1>1 DEF Inv, Typed, Places
<1>4. Typed'
  BY <1>1, <1>2 DEF Inv, Typed
<1>5. OneTurn'
  BY <1>1, <1>2 DEF Inv, Typed, OneTurn, InTurn
<1>6. Placed'
  BY <1>1, <1>2 DEF Inv, Typed, Placed
<1>7. Quiet'
  BY <1>1, <1>2 DEF Inv, Typed, Quiet, StopQuiets
<1>8. Served'
  BY <1>1, <1>2 DEF Inv, Typed, Served
<1>9. Watched'
  BY <1>1, <1>2 DEF Inv, Typed, Watched, Calm
<1> QED
  BY <1>4, <1>5, <1>6, <1>7, <1>8, <1>9 DEF Inv

LEMMA FaultedKeeps ==
    ASSUME Inv, NEW p \in Prompts, Faulted(p) PROVE Inv'
<1>1. /\ pc[p] = "ending" /\ timer = "faulting"
      /\ pc' = [pc EXCEPT ![p] = "flushing"] /\ timer' = "off"
      /\ UNCHANGED <<phase, mapped, queue, running, currentAbort, aborted, replying, lifecycle,
                     aborting, waiters, wire, busy, idles, turns, steers, stopped, strays, left>>
  BY DEF Faulted, Done, appVars, runtimeVars, ghosts
<1>2. /\ pc' \in [Prompts -> Places] /\ pc'[p] = "flushing"
      /\ \A r \in Prompts \ {p} : pc'[r] = pc[r]
  BY <1>1 DEF Inv, Typed, Places
<1>4. Typed'
  BY <1>1, <1>2 DEF Inv, Typed
<1>5. OneTurn'
  BY <1>1, <1>2 DEF Inv, Typed, OneTurn, InTurn
<1>6. Placed'
  BY <1>1, <1>2 DEF Inv, Typed, Placed
<1>7. Quiet'
  BY <1>1, <1>2 DEF Inv, Typed, Quiet, StopQuiets
<1>8. Served'
  BY <1>1, <1>2 DEF Inv, Typed, Served
<1>9. Watched'
  BY <1>1, <1>2 DEF Inv, Typed, Watched, Calm
<1> QED
  BY <1>4, <1>5, <1>6, <1>7, <1>8, <1>9 DEF Inv

LEMMA SteeredKeeps ==
    ASSUME Inv, NEW p \in Prompts, Steered(p) PROVE Inv'
<1>1. /\ pc[p] = "steering" /\ p \notin Range(wire)
      /\ pc' = [pc EXCEPT ![p] = "done"] /\ timer' = RefreshWatchdog
      /\ UNCHANGED <<phase, mapped, queue, running, currentAbort, aborted, replying, lifecycle,
                     aborting, waiters, wire, busy, idles, turns, steers, stopped, strays, left>>
  BY DEF Steered, appVars, runtimeVars, ghosts
<1>2. /\ pc' \in [Prompts -> Places] /\ pc'[p] = "done"
      /\ \A r \in Prompts \ {p} : pc'[r] = pc[r]
  BY <1>1 DEF Inv, Typed, Places
<1>3. timer' = "faulting" => timer = "faulting"
  BY <1>1 DEF RefreshWatchdog
<1>4. Typed'
  BY <1>1, <1>2 DEF Inv, Typed
<1>5. OneTurn'
  BY <1>1, <1>2 DEF Inv, Typed, OneTurn, InTurn
<1>6. Placed'
  BY <1>1, <1>2 DEF Inv, Typed, Placed
<1>7. Quiet'
  BY <1>1, <1>2 DEF Inv, Typed, Quiet, StopQuiets
<1>8. Served'
  BY <1>1, <1>2 DEF Inv, Typed, Served
<1>9. Watched'
  BY <1>1, <1>2, <1>3 DEF Inv, Typed, Watched, Calm
<1> QED
  BY <1>4, <1>5, <1>6, <1>7, <1>8, <1>9 DEF Inv

\* A turn's prompt is written only when /stop has not reached it, and then it waits
\* for the end of a busy period that has not begun.
LEMMA PreparedKeeps ==
    ASSUME Inv, NEW p \in Prompts, NEW usable \in BOOLEAN, Prepared(p, usable) PROVE Inv'
<1>1. /\ pc[p] = "preparing" /\ currentAbort' = None
      /\ UNCHANGED <<phase, mapped, queue, running, aborted, replying, lifecycle, timer,
                     busy, idles, steers, stopped, strays, left>>
  BY DEF Prepared
<1>2. CASE p \notin aborted /\ usable /\ lifecycle = "active"
  <2>1. /\ pc' = [pc EXCEPT ![p] = "sending"]
        /\ waiters' = waiters \cup {p}
        /\ wire' = Append(wire, p) /\ turns' = turns \cup {p}
    BY <1>2 DEF Prepared, SendPrompt
  <2>2. p \notin Range(wire) /\ p \notin turns \cup steers
    BY <1>1 DEF Inv, Placed
  <2>3. Line(wire') /\ Range(wire') = Range(wire) \cup {p}
    BY <2>1, <2>2, AppendIs DEF Inv, Typed
  <2>4. /\ pc' \in [Prompts -> Places] /\ pc'[p] = "sending"
        /\ \A r \in Prompts \ {p} : pc'[r] = pc[r]
    BY <2>1 DEF Inv, Typed, Places
  <2>5. \A r \in Prompts \ {p} : ~InTurn(r)
    BY <1>1 DEF Inv, OneTurn, InTurn
  <2>6. Typed'
    BY <1>1, <2>1, <2>3, <2>4 DEF Inv, Typed
  <2>7. OneTurn'
    BY <1>1, <2>4 DEF Inv, Typed, OneTurn, InTurn
  <2>8. Placed'
    BY <1>1, <2>1, <2>2, <2>3, <2>4 DEF Inv, Typed, Placed
  <2>9. Quiet'
    BY <1>1, <1>2, <2>1, <2>4 DEF Inv, Typed, Quiet, StopQuiets
  <2>10. Served'
    BY <1>1 DEF Inv, Served
  <2>11. Watched'
    <3>1. CASE ~Calm'
      BY <1>1, <1>2, <3>1 DEF Inv, Watched
    <3>2. CASE Calm'
      <4>1. Calm
        BY <1>1, <3>2 DEF Calm
      <4>2. waiters = {}
        BY <1>1, <2>5, <4>1 DEF Inv, Watched, InTurn
      <4>3. busy = {} /\ idles = 0
        BY <4>1, <4>2 DEF Inv, Typed, Watched
      <4>4. Range(wire) \cap turns = {}
        BY <4>1, <4>2 DEF Inv, Watched
      <4> QED
        BY <1>1, <1>2, <2>1, <2>3, <2>4, <4>1, <4>2, <4>3, <4>4 DEF Inv, Watched
    <3> QED
      BY <3>1, <3>2
  <2> QED
    BY <2>6, <2>7, <2>8, <2>9, <2>10, <2>11 DEF Inv
<1>3. CASE ~(p \notin aborted /\ usable /\ lifecycle = "active")
  <2>1. pc' = [pc EXCEPT ![p] = "flushing"] /\ UNCHANGED <<waiters, aborting, wire, turns>>
    BY <1>3 DEF Prepared
  <2>2. /\ pc' \in [Prompts -> Places] /\ pc'[p] = "flushing"
        /\ \A r \in Prompts \ {p} : pc'[r] = pc[r]
    BY <2>1 DEF Inv, Typed, Places
  <2>3. Typed' /\ OneTurn'
    BY <1>1, <2>1, <2>2 DEF Inv, Typed, OneTurn, InTurn
  <2>4. Placed'
    BY <1>1, <2>1, <2>2 DEF Inv, Typed, Placed
  <2>5. Quiet' /\ Served'
    BY <1>1, <2>1, <2>2 DEF Inv, Typed, Quiet, StopQuiets, Served
  <2>6. Watched'
    BY <1>1, <2>1, <2>2 DEF Inv, Typed, Watched, Calm
  <2> QED
    BY <2>3, <2>4, <2>5, <2>6 DEF Inv
<1> QED
  BY <1>2, <1>3

LEMMA SteerSentKeeps ==
    ASSUME Inv, NEW p \in Prompts, SteerSent(p) PROVE Inv'
<1>1. /\ pc[p] = "card"
      /\ UNCHANGED <<phase, mapped, queue, running, currentAbort, aborted, replying, lifecycle,
                     aborting, waiters, timer, busy, idles, turns, stopped, strays, left>>
  BY DEF SteerSent, appVars, actorVars
<1>2. p \notin Range(wire) /\ p \notin turns \cup steers
  BY <1>1 DEF Inv, Placed
<1>3. \/ pc' = [pc EXCEPT ![p] = "done"] /\ UNCHANGED <<wire, steers>>
      \/ /\ pc' = [pc EXCEPT ![p] = "steering"]
         /\ Line(wire') /\ Range(wire') = Range(wire) \cup {p} /\ steers' = steers \cup {p}
  BY <1>2, AppendIs DEF SteerSent, Inv, Typed
<1>10. /\ pc' \in [Prompts -> Places] /\ \A r \in Prompts \ {p} : pc'[r] = pc[r]
       /\ \/ pc'[p] = "done" /\ UNCHANGED <<wire, steers>>
          \/ /\ pc'[p] = "steering"
             /\ Line(wire') /\ Range(wire') = Range(wire) \cup {p} /\ steers' = steers \cup {p}
  BY <1>3 DEF Inv, Typed, Places
<1>4. Typed'
  BY <1>1, <1>2, <1>10 DEF Inv, Typed
<1>5. OneTurn'
  BY <1>1, <1>2, <1>10 DEF Inv, Typed, OneTurn, InTurn
<1>6. Placed'
  BY <1>1, <1>2, <1>10 DEF Inv, Typed, Placed
<1>7. Quiet'
  BY <1>1, <1>2, <1>10 DEF Inv, Typed, Quiet, StopQuiets
<1>8. Served'
  BY <1>1, <1>2, <1>10 DEF Inv, Typed, Served
<1>9. Watched'
  BY <1>1, <1>2, <1>10 DEF Inv, Typed, Watched, Calm
<1> QED
  BY <1>4, <1>5, <1>6, <1>7, <1>8, <1>9 DEF Inv

LEMMA RefusedKeeps ==
    ASSUME Inv, NEW p \in Prompts, Refused(p) PROVE Inv'
<1>1. /\ pc[p] \in {"sending", "steering"} /\ wire # <<>> /\ Head(wire) = p
      /\ wire' = Tail(wire) /\ waiters' = waiters \ {p}
      /\ pc' = [pc EXCEPT ![p] = IF @ = "sending" THEN "flushing" ELSE "done"]
      /\ UNCHANGED <<phase, mapped, queue, running, currentAbort, aborted, replying, lifecycle,
                     aborting, timer, busy, idles, turns, steers, stopped, strays, left>>
  BY DEF Refused, appVars, ghosts
<1>2. p \in Range(wire) /\ Line(wire') /\ Range(wire') = Range(wire) \ {p}
  BY <1>1, HeadAndTail DEF Inv, Typed
<1>3. /\ pc' \in [Prompts -> Places] /\ \A r \in Prompts \ {p} : pc'[r] = pc[r]
      /\ pc[p] = "sending" => pc'[p] = "flushing"
      /\ pc[p] = "steering" => pc'[p] = "done"
  BY <1>1 DEF Inv, Typed, Places
<1>4. Typed'
  BY <1>1, <1>2, <1>3 DEF Inv, Typed
<1>5. OneTurn'
  BY <1>1, <1>2, <1>3 DEF Inv, Typed, OneTurn, InTurn
<1>6. Placed'
  BY <1>1, <1>2, <1>3 DEF Inv, Typed, Placed
<1>7. Quiet'
  BY <1>1, <1>2, <1>3 DEF Inv, Typed, Quiet, StopQuiets
<1>8. Served'
  BY <1>1, <1>2, <1>3 DEF Inv, Typed, Served
<1>9. Watched'
  <2>1. CASE ~Calm
    BY <1>1, <2>1 DEF Inv, Watched, Calm
  <2>2. CASE Calm /\ pc[p] = "sending"
    <3>1. p \in turns
      BY <1>2, <2>2 DEF Inv, Placed
    <3>2. busy = {} /\ idles = 0
      BY <1>2, <2>2, <3>1 DEF Inv, Watched
    <3> QED
      BY <1>1, <1>2, <1>3, <2>2, <3>2 DEF Inv, Watched
  <2>3. CASE Calm /\ pc[p] = "steering"
    <3>1. waiters' = waiters
      BY <1>1, <2>3 DEF Inv, Watched
    <3> QED
      BY <1>1, <1>2, <1>3, <2>3, <3>1 DEF Inv, Watched, Calm
  <2> QED
    BY <1>1, <2>1, <2>2, <2>3
<1> QED
  BY <1>4, <1>5, <1>6, <1>7, <1>8, <1>9 DEF Inv

-----------------------------------------------------------------------------
(* What ends a turn early.                                                  *)

LEMMA ClearKeeps ==
    ASSUME Inv, Clear PROVE Inv'
<1>1. /\ queue' = <<>> /\ pc' = Drop
      /\ UNCHANGED <<phase, mapped, running, currentAbort, aborted, replying, lifecycle,
                     aborting, waiters, timer, wire, busy, idles, turns, steers, stopped,
                     strays, left>>
  BY DEF Clear, actorVars, runtimeVars, ghosts
<1>2. /\ pc' \in [Prompts -> Places]
      /\ \A p \in Prompts : pc'[p] = IF pc[p] = "queued" THEN "done" ELSE pc[p]
      /\ Line(queue') /\ Range(queue') = {}
  BY <1>1, DropIs, EmptyIs DEF Inv, Typed
<1>4. Typed'
  BY <1>1, <1>2 DEF Inv, Typed
<1>5. OneTurn'
  BY <1>1, <1>2 DEF Inv, Typed, OneTurn, InTurn
<1>6. Placed'
  BY <1>1, <1>2 DEF Inv, Typed, Placed
<1>7. Quiet'
  BY <1>1, <1>2 DEF Inv, Typed, Quiet, StopQuiets
<1>8. Served'
  BY <1>1, <1>2 DEF Inv, Typed, Served
<1>9. Watched'
  BY <1>1, <1>2 DEF Inv, Typed, Watched, Calm
<1> QED
  BY <1>4, <1>5, <1>6, <1>7, <1>8, <1>9 DEF Inv

\* What is queued goes, and what is being prepared is what the session holds the
\* AbortController of.
LEMMA StopKeeps ==
    ASSUME Inv, Stop PROVE Inv'
<1>1. /\ queue' = <<>> /\ pc' = Drop
      /\ aborted' = aborted \cup ({currentAbort} \ {None})
      /\ stopped' = stopped \cup Range(queue) \cup {p \in Prompts : pc[p] = "preparing"}
      /\ UNCHANGED <<phase, mapped, running, currentAbort, replying, lifecycle, waiters,
                     timer, wire, busy, idles, turns, steers, strays, left>>
  BY DEF Stop, Abort, runtimeVars
<1>2. /\ pc' \in [Prompts -> Places]
      /\ \A p \in Prompts : pc'[p] = IF pc[p] = "queued" THEN "done" ELSE pc[p]
      /\ Line(queue') /\ Range(queue') = {}
  BY <1>1, DropIs, EmptyIs DEF Inv, Typed
<1>3. \A p \in Prompts : pc[p] = "preparing" => p \in aborted'
  BY <1>1, TurnsAssumption DEF Inv, OneTurn
<1>10. \A p \in stopped' : \/ p \in stopped
                           \/ p \in Prompts /\ pc[p] \in {"queued", "preparing"}
  BY <1>1, LineOfPrompts DEF Inv, Typed, Placed
<1>4. Typed'
  BY <1>1, <1>2, <1>10 DEF Inv, Typed
<1>5. OneTurn'
  BY <1>1, <1>2 DEF Inv, Typed, OneTurn, InTurn
<1>6. Placed'
  BY <1>1, <1>2 DEF Inv, Typed, Placed
<1>7. Quiet'
  <2>1. StopQuiets'
    BY <1>1, <1>10 DEF Inv, Quiet, Placed, StopQuiets
  <2>2. ASSUME NEW p \in stopped'
        PROVE  pc'[p] \in {"flushing", "done"} \/ (pc'[p] = "preparing" /\ p \in aborted')
    <3>1. p \in Prompts /\ aborted \subseteq aborted'
      BY <1>1, <1>10 DEF Inv, Typed
    <3>2. CASE p \in stopped
      BY <1>2, <2>2, <3>1, <3>2 DEF Inv, Quiet
    <3>3. CASE pc[p] \in {"queued", "preparing"}
      BY <1>2, <1>3, <3>1, <3>3
    <3> QED
      BY <1>10, <3>2, <3>3
  <2> QED
    BY <2>1, <2>2 DEF Quiet
<1>8. Served'
  BY <1>1, <1>2 DEF Inv, Typed, Served
<1>9. Watched'
  BY <1>1, <1>2 DEF Inv, Typed, Watched, Calm
<1> QED
  BY <1>4, <1>5, <1>6, <1>7, <1>8, <1>9 DEF Inv

LEMMA EndKeeps ==
    ASSUME Inv, End PROVE Inv'
<1>1. /\ mapped
      /\ queue' = <<>> /\ pc' = Drop
      /\ aborted' = aborted \cup ({currentAbort} \ {None})
      /\ lifecycle' \in {lifecycle, "closing"}
      /\ lifecycle' # "active"
      /\ stopped' = stopped \cup Range(queue) \cup {p \in Prompts : pc[p] = "preparing"}
      /\ UNCHANGED <<phase, mapped, running, currentAbort, replying, waiters, timer, wire,
                     busy, idles, turns, steers, strays, left>>
  BY DEF End, Disconnect, runtimeVars
<1>2. /\ pc' \in [Prompts -> Places]
      /\ \A p \in Prompts : pc'[p] = IF pc[p] = "queued" THEN "done" ELSE pc[p]
      /\ Line(queue') /\ Range(queue') = {}
  BY <1>1, DropIs, EmptyIs DEF Inv, Typed
<1>3. \A p \in Prompts : pc[p] = "preparing" => p \in aborted'
  BY <1>1, TurnsAssumption DEF Inv, OneTurn
<1>10. \A p \in stopped' : \/ p \in stopped
                           \/ p \in Prompts /\ pc[p] \in {"queued", "preparing"}
  BY <1>1, LineOfPrompts DEF Inv, Typed, Placed
<1>4. Typed'
  BY <1>1, <1>2, <1>10 DEF Inv, Typed
<1>5. OneTurn'
  BY <1>1, <1>2 DEF Inv, Typed, OneTurn, InTurn
<1>6. Placed'
  BY <1>1, <1>2 DEF Inv, Typed, Placed
<1>7. Quiet'
  <2>1. StopQuiets'
    BY <1>1, <1>10 DEF Inv, Quiet, Placed, StopQuiets
  <2>2. ASSUME NEW p \in stopped'
        PROVE  pc'[p] \in {"flushing", "done"} \/ (pc'[p] = "preparing" /\ p \in aborted')
    <3>1. p \in Prompts /\ aborted \subseteq aborted'
      BY <1>1, <1>10 DEF Inv, Typed
    <3>2. CASE p \in stopped
      BY <1>2, <2>2, <3>1, <3>2 DEF Inv, Quiet
    <3>3. CASE pc[p] \in {"queued", "preparing"}
      BY <1>2, <1>3, <3>1, <3>3
    <3> QED
      BY <1>10, <3>2, <3>3
  <2> QED
    BY <2>1, <2>2 DEF Quiet
<1>8. Served'
  BY <1>1, <1>2 DEF Inv, Typed, Served
<1>9. Watched'
  BY <1>1, <1>2 DEF Inv, Typed, Watched, Calm
<1> QED
  BY <1>4, <1>5, <1>6, <1>7, <1>8, <1>9 DEF Inv

LEMMA ShutdownKeeps ==
    ASSUME Inv, Shutdown PROVE Inv'
<1>1. /\ queue' = <<>> /\ pc' = Drop
      /\ UNCHANGED <<mapped, running, currentAbort, aborted, replying, lifecycle, aborting,
                     waiters, timer, wire, busy, idles, turns, steers, stopped, strays,
                     left>>
  BY DEF Shutdown, actorVars, runtimeVars, ghosts
<1>2. /\ pc' \in [Prompts -> Places]
      /\ \A p \in Prompts : pc'[p] = IF pc[p] = "queued" THEN "done" ELSE pc[p]
      /\ Line(queue') /\ Range(queue') = {}
  BY <1>1, DropIs, EmptyIs DEF Inv, Typed
<1>4. Typed'
  BY <1>1, <1>2 DEF Inv, Typed
<1>5. OneTurn'
  BY <1>1, <1>2 DEF Inv, Typed, OneTurn, InTurn
<1>6. Placed'
  BY <1>1, <1>2 DEF Inv, Typed, Placed
<1>7. Quiet'
  BY <1>1, <1>2 DEF Inv, Typed, Quiet, StopQuiets
<1>8. Served'
  BY <1>1, <1>2 DEF Inv, Typed, Served
<1>9. Watched'
  BY <1>1, <1>2 DEF Inv, Typed, Watched, Calm
<1> QED
  BY <1>4, <1>5, <1>6, <1>7, <1>8, <1>9 DEF Inv

LEMMA TearDownKeeps ==
    ASSUME Inv, TearDown PROVE Inv'
<1>1. /\ aborted' = aborted \cup ({currentAbort} \ {None})
      /\ lifecycle' = "closing"
      /\ UNCHANGED <<phase, mapped, queue, running, currentAbort, replying, pc, waiters,
                     timer, wire, busy, idles, turns, steers, stopped, strays, left>>
  BY DEF TearDown, Disconnect, runtimeVars, ghosts
<1>4. Typed'
  BY <1>1 DEF Inv, Typed
<1>5. OneTurn'
  BY <1>1 DEF Inv, Typed, OneTurn, InTurn
<1>6. Placed'
  BY <1>1 DEF Inv, Typed, Placed
<1>7. Quiet'
  BY <1>1 DEF Inv, Typed, Quiet, StopQuiets
<1>8. Served'
  BY <1>1 DEF Inv, Typed, Served
<1>9. Watched'
  BY <1>1 DEF Inv, Typed, Watched, Calm
<1> QED
  BY <1>4, <1>5, <1>6, <1>7, <1>8, <1>9 DEF Inv

LEMMA WatchdogKeeps ==
    ASSUME Inv, Watchdog PROVE Inv'
<1>1. /\ timer' = "fired"
      /\ UNCHANGED <<phase, mapped, queue, running, currentAbort, aborted, replying, pc,
                     lifecycle, waiters, wire, busy, idles, turns, steers, stopped, strays,
                     left>>
  BY DEF Watchdog, Abort, appVars, runtimeVars, ghosts
<1>4. Typed'
  BY <1>1 DEF Inv, Typed
<1>5. OneTurn'
  BY <1>1 DEF Inv, Typed, OneTurn, InTurn
<1>6. Placed'
  BY <1>1 DEF Inv, Typed, Placed
<1>7. Quiet'
  BY <1>1 DEF Inv, Typed, Quiet, StopQuiets
<1>8. Served'
  BY <1>1 DEF Inv, Typed, Served
<1>9. Watched'
  BY <1>1 DEF Inv, Typed, Watched, Calm
<1> QED
  BY <1>4, <1>5, <1>6, <1>7, <1>8, <1>9 DEF Inv

LEMMA HardTimerKeeps ==
    ASSUME Inv, HardTimer PROVE Inv'
<1>1. /\ timer' = "faulting"
      /\ lifecycle' = IF lifecycle = "active" THEN "faulted" ELSE lifecycle
      /\ UNCHANGED <<phase, mapped, queue, running, currentAbort, aborted, replying, pc,
                     waiters, wire, busy, idles, turns, steers, stopped, strays, left>>
  BY DEF HardTimer, appVars, runtimeVars, ghosts
<1>4. Typed'
  BY <1>1 DEF Inv, Typed
<1>5. OneTurn'
  BY <1>1 DEF Inv, Typed, OneTurn, InTurn
<1>6. Placed'
  BY <1>1 DEF Inv, Typed, Placed
<1>7. Quiet'
  BY <1>1 DEF Inv, Typed, Quiet, StopQuiets
<1>8. Served'
  BY <1>1 DEF Inv, Typed, Served
<1>9. Watched'
  BY <1>1 DEF Inv, Typed, Watched, Calm
<1> QED
  BY <1>4, <1>5, <1>6, <1>7, <1>8, <1>9 DEF Inv

LEMMA DisconnectedKeeps ==
    ASSUME Inv, NEW ok \in BOOLEAN, Disconnected(ok) PROVE Inv'
<1>1. /\ lifecycle' \in {"closed", "faulted"}
      /\ waiters' = {}
      /\ \/ UNCHANGED <<wire, busy, idles>>
         \/ wire' = <<>> /\ busy' = {} /\ idles' = 0
      /\ UNCHANGED <<phase, queue, running, currentAbort, aborted, replying, pc, aborting,
                     timer, turns, steers, stopped, strays, left>>
  BY DEF Disconnected, runtimeVars, ghosts
<1>2. Line(wire') /\ Range(wire') \subseteq Range(wire) /\ idles' \in Nat
  BY <1>1, EmptyIs DEF Inv, Typed
<1>4. Typed'
  BY <1>1, <1>2 DEF Inv, Typed
<1>5. OneTurn'
  BY <1>1, <1>2 DEF Inv, Typed, OneTurn, InTurn
<1>6. Placed'
  BY <1>1, <1>2 DEF Inv, Typed, Placed
<1>7. Quiet'
  BY <1>1, <1>2 DEF Inv, Typed, Quiet, StopQuiets
<1>8. Served'
  BY <1>1, <1>2 DEF Inv, Typed, Served
<1>9. Watched'
  BY <1>1, <1>2 DEF Inv, Typed, Watched, Calm
<1> QED
  BY <1>4, <1>5, <1>6, <1>7, <1>8, <1>9 DEF Inv

-----------------------------------------------------------------------------
(* The runtime.                                                             *)

\* The runtime is idle when the prompt of a turn reaches it, and no other such
\* prompt is behind it.
LEMMA ReceiveKeeps ==
    ASSUME Inv, Receive PROVE Inv'
<1>1. /\ wire # <<>> /\ wire' = Tail(wire)
      /\ busy' = busy \cup {Head(wire)}
      /\ strays' = IF busy = {} /\ pc[Head(wire)] = "steering" THEN strays \cup {Head(wire)}
                   ELSE strays
      /\ UNCHANGED <<phase, mapped, queue, running, currentAbort, aborted, replying, pc,
                     lifecycle, aborting, waiters, timer, idles, turns, steers, stopped,
                     left>>
  BY DEF Receive, appVars, actorVars
<1>2. /\ Head(wire) \in Range(wire) /\ Line(wire')
      /\ Range(wire') = Range(wire) \ {Head(wire)}
  BY <1>1, HeadAndTail DEF Inv, Typed
<1>4. Typed'
  BY <1>1, <1>2 DEF Inv, Typed
<1>5. OneTurn'
  BY <1>1, <1>2 DEF Inv, Typed, OneTurn, InTurn
<1>6. Placed'
  BY <1>1, <1>2 DEF Inv, Typed, Placed
<1>7. Quiet'
  BY <1>1, <1>2 DEF Inv, Typed, Quiet, StopQuiets
<1>8. Served'
  BY <1>1, <1>2 DEF Inv, Typed, Served
<1>9. Watched'
  <2> DEFINE h == Head(wire)
  <2>1. CASE ~Calm'
    BY <1>1, <2>1 DEF Inv, Watched
  <2>2. CASE Calm'
    <3>1. Calm /\ strays' = strays
      <4>1. strays' = {} /\ strays \subseteq strays'
        BY <1>1, <2>2 DEF Calm
      <4> QED
        BY <1>1, <2>2, <4>1 DEF Calm
    <3>2. ~(busy = {} /\ pc[h] = "steering")
      BY <1>1, <2>2, <3>1 DEF Calm
    <3>3. CASE h \in turns
      <4>1. pc[h] = "sending" /\ busy = {} /\ idles = 0 /\ h \in waiters
        BY <1>2, <3>1, <3>3 DEF Inv, Placed, Watched
      <4>2. Range(wire') \cap turns = {}
        BY <1>2, <4>1 DEF Inv, Typed, OneTurn, InTurn, Placed
      <4> QED
        BY <1>1, <1>2, <3>1, <3>3, <4>1, <4>2 DEF Inv, Watched
    <3>4. CASE h \notin turns
      <4>1. pc[h] = "steering" /\ busy # {}
        BY <1>2, <3>2, <3>4 DEF Inv, Placed
      <4> QED
        BY <1>1, <1>2, <3>1, <3>4, <4>1 DEF Inv, Watched
    <3> QED
      BY <3>3, <3>4
  <2> QED
    BY <2>1, <2>2
<1> QED
  BY <1>4, <1>5, <1>6, <1>7, <1>8, <1>9 DEF Inv

LEMMA FinishKeeps ==
    ASSUME Inv, Finish PROVE Inv'
<1>1. /\ busy # {} /\ busy' = {}
      /\ idles' = idles + 1
      /\ UNCHANGED <<phase, mapped, queue, running, currentAbort, aborted, replying, pc,
                     lifecycle, aborting, waiters, timer, wire, turns, steers, stopped,
                     strays, left>>
  BY DEF Finish, appVars, actorVars, ghosts
<1>4. Typed'
  BY <1>1 DEF Inv, Typed
<1>5. OneTurn'
  BY <1>1 DEF Inv, Typed, OneTurn, InTurn
<1>6. Placed'
  BY <1>1 DEF Inv, Typed, Placed
<1>7. Quiet'
  BY <1>1 DEF Inv, Typed, Quiet, StopQuiets
<1>8. Served'
  BY <1>1 DEF Inv, Typed, Served
<1>9. Watched'
  BY <1>1 DEF Inv, Typed, Watched, Calm
<1> QED
  BY <1>4, <1>5, <1>6, <1>7, <1>8, <1>9 DEF Inv

LEMMA IdleKeeps ==
    ASSUME Inv, Idle PROVE Inv'
<1>1. /\ idles > 0 /\ idles' = idles - 1
      /\ waiters' = {}
      /\ UNCHANGED <<phase, mapped, queue, running, currentAbort, aborted, replying, pc,
                     lifecycle, timer, wire, busy, turns, steers, stopped, strays, left>>
  BY DEF Idle, appVars, ghosts
<1>4. Typed'
  BY <1>1 DEF Inv, Typed
<1>5. OneTurn'
  BY <1>1 DEF Inv, Typed, OneTurn, InTurn
<1>6. Placed'
  BY <1>1 DEF Inv, Typed, Placed
<1>7. Quiet'
  BY <1>1 DEF Inv, Typed, Quiet, StopQuiets
<1>8. Served'
  BY <1>1 DEF Inv, Typed, Served
<1>9. Watched'
  BY <1>1 DEF Inv, Typed, Watched, Calm
<1> QED
  BY <1>4, <1>5, <1>6, <1>7, <1>8, <1>9 DEF Inv

-----------------------------------------------------------------------------
(* The theorems.                                                            *)

\* The disjuncts of Next, for a prompt each or for the session.
LEMMA Steps ==
    ASSUME Next
    PROVE  \/ \E p \in Prompts :
                 \/ Message(p) \/ Queue(p) \/ \E ok \in BOOLEAN : Replied(p, ok)
                 \/ \E usable \in BOOLEAN : Prepared(p, usable)
                 \/ Sent(p) \/ TurnDone(p) \/ Faulted(p) \/ TurnOver(p)
                 \/ SteerSent(p) \/ Steered(p) \/ Refused(p)
           \/ Clear \/ Stop \/ End \/ Shutdown \/ TearDown
           \/ Watchdog \/ HardTimer \/ \E ok \in BOOLEAN : Disconnected(ok)
           \/ Receive \/ Finish \/ Idle
  BY DEF Next, Input, TurnStep, SteerStep

LEMMA NextKeeps == Inv /\ [Next]_vars => Inv'
<1> SUFFICES ASSUME Inv, [Next]_vars PROVE Inv'
  OBVIOUS
<1>1. CASE UNCHANGED vars
  BY <1>1 DEF vars, appVars, actorVars, runtimeVars, ghosts, Inv, Typed, OneTurn, InTurn,
       Placed, Quiet, StopQuiets, Served, Watched, Calm
<1>2. ASSUME NEW p \in Prompts,
             Message(p) \/ Queue(p) \/ \E ok \in BOOLEAN : Replied(p, ok)
      PROVE  Inv'
  BY <1>2, MessageKeeps, QueueKeeps, RepliedKeeps
<1>3. ASSUME NEW p \in Prompts,
             \/ \E usable \in BOOLEAN : Prepared(p, usable)
             \/ Sent(p) \/ TurnDone(p) \/ Faulted(p) \/ TurnOver(p)
      PROVE  Inv'
  BY <1>3, PreparedKeeps, SentKeeps, TurnDoneKeeps, FaultedKeeps, TurnOverKeeps
<1>4. ASSUME NEW p \in Prompts, SteerSent(p) \/ Steered(p) \/ Refused(p)
      PROVE  Inv'
  BY <1>4, SteerSentKeeps, SteeredKeeps, RefusedKeeps
<1>5. CASE Clear \/ Stop \/ End \/ Shutdown \/ TearDown
  BY <1>5, ClearKeeps, StopKeeps, EndKeeps, ShutdownKeeps, TearDownKeeps
<1>6. CASE Watchdog \/ HardTimer \/ \E ok \in BOOLEAN : Disconnected(ok)
  BY <1>6, WatchdogKeeps, HardTimerKeeps, DisconnectedKeeps
<1>7. CASE Receive \/ Finish \/ Idle
  BY <1>7, ReceiveKeeps, FinishKeeps, IdleKeeps
<1> QED
  BY <1>1, <1>2, <1>3, <1>4, <1>5, <1>6, <1>7, Steps

\* The invariant, in every reachable state: one turn at a time, whatever awaits the
\* commands fall into, and for each prompt a place that says whether it waits, is on
\* the wire, or was never sent.
THEOREM InvHolds == Spec => []Inv
<1> QED
  BY InitInv, NextKeeps, PTL DEF Spec

\* /stop and /end: a prompt they found queued, or still downloading its
\* attachments, never reaches the runtime (sendUnlessAborted asks after the last
\* await before the send).
THEOREM StopsQuiet == Spec => []StopQuiets
<1>1. Inv => StopQuiets
  BY DEF Inv, Quiet
<1> QED
  BY <1>1, InvHolds, PTL

\* The idle waiter: while the actor is active and no steer came too late, the
\* runtime works for a turn only as long as that turn awaits its end.
THEOREM TurnsWatched == Spec => []TurnsAreWatched
<1>1. Inv => TurnsAreWatched
  BY DEF Inv, Watched, Calm, TurnsAreWatched
<1> QED
  BY <1>1, InvHolds, PTL

\* What can become of a queued prompt in one step.
Taken == \A p \in Prompts : pc[p] = "queued" /\ pc'[p] # "queued" => pc'[p] \in {"preparing", "done"}

LEMMA DrainTakes ==
    ASSUME Inv, NEW pcs \in [Prompts -> Places], NEW claimed \in BOOLEAN,
           \A r \in Prompts : pc[r] = "queued" => pcs[r] = "queued",
           DrainQueue(pcs, claimed)
    PROVE  Taken
<1>1. CASE pc' = pcs
  BY <1>1 DEF Taken
<1>2. ASSUME NEW h \in Prompts, ~claimed, RunTurn(h, pcs, claimed)
      PROVE  Taken
  <2>1. /\ \A r \in Prompts \ {h} : pc'[r] = pcs[r]
        /\ pc'[h] \in {"done", "preparing", "card"} /\ pc'[h] # "card"
    BY <1>2, RunTurnIs
  <2> QED
    BY <2>1 DEF Taken
<1> QED
  BY <1>1, <1>2, DrainIs DEF Inv, Typed

LEMMA NextTakes == Inv /\ [Next]_vars => Taken
<1> SUFFICES ASSUME Inv, [Next]_vars PROVE Taken
  OBVIOUS
<1>1. pc \in [Prompts -> Places]
  BY DEF Inv, Typed
<1>2. CASE UNCHANGED vars
  BY <1>2 DEF vars, Taken
<1>3. ASSUME NEW p \in Prompts, Message(p) PROVE Taken
  <2>1. pc[p] = "new" /\ \A r \in Prompts \ {p} : pc'[r] = pc[r]
    BY <1>1, <1>3 DEF Message, RunTurn
  <2> QED
    BY <2>1 DEF Taken
<1>4. ASSUME NEW p \in Prompts, NEW ok \in BOOLEAN, Replied(p, ok) PROVE Taken
  <2>1. CASE ok
    BY <1>1, <1>4, <2>1, DrainTakes DEF Replied, Inv, Typed
  <2>2. CASE ~ok
    BY <1>4, <2>2 DEF Replied, Taken
  <2> QED
    BY <2>1, <2>2
<1>5. ASSUME NEW p \in Prompts, TurnOver(p) PROVE Taken
  <2> DEFINE over == [pc EXCEPT ![p] = "done"]
  <2>1. /\ over \in [Prompts -> Places] /\ DrainQueue(over, FALSE)
        /\ \A r \in Prompts : pc[r] = "queued" => over[r] = "queued"
    BY <1>1, <1>5 DEF TurnOver, Places
  <2> HIDE DEF over
  <2> QED
    BY <2>1, DrainTakes
<1>6. ASSUME NEW p \in Prompts,
             \/ Queue(p) \/ \E usable \in BOOLEAN : Prepared(p, usable)
             \/ Sent(p) \/ TurnDone(p) \/ Faulted(p)
             \/ SteerSent(p) \/ Steered(p) \/ Refused(p)
      PROVE  Taken
  <2>1. pc[p] # "queued" /\ \A r \in Prompts \ {p} : pc'[r] = pc[r]
    BY <1>1, <1>6 DEF Queue, Prepared, Sent, TurnDone, Faulted, Done, SteerSent, Steered, Refused
  <2> QED
    BY <2>1 DEF Taken
<1>7. CASE Clear \/ Stop \/ End \/ Shutdown
  <2>1. pc' = Drop
    BY <1>7 DEF Clear, Stop, End, Shutdown
  <2> QED
    BY <1>1, <2>1, DropIs DEF Taken
<1>8. CASE \/ TearDown \/ Watchdog \/ HardTimer \/ \E ok \in BOOLEAN : Disconnected(ok)
           \/ Receive \/ Finish \/ Idle
  <2>1. pc' = pc
    BY <1>8 DEF TearDown, Watchdog, HardTimer, Disconnected, Receive, Finish, Idle
  <2> QED
    BY <2>1 DEF Taken
<1> QED
  BY <1>2, <1>3, <1>4, <1>5, <1>6, <1>7, <1>8, Steps

\* cmdQueue and drainQueue: a queued prompt is dropped or becomes a turn of its
\* own, never a steer, and no prompt waits in the queue of an idle active session
\* unless somebody is about to drain it or could not reply.
THEOREM QueuesServed == Spec => QueueServed
<1>1. Inv => (queue # <<>> /\ ~running /\ lifecycle = "active" =>
                replying # {} \/ Range(queue) \subseteq left)
  <2> SUFFICES ASSUME Inv, ~running, lifecycle = "active", replying = {}
               PROVE  Range(queue) \subseteq left
    OBVIOUS
  <2> QED
    BY DEF Inv, Served
<1>2. Inv /\ [Next]_vars =>
        [\A p \in Prompts :
            pc[p] = "queued" /\ pc'[p] # "queued" => pc'[p] \in {"preparing", "done"}]_vars
  BY NextTakes DEF Taken
<1> QED
  BY <1>1, <1>2, InvHolds, PTL DEF Spec, QueueServed

-----------------------------------------------------------------------------
(* Types.                                                                   *)

\* Each prompt that was written is on the wire, or in a busy period, or in one
\* whose idle event is to come: so there is no more of these than of prompts.
Accounted ==
    idles + Len(wire) + (IF busy = {} THEN 0 ELSE 1) <= Cardinality(turns \cup steers)

Ranged ==
    /\ phase \in {"ready", "shuttingDown"} /\ mapped \in BOOLEAN /\ aborting \in BOOLEAN
    /\ Len(queue) <= QUEUE_MAX
    /\ currentAbort \in Prompts \cup {None}
    /\ timer \in {"off", "armed", "fired", "faulting"}
    /\ aborted \subseteq Prompts /\ replying \subseteq Prompts /\ waiters \subseteq Prompts
    /\ busy \subseteq Prompts /\ left \subseteq Prompts /\ strays \subseteq steers
    /\ stops \in 0 .. MaxStops

LEMMA BoundsAre == QUEUE_MAX \in Nat /\ MaxStops \in Nat
  BY TurnsAssumption

\* A queue that is drained holds less, and the prompt it gives is one.
LEMMA HeadIs ==
    ASSUME NEW q, Line(q), q # <<>>
    PROVE  Head(q) \in Prompts /\ Tail(q) \in Seq(Prompts) /\ Len(q) \in Nat \ {0} /\ Len(Tail(q)) = Len(q) - 1
  BY DEF Line

LEMMA RunTurnRanged ==
    ASSUME Ranged, NEW p \in Prompts, NEW pcs, NEW claimed, RunTurn(p, pcs, claimed)
    PROVE  currentAbort' \in Prompts \cup {None}
  BY DEF Ranged, RunTurn

LEMMA DrainRanged ==
    ASSUME Inv, Ranged, NEW pcs, NEW claimed, DrainQueue(pcs, claimed)
    PROVE  currentAbort' \in Prompts \cup {None} /\ Len(queue') <= QUEUE_MAX
<1>1. CASE phase # "ready" \/ ~mapped \/ claimed \/ queue = <<>>
  BY <1>1 DEF DrainQueue, Ranged
<1>2. CASE ~ (phase # "ready" \/ ~mapped \/ claimed \/ queue = <<>>)
  <2>1. queue' = Tail(queue) /\ RunTurn(Head(queue), pcs, claimed) /\ queue # <<>> /\ Line(queue)
    BY <1>2 DEF DrainQueue, Inv, Typed
  <2>2. Head(queue) \in Prompts /\ Len(queue) \in Nat /\ Len(Tail(queue)) = Len(queue) - 1
    BY <2>1, HeadIs
  <2>3. currentAbort' \in Prompts \cup {None}
    BY <2>1, <2>2, RunTurnRanged
  <2>4. Len(queue') <= QUEUE_MAX
    BY <2>1, <2>2, BoundsAre DEF Ranged
  <2> QED
    BY <2>3, <2>4
<1> QED
  BY <1>1, <1>2

LEMMA InputRanged ==
    ASSUME Inv, Ranged, NEW p \in Prompts,
           Message(p) \/ Queue(p) \/ (\E ok \in BOOLEAN : Replied(p, ok)) \/ TurnOver(p) \/ Clear
    PROVE  Ranged'
<1>1. CASE Message(p)
  <2>1. currentAbort' \in Prompts \cup {None}
    BY <1>1, RunTurnRanged DEF Message
  <2> QED
    BY <1>1, <2>1 DEF Message, Ranged, actorVars, runtimeVars, ghosts
<1>2. CASE Queue(p)
  <2>1. queue \in Seq(Prompts) /\ Len(queue) < QUEUE_MAX /\ queue' = Append(queue, p)
    BY <1>2 DEF Queue, Inv, Typed, Line
  <2>2. Len(queue') <= QUEUE_MAX
    BY <2>1, BoundsAre
  <2> QED
    BY <1>2, <2>2 DEF Queue, Ranged, actorVars, runtimeVars, ghosts
<1>3. ASSUME NEW ok \in BOOLEAN, Replied(p, ok) PROVE Ranged'
  <2>1. CASE ok
    <3>1. currentAbort' \in Prompts \cup {None} /\ Len(queue') <= QUEUE_MAX
      BY <1>3, <2>1, DrainRanged DEF Replied
    <3> QED
      BY <1>3, <2>1, <3>1 DEF Replied, Ranged, actorVars, runtimeVars
  <2>2. CASE ~ok
    BY <1>3, <2>2 DEF Replied, Ranged, actorVars, runtimeVars
  <2> QED
    BY <2>1, <2>2
<1>4. CASE TurnOver(p)
  <2>1. currentAbort' \in Prompts \cup {None} /\ Len(queue') <= QUEUE_MAX
    BY <1>4, DrainRanged DEF TurnOver
  <2> QED
    BY <1>4, <2>1 DEF TurnOver, Ranged, actorVars, runtimeVars, ghosts
<1>5. CASE Clear
  BY <1>5, BoundsAre DEF Clear, Ranged, actorVars, runtimeVars, ghosts
<1> QED
  BY <1>1, <1>2, <1>3, <1>4, <1>5

LEMMA TurnRanged ==
    ASSUME Inv, Ranged, NEW p \in Prompts,
           \/ \E usable \in BOOLEAN : Prepared(p, usable)
           \/ Sent(p) \/ TurnDone(p) \/ Faulted(p)
           \/ SteerSent(p) \/ Steered(p) \/ Refused(p)
    PROVE  Ranged'
<1>1. ASSUME NEW usable \in BOOLEAN, Prepared(p, usable) PROVE Ranged'
  BY <1>1 DEF Prepared, SendPrompt, Ranged
<1>2. CASE Sent(p) \/ TurnDone(p) \/ Faulted(p)
  BY <1>2 DEF Sent, TurnDone, Faulted, Done, Ranged, appVars, runtimeVars, ghosts
<1>3. CASE SteerSent(p)
  BY <1>3 DEF SteerSent, Ranged, appVars, actorVars
<1>4. CASE Steered(p)
  BY <1>4 DEF Steered, RefreshWatchdog, Ranged, appVars, runtimeVars, ghosts
<1>5. CASE Refused(p)
  BY <1>5 DEF Refused, Ranged, appVars, ghosts
<1> QED
  BY <1>1, <1>2, <1>3, <1>4, <1>5

LEMMA StopRanged ==
    ASSUME Inv, Ranged,
           \/ Stop \/ End \/ Shutdown \/ TearDown
           \/ Watchdog \/ HardTimer \/ \E ok \in BOOLEAN : Disconnected(ok)
    PROVE  Ranged'
<1>1. Len(<<>>) <= QUEUE_MAX
  BY BoundsAre
<1>2. CASE Stop
  <2>1. stops' \in 0 .. MaxStops
    BY <1>2, BoundsAre DEF Stop, Ranged
  <2> QED
    BY <1>1, <1>2, <2>1 DEF Stop, Abort, Ranged, runtimeVars
<1>3. CASE End
  BY <1>1, <1>3 DEF End, Disconnect, Ranged, runtimeVars
<1>4. CASE Shutdown
  BY <1>1, <1>4 DEF Shutdown, Ranged, actorVars, runtimeVars, ghosts
<1>5. CASE TearDown
  BY <1>5 DEF TearDown, Disconnect, Ranged, runtimeVars, ghosts
<1>6. CASE Watchdog \/ HardTimer
  BY <1>6 DEF Watchdog, HardTimer, Abort, Ranged, appVars, runtimeVars, ghosts
<1>7. ASSUME NEW ok \in BOOLEAN, Disconnected(ok) PROVE Ranged'
  BY <1>7 DEF Disconnected, Ranged, runtimeVars, ghosts
<1> QED
  BY <1>2, <1>3, <1>4, <1>5, <1>6, <1>7

\* A prompt that starts a busy period while it steers has missed its turn.
LEMMA RuntimeRanged ==
    ASSUME Inv, Ranged, Receive \/ Finish \/ Idle
    PROVE  Ranged'
<1>1. CASE Receive
  <2>1. Head(wire) \in Prompts /\ Head(wire) \in Range(wire)
    <3>1. Line(wire) /\ wire # <<>>
      BY <1>1 DEF Receive, Inv, Typed
    <3> QED
      BY <3>1, HeadIs DEF Line, Range
  <2>2. pc[Head(wire)] = "steering" => Head(wire) \in steers
    BY <2>1 DEF Inv, Placed
  <2> QED
    BY <1>1, <2>1, <2>2 DEF Receive, Ranged, appVars, actorVars
<1>2. CASE Finish
  BY <1>2 DEF Finish, Ranged, appVars, actorVars, ghosts
<1>3. CASE Idle
  BY <1>3 DEF Idle, Ranged, appVars, ghosts
<1> QED
  BY <1>1, <1>2, <1>3

LEMMA WrittenOnce ==
    ASSUME Inv, Accounted, IsFiniteSet(Prompts), NEW p \in Prompts, p \notin turns \cup steers,
           wire' = Append(wire, p), turns' \cup steers' = (turns \cup steers) \cup {p},
           UNCHANGED <<busy, idles>>
    PROVE  Accounted'
<1>1. IsFiniteSet(turns \cup steers)
  BY FS_Subset DEF Inv, Typed
<1>2. Cardinality(turns' \cup steers') = Cardinality(turns \cup steers) + 1 /\ Cardinality(turns \cup steers) \in Nat
  BY <1>1, FS_AddElement, FS_CardinalityType
<1>3. wire \in Seq(Prompts) /\ idles \in Nat
  BY DEF Inv, Typed, Line
<1>4. Len(wire') = Len(wire) + 1 /\ Len(wire) \in Nat
  BY <1>3
<1>5. CASE busy = {}
  BY <1>2, <1>3, <1>4, <1>5 DEF Accounted
<1>6. CASE busy # {}
  BY <1>2, <1>3, <1>4, <1>6 DEF Accounted
<1> QED
  BY <1>5, <1>6

LEMMA NoneUnderWay ==
    ASSUME NEW i, NEW w, NEW b, NEW s, i = 0, w = <<>>, b = {}, Cardinality(s) \in Nat
    PROVE  i + Len(w) + (IF b = {} THEN 0 ELSE 1) <= Cardinality(s)
<1>1. Len(w) = 0
  OBVIOUS
<1> QED
  BY <1>1

LEMMA NextAccounts ==
    ASSUME Inv, Accounted, IsFiniteSet(Prompts), [Next]_vars
    PROVE  Accounted'
<1>1. idles \in Nat /\ Line(wire) /\ wire \in Seq(Prompts) /\ Len(wire) \in Nat
  BY DEF Inv, Typed, Line
<1>2. Cardinality(turns \cup steers) \in Nat
  BY FS_Subset, FS_CardinalityType DEF Inv, Typed
<1>3. UNCHANGED <<idles, wire, busy, turns, steers>> => Accounted'
  BY DEF Accounted
<1>4. CASE UNCHANGED vars
  BY <1>3, <1>4 DEF vars, runtimeVars, ghosts
<1>5. ASSUME NEW p \in Prompts,
             \/ Message(p) \/ Queue(p) \/ \E ok \in BOOLEAN : Replied(p, ok)
             \/ Sent(p) \/ TurnDone(p) \/ Faulted(p) \/ TurnOver(p) \/ Steered(p)
      PROVE  Accounted'
  BY <1>3, <1>5 DEF Message, Queue, Replied, Sent, TurnDone, Faulted, TurnOver, Steered, runtimeVars, ghosts
<1>6. ASSUME NEW p \in Prompts, NEW usable \in BOOLEAN, Prepared(p, usable)
      PROVE  Accounted'
  <2>1. p \notin turns \cup steers
    BY <1>6 DEF Prepared, Inv, Placed
  <2>2. CASE wire' = Append(wire, p)
    BY <1>6, <2>1, <2>2, WrittenOnce DEF Prepared, SendPrompt
  <2>3. CASE UNCHANGED <<wire, turns>>
    BY <1>3, <1>6, <2>3 DEF Prepared
  <2> QED
    BY <1>6, <2>2, <2>3 DEF Prepared, SendPrompt
<1>7. ASSUME NEW p \in Prompts, SteerSent(p)
      PROVE  Accounted'
  <2>1. p \notin turns \cup steers
    BY <1>7 DEF SteerSent, Inv, Placed
  <2>2. CASE lifecycle = "closed"
    BY <1>3, <1>7, <2>2 DEF SteerSent
  <2>3. CASE lifecycle # "closed"
    BY <1>7, <2>1, <2>3, WrittenOnce DEF SteerSent
  <2> QED
    BY <2>2, <2>3
<1>8. CASE Clear \/ Stop \/ End \/ Shutdown \/ TearDown \/ Watchdog \/ HardTimer
  BY <1>3, <1>8 DEF Clear, Stop, End, Shutdown, TearDown, Watchdog, HardTimer, runtimeVars, ghosts
<1>9. ASSUME NEW ok \in BOOLEAN, Disconnected(ok) PROVE Accounted'
  <2>1. CASE ok
    <3>1. idles' = 0 /\ wire' = <<>> /\ busy' = {} /\ turns' \cup steers' = turns \cup steers
      BY <1>9, <2>1 DEF Disconnected, ghosts
    <3>2. Cardinality(turns' \cup steers') \in Nat
      BY <1>2, <3>1
    <3> QED
      BY <3>1, <3>2, NoneUnderWay, Zenon DEF Accounted
  <2>2. CASE ~ok
    BY <1>3, <1>9, <2>2 DEF Disconnected, runtimeVars, ghosts
  <2> QED
    BY <2>1, <2>2
<1>10. ASSUME NEW p \in Prompts, Refused(p) PROVE Accounted'
  <2>1. Len(wire') = Len(wire) - 1
    BY <1>1, <1>10, HeadIs DEF Refused
  <2>2. UNCHANGED <<busy, idles, turns, steers>>
    BY <1>10 DEF Refused, ghosts
  <2>3. CASE busy = {}
    BY <1>1, <1>2, <2>1, <2>2, <2>3 DEF Accounted
  <2>4. CASE busy # {}
    BY <1>1, <1>2, <2>1, <2>2, <2>4 DEF Accounted
  <2> QED
    BY <2>3, <2>4
<1>11. CASE Receive
  <2>1. Len(wire') = Len(wire) - 1 /\ Len(wire') \in Nat
    BY <1>1, <1>11, HeadIs DEF Receive
  <2>2. busy' # {} /\ UNCHANGED <<idles, turns, steers>>
    BY <1>11 DEF Receive
  <2>3. CASE busy = {}
    BY <1>1, <1>2, <2>1, <2>2, <2>3 DEF Accounted
  <2>4. CASE busy # {}
    BY <1>1, <1>2, <2>1, <2>2, <2>4 DEF Accounted
  <2> QED
    BY <2>3, <2>4
<1>12. CASE Finish
  BY <1>1, <1>2, <1>12 DEF Finish, Accounted, ghosts
<1>13. CASE Idle
  <2>1. UNCHANGED <<wire, busy, turns, steers>> /\ idles' = idles - 1
    BY <1>13 DEF Idle, ghosts
  <2>2. CASE busy = {}
    BY <1>1, <1>2, <2>1, <2>2 DEF Accounted
  <2>3. CASE busy # {}
    BY <1>1, <1>2, <2>1, <2>3 DEF Accounted
  <2> QED
    BY <2>2, <2>3
<1> QED
  BY <1>4, <1>5, <1>6, <1>7, <1>8, <1>9, <1>10, <1>11, <1>12, <1>13, Steps

LEMMA NextRanges == ASSUME Inv, Ranged, [Next]_vars PROVE Ranged'
<1>1. CASE UNCHANGED vars
  BY <1>1 DEF vars, appVars, actorVars, runtimeVars, ghosts, Ranged
<1>2. ASSUME NEW p \in Prompts,
             Message(p) \/ Queue(p) \/ (\E ok \in BOOLEAN : Replied(p, ok)) \/ TurnOver(p)
      PROVE  Ranged'
  BY <1>2, InputRanged
<1>3. ASSUME NEW p \in Prompts,
             \/ \E usable \in BOOLEAN : Prepared(p, usable)
             \/ Sent(p) \/ TurnDone(p) \/ Faulted(p)
             \/ SteerSent(p) \/ Steered(p) \/ Refused(p)
      PROVE  Ranged'
  BY <1>3, TurnRanged
<1>4. CASE Clear
  BY <1>4, BoundsAre DEF Clear, Ranged, actorVars, runtimeVars, ghosts
<1>5. CASE \/ Stop \/ End \/ Shutdown \/ TearDown
           \/ Watchdog \/ HardTimer \/ \E ok \in BOOLEAN : Disconnected(ok)
  BY <1>5, StopRanged
<1>6. CASE Receive \/ Finish \/ Idle
  BY <1>6, RuntimeRanged
<1> QED
  BY <1>1, <1>2, <1>3, <1>4, <1>5, <1>6, Steps

\* Every variable keeps its type, and the runtime never has more idle events on
\* their way than there are prompts: a busy period takes at least one of them.
THEOREM TypeCorrect == ASSUME IsFiniteSet(Prompts) PROVE Spec => []TypeOK
<1>1. Init => Ranged /\ Accounted
  <2> SUFFICES ASSUME Init PROVE Ranged /\ Accounted
    OBVIOUS
  <2>1. Ranged
    <3>1. Len(<<>>) <= QUEUE_MAX /\ 0 \in 0 .. MaxStops
      BY BoundsAre
    <3>2. queue = <<>> /\ Len(queue) <= QUEUE_MAX
      BY <3>1 DEF Init
    <3>3. /\ aborted \subseteq Prompts /\ replying \subseteq Prompts /\ waiters \subseteq Prompts
          /\ busy \subseteq Prompts /\ left \subseteq Prompts /\ strays \subseteq steers
      BY DEF Init
    <3> QED
      BY <3>1, <3>2, <3>3 DEF Init, Ranged
  <2>2. idles = 0 /\ wire = <<>> /\ busy = {}
    BY DEF Init
  <2>3. Cardinality(turns \cup steers) \in Nat
    <3>1. turns \cup steers \subseteq Prompts
      BY DEF Init
    <3> QED
      BY <3>1, FS_Subset, FS_CardinalityType
  <2>4. Accounted
    BY <2>2, <2>3, NoneUnderWay, Zenon DEF Accounted
  <2> QED
    BY <2>1, <2>4
<1>2. Inv /\ (Ranged /\ Accounted) /\ [Next]_vars => (Ranged /\ Accounted)'
  BY NextRanges, NextAccounts
<1>3. Inv /\ (Ranged /\ Accounted) => TypeOK
  <2> SUFFICES ASSUME Inv, Ranged, Accounted PROVE TypeOK
    OBVIOUS
  <2>1. queue \in Seq(Prompts) /\ wire \in Seq(Prompts) /\ idles \in Nat /\ Len(wire) \in Nat
    BY DEF Inv, Typed, Line
  <2>2. Range(queue) \subseteq Prompts /\ Range(wire) \subseteq Prompts
    BY <2>1 DEF Range
  <2>3. /\ Cardinality(turns \cup steers) \in Nat /\ Cardinality(Prompts) \in Nat
        /\ Cardinality(turns \cup steers) <= Cardinality(Prompts)
    BY FS_Subset, FS_CardinalityType DEF Inv, Typed
  <2>4. idles <= Cardinality(turns \cup steers)
    <3>1. CASE busy = {}
      BY <2>1, <2>3, <3>1 DEF Accounted
    <3>2. CASE busy # {}
      BY <2>1, <2>3, <3>2 DEF Accounted
    <3> QED
      BY <3>1, <3>2
  <2>5. idles \in 0 .. Cardinality(Prompts)
    BY <2>1, <2>3, <2>4
  <2>6. {mapped, running, aborting} \subseteq BOOLEAN
    BY DEF Ranged, Inv, Typed
  <2> QED
    BY <2>2, <2>5, <2>6 DEF TypeOK, Ranged, Inv, Typed, Placed, Places
<1> QED
  BY <1>1, <1>2, <1>3, InvHolds, PTL DEF Spec

-----------------------------------------------------------------------------
(* The operators.                                                           *)

\* Every set of natural numbers has a least one, ...
LEMMA LeastIs ==
    ASSUME NEW S \in SUBSET Nat, S # {}
    PROVE  \E x \in S : \A y \in S : x <= y
<1>1. \A x, y \in Nat : x < y => <<x, y>> \in OpToRel(<, Nat)
  BY Z3 DEF OpToRel
<1>2. \E x \in S : \A y \in S : ~ (<<y, x>> \in OpToRel(<, Nat))
  BY NatLessThanWellFounded, WFMin
<1>3. PICK x \in S : \A y \in S : ~ (<<y, x>> \in OpToRel(<, Nat))
  BY <1>2
<1>4. \A y \in S : ~ (y < x)
  BY <1>1, <1>3
<1> QED
  BY <1>4

LEMMA MinIs ==
    ASSUME NEW S \in SUBSET Nat, S # {}
    PROVE  Min(S) \in S
  BY LeastIs DEF Min

\* ... and one below a bound a greatest.
LEMMA MaxIs ==
    ASSUME NEW S \in SUBSET Nat, S # {}, NEW n \in Nat, \A x \in S : x <= n
    PROVE  Max(S) \in S /\ \A y \in S : y <= Max(S)
<1> DEFINE T == {n - x : x \in S}
<1>1. T \in SUBSET Nat /\ T # {}
  <2>1. ASSUME NEW x \in S PROVE n - x \in Nat
    OBVIOUS
  <2> QED
    BY <2>1
<1>2. PICK m \in T : \A y \in T : m <= y
  BY <1>1, LeastIs
<1>3. PICK x \in S : m = n - x
  BY <1>2
<1>4. ASSUME NEW y \in S PROVE x >= y
  <2>1. n - x <= n - y
    BY <1>2, <1>3
  <2> QED
    BY <2>1
<1>5. Max(S) \in S /\ \A y \in S : Max(S) >= y
  BY <1>4 DEF Max
<1> QED
  BY <1>5

LEMMA InsertAtIs ==
    ASSUME NEW S, NEW s \in Seq(S), NEW k \in 1 .. Len(s) + 1, NEW e \in S
    PROVE  /\ InsertAt(s, k, e) \in Seq(S) /\ Len(InsertAt(s, k, e)) = Len(s) + 1
           /\ \A i \in 1 .. Len(s) + 1 :
                 InsertAt(s, k, e)[i] = IF i < k THEN s[i] ELSE IF i = k THEN e ELSE s[i - 1]
<1> DEFINE a == SubSeq(s, 1, k - 1)
           b == SubSeq(s, k, Len(s))
           c == <<e>>
           d == a \o c
           f == d \o b
<1>1. (\A i \in 1 .. Len(s) : s[i] \in S) /\ k \in Int /\ k - 1 \in Int /\ Len(s) \in Nat
  OBVIOUS
<1>2. a \in Seq(S) /\ Len(a) = k - 1 /\ \A i \in 1 .. k - 1 : a[i] = s[i]
  BY <1>1, SubSeqProperties
<1>3. b \in Seq(S) /\ Len(b) = Len(s) + 1 - k /\ \A i \in 1 .. Len(s) + 1 - k : b[i] = s[k + i - 1]
  BY <1>1, SubSeqProperties
<1>4. c \in Seq(S) /\ Len(c) = 1 /\ c[1] = e
  OBVIOUS
<1>5. InsertAt(s, k, e) = f
  BY DEF InsertAt
<1> HIDE DEF a, b, c
<1>6. /\ d \in Seq(S) /\ Len(d) = Len(a) + Len(c)
      /\ \A i \in 1 .. Len(a) + Len(c) : d[i] = IF i <= Len(a) THEN a[i] ELSE c[i - Len(a)]
  <2>1. a \in Seq(S) /\ c \in Seq(S)
    BY <1>2, <1>4
  <2> QED
    BY <2>1, ConcatProperties
<1> HIDE DEF d
<1>7. /\ f \in Seq(S) /\ Len(f) = Len(d) + Len(b)
      /\ \A i \in 1 .. Len(d) + Len(b) : f[i] = IF i <= Len(d) THEN d[i] ELSE b[i - Len(d)]
  <2>1. d \in Seq(S) /\ b \in Seq(S)
    BY <1>3, <1>6
  <2> QED
    BY <2>1, ConcatProperties
<1> HIDE DEF f
<1>8. Len(d) = k /\ Len(f) = Len(s) + 1
  BY <1>1, <1>2, <1>3, <1>4, <1>6, <1>7
<1>9. ASSUME NEW i \in 1 .. Len(s) + 1 PROVE f[i] = IF i < k THEN s[i] ELSE IF i = k THEN e ELSE s[i - 1]
  <2>1. CASE i < k
    BY <2>1, <1>1, <1>2, <1>4, <1>6, <1>7, <1>8
  <2>2. CASE i = k
    BY <2>2, <1>1, <1>2, <1>4, <1>6, <1>7, <1>8
  <2>3. CASE i > k
    <3>1. f[i] = b[i - k] /\ i - k \in 1 .. Len(s) + 1 - k
      BY <2>3, <1>1, <1>3, <1>7, <1>8
    <3> QED
      BY <2>3, <3>1, <1>1, <1>3
  <2> QED
    BY <2>1, <2>2, <2>3
<1> QED
  BY <1>5, <1>7, <1>8, <1>9

LEMMA RemoveAtIs ==
    ASSUME NEW S, NEW s \in Seq(S), NEW k \in 1 .. Len(s)
    PROVE  /\ RemoveAt(s, k) \in Seq(S) /\ Len(RemoveAt(s, k)) = Len(s) - 1
           /\ \A i \in 1 .. Len(s) - 1 : RemoveAt(s, k)[i] = IF i < k THEN s[i] ELSE s[i + 1]
<1> DEFINE a == SubSeq(s, 1, k - 1)
           b == SubSeq(s, k + 1, Len(s))
           f == a \o b
<1>1. (\A i \in 1 .. Len(s) : s[i] \in S) /\ k - 1 \in Int /\ k + 1 \in Int /\ Len(s) \in Nat
  OBVIOUS
<1>2. a \in Seq(S) /\ Len(a) = k - 1 /\ \A i \in 1 .. k - 1 : a[i] = s[i]
  BY <1>1, SubSeqProperties
<1>3. b \in Seq(S) /\ Len(b) = Len(s) - k /\ \A i \in 1 .. Len(s) - k : b[i] = s[k + i]
  BY <1>1, SubSeqProperties
<1>4. RemoveAt(s, k) = f
  BY DEF RemoveAt
<1> HIDE DEF a, b
<1>5. /\ f \in Seq(S) /\ Len(f) = Len(a) + Len(b)
      /\ \A i \in 1 .. Len(a) + Len(b) : f[i] = IF i <= Len(a) THEN a[i] ELSE b[i - Len(a)]
  BY <1>2, <1>3, ConcatProperties
<1> HIDE DEF f
<1>6. Len(f) = Len(s) - 1
  BY <1>1, <1>2, <1>3, <1>5
<1>7. ASSUME NEW i \in 1 .. Len(s) - 1 PROVE f[i] = IF i < k THEN s[i] ELSE s[i + 1]
  <2>1. i \in 1 .. Len(a) + Len(b) /\ Len(a) = k - 1
    BY <1>1, <1>2, <1>3
  <2>2. CASE i < k
    <3>1. i <= Len(a) /\ i \in 1 .. k - 1
      BY <2>1, <2>2, <1>1
    <3> QED
      BY <2>1, <2>2, <3>1, <1>2, <1>5
  <2>3. CASE ~ (i < k)
    <3>1. ~ (i <= Len(a)) /\ i - Len(a) \in 1 .. Len(s) - k /\ k + (i - Len(a)) = i + 1
      BY <2>1, <2>3, <1>1
    <3>2. f[i] = b[i - Len(a)]
      BY <2>1, <3>1, <1>5
    <3> QED
      BY <2>3, <3>1, <3>2, <1>3
  <2> QED
    BY <2>2, <2>3
<1> QED
  BY <1>4, <1>5, <1>6, <1>7

-----------------------------------------------------------------------------
(* Packing.                                                                 *)

\* The text in a sequence of items is that of some blocks.
Apart(s, es) == \A k \in DOMAIN s : s[k].kind = "text" => s[k].id \in es

\* Messages with the text of some blocks.
Blocks(es) == {c \in Seq(Seq(Items)) : \A k \in DOMAIN c : Apart(c[k], es)}

LEMMA PartsIs ==
    ASSUME NEW item \in Items, NEW es, item.kind = "text" => item.id \in es
    PROVE  Parts(item) \in Seq(Items) /\ Apart(Parts(item), es)
<1> DEFINE n == Length(item)
           last == (n + Capacity - 1) \div Capacity
<1>1. n \in Int /\ Capacity \in Nat \ {0}
  BY TimelineAssumption DEF Length, Items
<1> HIDE DEF n
<1>2. last \in Int
  BY <1>1
<1> HIDE DEF last
<1>3. DOMAIN Cuts(n) = 1 .. last /\ \A k \in 1 .. last : Cuts(n)[k] \in Int
  BY <1>1, <1>2 DEF Cuts, last
<1>4. \A k \in 1 .. last : /\ Parts(item)[k] \in Items /\ Parts(item)[k].kind = item.kind
                           /\ Parts(item)[k].id = item.id
  BY <1>3 DEF Parts, Items, n
<1>5. Parts(item) = [k \in 1 .. last |-> Parts(item)[k]]
  BY <1>3 DEF Parts, n
<1>6. Parts(item) \in Seq(Items)
  <2>1. CASE last < 0
    BY <2>1, <1>2, <1>5
  <2>2. CASE last >= 0
    BY <2>2, <1>2, <1>4, <1>5
  <2> QED
    BY <2>1, <2>2, <1>2
<1> QED
  BY <1>4, <1>5, <1>6 DEF Apart

LEMMA PackedIs ==
    ASSUME NEW es, NEW c \in Blocks(es), NEW item \in Items, item.kind = "text" => item.id \in es
    PROVE  Packed(c, item) \in Blocks(es)
<1> DEFINE p == Parts(item)
           q == [k \in DOMAIN p |-> <<p[k]>>]
           m == Append(c[Len(c)], p[1])
<1>1. p \in Seq(Items) /\ Apart(p, es)
  BY PartsIs
<1>2. c \in Seq(Seq(Items)) /\ \A k \in DOMAIN c : Apart(c[k], es)
  BY DEF Blocks
<1> HIDE DEF p
<1>3. CASE c # <<>> /\ Len(p) = 1 /\ Weight(Last(c)) + Length(item) <= Capacity
  <2>1. Packed(c, item) = [c EXCEPT ![Len(c)] = m]
    BY <1>3 DEF Packed, p
  <2>2. Len(c) \in 1 .. Len(c) /\ c[Len(c)] \in Seq(Items) /\ p[1] \in Items /\ Apart(c[Len(c)], es)
    <3>1. c # <<>> /\ c \in Seq(Seq(Items)) /\ Len(c) \in Nat
      BY <1>2, <1>3
    <3>2. Len(c) # 0
      BY <3>1, EmptySeq
    <3>3. Len(c) \in 1 .. Len(c)
      BY <3>1, <3>2
    <3>4. c[Len(c)] \in Seq(Items) /\ Apart(c[Len(c)], es)
      BY <3>1, <3>3, <1>2
    <3>5. p[1] \in Items
      BY <1>1, <1>3
    <3> QED
      BY <3>3, <3>4, <3>5
  <2>3. m \in Seq(Items) /\ \A k \in DOMAIN m : m[k] = IF k = Len(c[Len(c)]) + 1 THEN p[1] ELSE c[Len(c)][k]
    BY <2>2
  <2>4. 1 \in DOMAIN p /\ (p[1].kind = "text" => p[1].id \in es)
    BY <1>1, <1>3 DEF Apart
  <2>5. Apart(m, es)
    BY <2>2, <2>3, <2>4 DEF Apart
  <2> HIDE DEF m
  <2> QED
    BY <1>2, <2>1, <2>2, <2>3, <2>5 DEF Blocks
<1>4. CASE ~ (c # <<>> /\ Len(p) = 1 /\ Weight(Last(c)) + Length(item) <= Capacity)
  <2>1. Packed(c, item) = c \o q
    BY <1>4 DEF Packed, p
  <2>2. q \in Seq(Seq(Items)) /\ Len(q) = Len(p) /\ \A k \in 1 .. Len(p) : q[k] = <<p[k]>>
    <3>1. DOMAIN p = 1 .. Len(p) /\ Len(p) \in Nat /\ \A k \in 1 .. Len(p) : p[k] \in Items
      BY <1>1
    <3>2. \A k \in 1 .. Len(p) : <<p[k]>> \in Seq(Items)
      BY <3>1
    <3>3. q = [k \in 1 .. Len(p) |-> q[k]] /\ \A k \in 1 .. Len(p) : q[k] = <<p[k]>>
      BY <3>1
    <3> HIDE DEF q
    <3>4. \A k \in 1 .. Len(p) : q[k] \in Seq(Items)
      BY <3>2, <3>3
    <3>5. q \in Seq(Seq(Items)) /\ Len(q) = Len(p)
      BY <3>1, <3>3, <3>4
    <3> QED
      BY <3>3, <3>5
  <2>3. \A k \in DOMAIN q : Apart(q[k], es)
    BY <1>1, <2>2 DEF Apart
  <2> HIDE DEF q
  <2>4. /\ c \o q \in Seq(Seq(Items)) /\ Len(c \o q) = Len(c) + Len(q)
        /\ \A k \in 1 .. Len(c) + Len(q) : (c \o q)[k] = IF k <= Len(c) THEN c[k] ELSE q[k - Len(c)]
    BY <1>2, <2>2, ConcatProperties
  <2>5. ASSUME NEW k \in DOMAIN (c \o q) PROVE Apart((c \o q)[k], es)
    <3>1. k \in 1 .. Len(c) + Len(q) /\ Len(c) \in Nat /\ Len(q) \in Nat
      BY <1>2, <2>2, <2>4
    <3>2. CASE k <= Len(c)
      BY <1>2, <2>4, <3>1, <3>2
    <3>3. CASE ~ (k <= Len(c))
      <4>1. k - Len(c) \in DOMAIN q
        BY <2>2, <3>1, <3>3
      <4> QED
        BY <2>3, <2>4, <3>1, <3>3, <4>1
    <3> QED
      BY <3>2, <3>3
  <2> QED
    BY <2>1, <2>4, <2>5 DEF Blocks
<1> QED
  BY <1>3, <1>4

\* One step of the packing, from the items before the last one of a set.
Step(F, s, t) == IF t = {} THEN <<>> ELSE Packed(F[t \ {Max(t)}], s[Max(t)])

\* The fold is what it says: a function on the sets of positions, each step from
\* the one before.  (That there is one is the induction, by a least n for which
\* there is none.)
LEMMA ChunksFold ==
    ASSUME NEW s \in Seq(Items)
    PROVE  \E F : /\ F = [t \in SUBSET (1 .. Len(s)) |-> Step(F, s, t)]
                  /\ Chunks(s) = F[1 .. Len(s)]
<1> DEFINE Sat(n) == \E F : F = [t \in SUBSET (1 .. n) |-> Step(F, s, t)]
           B == {n \in Nat : ~ Sat(n)}
<1>1. Sat(0)
  <2> DEFINE F == [t \in SUBSET (1 .. 0) |-> <<>>]
  <2>1. F = [t \in SUBSET (1 .. 0) |-> Step(F, s, t)]
    BY DEF Step
  <2> QED
    BY <2>1
<1>2. ASSUME NEW n \in Nat, Sat(n) PROVE Sat(n + 1)
  <2>1. PICK F : F = [t \in SUBSET (1 .. n) |-> Step(F, s, t)]
    BY <1>2
  <2> DEFINE H == [t \in SUBSET (1 .. n + 1) |->
                     IF n + 1 \in t THEN Packed(F[t \ {n + 1}], s[n + 1]) ELSE F[t]]
  <2>2. ASSUME NEW t \in SUBSET (1 .. n + 1) PROVE H[t] = Step(H, s, t)
    <3>1. CASE t = {}
      BY <2>1, <3>1 DEF Step
    <3>2. CASE n + 1 \in t
      <4>1. Max(t) = n + 1
        <5>1. Max(t) \in t /\ \A y \in t : y <= Max(t)
          <6>1. t \in SUBSET Nat /\ t # {} /\ (\A y \in t : y <= n + 1) /\ n + 1 \in Nat
            BY <3>2
          <6> QED
            BY <6>1, MaxIs
        <5> QED
          <6>1. Max(t) \in 1 .. n + 1 /\ n + 1 <= Max(t)
            BY <3>2, <5>1
          <6> QED
            BY <6>1
      <4>2. t \ {n + 1} \in SUBSET (1 .. n)
        OBVIOUS
      <4>3. H[t \ {n + 1}] = F[t \ {n + 1}]
        BY <4>2
      <4> QED
        BY <3>2, <4>1, <4>3 DEF Step
    <3>3. CASE t # {} /\ n + 1 \notin t
      <4>1. t \in SUBSET (1 .. n)
        BY <3>3
      <4>2. Max(t) \in t
        <5>1. t \in SUBSET Nat /\ t # {} /\ (\A y \in t : y <= n) /\ n \in Nat
          BY <3>3, <4>1
        <5> QED
          BY <5>1, MaxIs
      <4>3. H[t \ {Max(t)}] = F[t \ {Max(t)}] /\ H[t] = F[t]
        BY <3>3, <4>1, <4>2
      <4> QED
        BY <2>1, <3>3, <4>1, <4>3 DEF Step
    <3> QED
      BY <3>1, <3>2, <3>3
  <2>3. H = [t \in SUBSET (1 .. n + 1) |-> Step(H, s, t)]
    BY <2>2
  <2> QED
    BY <2>3
<1> HIDE DEF Sat
<1>3. ASSUME B # {} PROVE FALSE
  <2>1. PICK n \in B : \A m \in B : n <= m
    BY <1>3, LeastIs
  <2>2. n # 0 /\ n - 1 \in Nat /\ n - 1 \notin B
    BY <1>1, <2>1
  <2>3. Sat(n - 1)
    BY <2>2
  <2>4. Sat((n - 1) + 1)
    BY <1>2, <2>2, <2>3
  <2> QED
    BY <2>1, <2>4
<1>4. Sat(Len(s))
  BY <1>3
<1> DEFINE G == CHOOSE F : F = [t \in SUBSET (1 .. Len(s)) |-> Step(F, s, t)]
<1>5. G = [t \in SUBSET (1 .. Len(s)) |-> Step(G, s, t)]
  BY <1>4 DEF Sat
<1>6. Chunks(s) = G[1 .. Len(s)]
  <2>1. DOMAIN s = 1 .. Len(s)
    OBVIOUS
  <2> QED
    BY <2>1 DEF Chunks, FoldLeft, MapThenFoldSet, Step
<1> QED
  BY <1>5, <1>6

LEMMA NothingToShow == Chunks(<<>>) = <<>>
<1>1. <<>> \in Seq(Items) /\ 1 .. Len(<<>>) = {}
  OBVIOUS
<1>2. PICK F : F = [t \in SUBSET (1 .. Len(<<>>)) |-> Step(F, <<>>, t)] /\ Chunks(<<>>) = F[1 .. Len(<<>>)]
  BY <1>1, ChunksFold
<1>3. {} \in SUBSET (1 .. Len(<<>>)) /\ Chunks(<<>>) = F[{}]
  BY <1>1, <1>2
<1>4. F[{}] = Step(F, <<>>, {})
  BY <1>2, <1>3
<1> QED
  BY <1>3, <1>4 DEF Step

\* What is packed from the text of some blocks has the text of those.
LEMMA ChunksIs ==
    ASSUME NEW s \in Seq(Items), NEW es, Apart(s, es)
    PROVE  Chunks(s) \in Blocks(es)
<1>1. PICK F : F = [t \in SUBSET (1 .. Len(s)) |-> Step(F, s, t)] /\ Chunks(s) = F[1 .. Len(s)]
  BY ChunksFold
<1> DEFINE Sat(n) == \A t \in SUBSET (1 .. Len(s)) : t \subseteq 1 .. n => F[t] \in Blocks(es)
           B == {n \in Nat : ~ Sat(n)}
<1>2. ASSUME NEW t \in SUBSET (1 .. Len(s)), t = {} PROVE F[t] \in Blocks(es)
  <2>1. F[t] = <<>>
    BY <1>1, <1>2 DEF Step
  <2> QED
    BY <2>1 DEF Blocks
<1>3. Sat(0)
  BY <1>2
<1>4. ASSUME NEW n \in Nat, Sat(n) PROVE Sat(n + 1)
  <2>1. SUFFICES ASSUME NEW t \in SUBSET (1 .. Len(s)), t \subseteq 1 .. n + 1, t # {}
                 PROVE  F[t] \in Blocks(es)
    BY <1>2
  <2> DEFINE m == Max(t)
  <2>2. m \in t /\ \A y \in t : y <= m
    <3>1. t \in SUBSET Nat /\ (\A y \in t : y <= n + 1) /\ n + 1 \in Nat
      BY <2>1
    <3> QED
      BY <2>1, <3>1, MaxIs
  <2>3. F[t] = Packed(F[t \ {m}], s[m])
    BY <1>1, <2>1 DEF Step
  <2> HIDE DEF m
  <2>4. m \in 1 .. Len(s) /\ m \in 1 .. n + 1 /\ Len(s) \in Nat
    BY <2>1, <2>2
  <2>5. t \ {m} \in SUBSET (1 .. Len(s)) /\ t \ {m} \subseteq 1 .. n
    <3>1. ASSUME NEW y \in t \ {m} PROVE y \in 1 .. n
      <4>1. y \in 1 .. n + 1 /\ y <= m /\ y # m
        BY <2>1, <2>2, <3>1
      <4> QED
        BY <2>4, <4>1
    <3> QED
      BY <3>1, <2>1
  <2>6. F[t \ {m}] \in Blocks(es)
    BY <1>4, <2>5
  <2>7. s[m] \in Items /\ (s[m].kind = "text" => s[m].id \in es)
    BY <2>4 DEF Apart
  <2> QED
    BY <2>3, <2>6, <2>7, PackedIs
<1> HIDE DEF Sat
<1>5. ASSUME B # {} PROVE FALSE
  <2>1. PICK n \in B : \A m \in B : n <= m
    BY <1>5, LeastIs
  <2>2. n # 0 /\ n - 1 \in Nat /\ n - 1 \notin B
    BY <1>3, <2>1
  <2>3. Sat(n - 1)
    BY <2>2
  <2>4. Sat((n - 1) + 1)
    BY <1>4, <2>2, <2>3
  <2> QED
    BY <2>1, <2>4
<1>6. Sat(Len(s))
  BY <1>5
<1> QED
  BY <1>1, <1>6 DEF Sat

-----------------------------------------------------------------------------
(* Timelines.                                                               *)

LEMMA MappedIs ==
    ASSUME NEW s \in Seq(Items), NEW f, DOMAIN f = DOMAIN s, f = [i \in DOMAIN f |-> f[i]],
           \A i \in DOMAIN s : f[i] \in Items
    PROVE  f \in Seq(Items) /\ Len(f) = Len(s)
<1>1. DOMAIN s = 1 .. Len(s) /\ Len(s) \in Nat
  OBVIOUS
<1>2. f = [i \in 1 .. Len(s) |-> f[i]] /\ \A i \in 1 .. Len(s) : f[i] \in Items
  BY <1>1
<1>3. f \in Seq(Items)
  BY <1>1, <1>2
<1> QED
  BY <1>1, <1>2, <1>3

\* An item that was there before: nothing but its length has changed, and that
\* of a call only if it is one of these.
Like(a, b, these) ==
    /\ a.kind = b.kind /\ a.id = b.id /\ a.named = b.named
    /\ a.open => b.open
    /\ a.kind = "tool" /\ a.id \notin these => a.v = b.v

\* Each item of a timeline is one of some new ones or was there before, and each
\* call that was there still is.
Grows(s, f, these, news) ==
    /\ f \in Seq(Items)
    /\ \A j \in DOMAIN f : f[j] \in news \/ \E i \in DOMAIN s : Like(f[j], s[i], these)
    /\ \A i \in DOMAIN s : s[i].kind = "tool" => \E j \in DOMAIN f : Like(f[j], s[i], these)

LEMMA AllAlike ==
    ASSUME NEW s \in Seq(Items), NEW f, NEW these, DOMAIN f = DOMAIN s, f = [i \in DOMAIN f |-> f[i]],
           \A i \in DOMAIN s : f[i] \in Items /\ Like(f[i], s[i], these)
    PROVE  Grows(s, f, these, {})
<1>1. f \in Seq(Items)
  BY MappedIs
<1> QED
  BY <1>1 DEF Grows

LEMMA GrowsMore ==
    ASSUME NEW s \in Seq(Items), NEW f, NEW g, NEW these, NEW news,
           Grows(s, f, {}, {}), Grows(f, g, these, news)
    PROVE  Grows(s, g, these, news)
<1>1. \A a, b, c : Like(a, b, these) /\ Like(b, c, {}) => Like(a, c, these)
  BY DEF Like
<1>2. ASSUME NEW j \in DOMAIN g PROVE g[j] \in news \/ \E i \in DOMAIN s : Like(g[j], s[i], these)
  <2>1. CASE g[j] \in news
    BY <2>1
  <2>2. CASE ~ (g[j] \in news)
    <3>1. PICK k \in DOMAIN f : Like(g[j], f[k], these)
      BY <2>2 DEF Grows
    <3>2. PICK i \in DOMAIN s : Like(f[k], s[i], {})
      BY DEF Grows
    <3> QED
      BY <1>1, <3>1, <3>2
  <2> QED
    BY <2>1, <2>2
<1>3. ASSUME NEW i \in DOMAIN s, s[i].kind = "tool" PROVE \E j \in DOMAIN g : Like(g[j], s[i], these)
  <2>1. PICK k \in DOMAIN f : Like(f[k], s[i], {})
    BY <1>3 DEF Grows
  <2>2. f[k].kind = "tool"
    BY <1>3, <2>1 DEF Like
  <2>3. PICK j \in DOMAIN g : Like(g[j], f[k], these)
    BY <2>2 DEF Grows
  <2> QED
    BY <1>1, <2>1, <2>3
<1> QED
  BY <1>2, <1>3 DEF Grows

LEMMA CloseIs ==
    ASSUME NEW s \in Seq(Items)
    PROVE  /\ Close(s) \in Seq(Items) /\ Len(Close(s)) = Len(s) /\ Grows(s, Close(s), {}, {})
           /\ \A i \in DOMAIN s : Close(s)[i] = [s[i] EXCEPT !.open = FALSE]
<1>1. DOMAIN Close(s) = DOMAIN s /\ Close(s) = [i \in DOMAIN Close(s) |-> Close(s)[i]]
  BY DEF Close
<1>2. \A i \in DOMAIN s : Close(s)[i] = [s[i] EXCEPT !.open = FALSE]
  BY DEF Close
<1>3. ASSUME NEW i \in DOMAIN s PROVE Close(s)[i] \in Items /\ Like(Close(s)[i], s[i], {})
  <2>1. s[i] \in Items
    BY <1>3
  <2> QED
    BY <1>2, <2>1 DEF Items, Like
<1>4. Grows(s, Close(s), {}, {})
  BY <1>1, <1>3, AllAlike
<1> QED
  BY <1>1, <1>2, <1>3, <1>4, MappedIs

LEMMA AppendGrows ==
    ASSUME NEW s \in Seq(Items), NEW item \in Items
    PROVE  Grows(s, Append(s, item), {}, {item})
<1> DEFINE f == Append(s, item)
<1>1. f \in Seq(Items) /\ Len(f) = Len(s) + 1 /\ Len(s) \in Nat
  OBVIOUS
<1>2. \A j \in 1 .. Len(f) : f[j] = IF j = Len(s) + 1 THEN item ELSE s[j]
  BY <1>1
<1> HIDE DEF f
<1>3. \A x : Like(x, x, {})
  BY DEF Like
<1>4. ASSUME NEW j \in DOMAIN f PROVE f[j] \in {item} \/ \E i \in DOMAIN s : Like(f[j], s[i], {})
  <2>1. j \in 1 .. Len(f)
    BY <1>1
  <2>2. CASE j = Len(s) + 1
    BY <1>2, <2>1, <2>2
  <2>3. CASE j # Len(s) + 1
    <3>1. j \in DOMAIN s /\ f[j] = s[j]
      BY <1>1, <1>2, <2>1, <2>3
    <3> QED
      BY <1>3, <3>1
  <2> QED
    BY <2>2, <2>3
<1>5. ASSUME NEW i \in DOMAIN s PROVE \E j \in DOMAIN f : Like(f[j], s[i], {})
  <2>1. i \in DOMAIN f /\ f[i] = s[i]
    BY <1>1, <1>2
  <2> QED
    BY <1>3, <2>1
<1>6. Grows(s, f, {}, {item})
  BY <1>1, <1>4, <1>5 DEF Grows
<1> QED
  BY <1>6 DEF f

LEMMA StatusIndexIs ==
    ASSUME NEW s \in Seq(Items)
    PROVE  StatusIndex(s) \in 1 .. Len(s) + 1
<1>1. Len(s) \in Nat /\ DOMAIN s = 1 .. Len(s)
  OBVIOUS
<1>2. CASE Texts(s) = {}
  BY <1>1, <1>2 DEF StatusIndex
<1>3. CASE Texts(s) # {}
  <2>1. Texts(s) \in SUBSET Nat /\ Texts(s) \subseteq 1 .. Len(s) /\ \A x \in Texts(s) : x <= Len(s)
    BY <1>1 DEF Texts
  <2>2. Max(Texts(s)) \in Texts(s)
    BY <1>1, <1>3, <2>1, MaxIs
  <2>3. StatusIndex(s) = Max(Texts(s)) /\ Max(Texts(s)) \in 1 .. Len(s)
    BY <1>3, <2>1, <2>2 DEF StatusIndex
  <2> QED
    BY <1>1, <2>3
<1> QED
  BY <1>2, <1>3

LEMMA WithStatusGrows ==
    ASSUME NEW s \in Seq(Items), NEW item \in Items
    PROVE  Grows(s, WithStatus(s, item), {}, {item})
<1> DEFINE c == Close(s)
           k == StatusIndex(s)
           f == InsertAt(c, k, item)
<1>1. c \in Seq(Items) /\ Len(c) = Len(s) /\ Len(c) \in Nat /\ Grows(s, c, {}, {})
  BY CloseIs
<1>2. k \in 1 .. Len(c) + 1 /\ k \in Nat
  BY <1>1, StatusIndexIs
<1>3. WithStatus(s, item) = f
  BY DEF WithStatus
<1> HIDE DEF c, k
<1>4. /\ f \in Seq(Items) /\ Len(f) = Len(c) + 1
      /\ \A i \in 1 .. Len(c) + 1 : f[i] = IF i < k THEN c[i] ELSE IF i = k THEN item ELSE c[i - 1]
  BY <1>1, <1>2, InsertAtIs
<1> HIDE DEF f
<1>5. \A x : Like(x, x, {})
  BY DEF Like
<1>6. ASSUME NEW j \in DOMAIN f PROVE f[j] \in {item} \/ \E i \in DOMAIN c : Like(f[j], c[i], {})
  <2>1. j \in 1 .. Len(c) + 1
    BY <1>4
  <2>2. CASE j < k
    <3>1. j \in DOMAIN c /\ f[j] = c[j]
      BY <1>1, <1>2, <1>4, <2>1, <2>2
    <3> QED
      BY <1>5, <3>1
  <2>3. CASE j = k
    BY <1>2, <1>4, <2>1, <2>3
  <2>4. CASE j > k
    <3>1. j - 1 \in DOMAIN c /\ f[j] = c[j - 1]
      BY <1>1, <1>2, <1>4, <2>1, <2>4
    <3> QED
      BY <1>5, <3>1
  <2> QED
    BY <1>2, <2>1, <2>2, <2>3, <2>4
<1>7. ASSUME NEW i \in DOMAIN c PROVE \E j \in DOMAIN f : Like(f[j], c[i], {})
  <2>1. i \in 1 .. Len(c)
    BY <1>1
  <2>2. CASE i < k
    <3>1. i \in DOMAIN f /\ f[i] = c[i]
      BY <1>1, <1>4, <2>1, <2>2
    <3> QED
      BY <1>5, <3>1
  <2>3. CASE i >= k
    <3>1. i + 1 \in DOMAIN f /\ i + 1 \in 1 .. Len(c) + 1
      BY <1>1, <1>4, <2>1
    <3>2. f[i + 1] = c[i]
      BY <1>2, <1>4, <2>1, <2>3, <3>1
    <3> QED
      BY <1>5, <3>1, <3>2
  <2> QED
    BY <1>2, <2>1, <2>2, <2>3
<1>8. Grows(c, f, {}, {item})
  BY <1>4, <1>6, <1>7 DEF Grows
<1> QED
  BY <1>1, <1>3, <1>8, GrowsMore

-----------------------------------------------------------------------------
(* What an event does to the timeline.                                      *)

\* Only text is open.
OpenIsText == \A i \in DOMAIN items : items[i].open => items[i].kind = "text"

\* What an event may add, the tool events aside.
Fresh == {x \in Items : /\ x.kind # "tool" /\ (x.open => x.kind = "text")
                        /\ x.kind = "text" => x.id = epoch /\ turn = "running"}

LEMMA EpochsAre == Cardinality(Cards) \in Nat /\ Epochs \subseteq Nat /\ 0 \in Epochs
<1>1. Cardinality(Cards) \in Nat
  BY TimelineAssumption, FS_CardinalityType
<1> QED
  BY <1>1, TimelineAssumption DEF Epochs

LEMMA Longer ==
    ASSUME NEW x \in Items, NEW n \in Int
    PROVE  LET y == [x EXCEPT !.v = n]
           IN  /\ y \in Items /\ y.kind = x.kind /\ y.id = x.id /\ y.named = x.named
               /\ y.open = x.open /\ y.v = n
<1> QED
  BY DEF Items

LEMMA Shut ==
    ASSUME NEW x \in Items
    PROVE  LET y == [x EXCEPT !.open = FALSE]
           IN  /\ y \in Items /\ y.kind = x.kind /\ y.id = x.id /\ y.named = x.named
               /\ ~y.open /\ y.v = x.v
<1> QED
  BY DEF Items

LEMMA Opened ==
    ASSUME NEW x \in Items
    PROVE  LET y == [x EXCEPT !.open = TRUE]
           IN  y \in Items /\ y.kind = x.kind /\ y.id = x.id
<1> QED
  BY DEF Items

LEMMA Named ==
    ASSUME NEW x \in Items, NEW b \in BOOLEAN
    PROVE  LET y == [x EXCEPT !.named = b]
           IN  y \in Items /\ y.kind = x.kind /\ y.id = x.id /\ y.v = x.v /\ y.named = b
<1> QED
  BY DEF Items

LEMMA GrowsWith ==
    ASSUME NEW s, NEW f, NEW these, NEW some, NEW news, some \subseteq news, Grows(s, f, these, some)
    PROVE  Grows(s, f, these, news)
<1> QED
  BY DEF Grows

\* Delta changes nothing but the open text.
LEMMA DeltaGrows ==
    ASSUME TimelineTypeOK, OpenIsText, Delta
    PROVE  Grows(items, items', {}, Fresh)
<1>1. items \in Seq(Items) /\ epoch \in Nat /\ turn = "running" /\ \A i \in DOMAIN items : items[i] \in Items
  BY EpochsAre DEF TimelineTypeOK, Delta
<1>2. CASE OpenText(items) = {}
  <2> DEFINE new == [Item("text", epoch, 1) EXCEPT !.open = TRUE]
  <2>1. items' = Append(items, new)
    BY <1>2 DEF Delta, Applied, Render
  <2>2. new \in Items /\ new \in Fresh
    <3> DEFINE x == Item("text", epoch, 1)
    <3>1. x \in Items /\ x.kind = "text" /\ x.id = epoch
      BY <1>1 DEF Item, Items
    <3>2. new = [x EXCEPT !.open = TRUE]
      OBVIOUS
    <3> HIDE DEF x, new
    <3> QED
      BY <1>1, <3>1, <3>2, Opened DEF Fresh
  <2> HIDE DEF new
  <2>3. Grows(items, items', {}, {new})
    BY <1>1, <2>1, <2>2, AppendGrows
  <2> QED
    BY <2>2, <2>3, GrowsWith
<1>3. CASE OpenText(items) # {}
  <2> DEFINE f == [i \in DOMAIN items |-> IF items[i].open THEN [items[i] EXCEPT !.v = @ + 1] ELSE items[i]]
  <2>1. items' = f
    BY <1>3 DEF Delta, Applied, Render
  <2>2. ASSUME NEW i \in DOMAIN items PROVE f[i] \in Items /\ Like(f[i], items[i], {})
    <3>1. items[i] \in Items /\ items[i].v \in Int /\ (items[i].open => items[i].kind = "text")
      BY <1>1 DEF OpenIsText, Items
    <3>2. items[i].v + 1 \in Int
      BY <3>1
    <3>3. CASE items[i].open
      <4>1. f[i] = [items[i] EXCEPT !.v = items[i].v + 1]
        BY <3>3
      <4> HIDE DEF f
      <4> QED
        BY <3>1, <3>2, <3>3, <4>1, Longer DEF Like
    <3>4. CASE ~items[i].open
      BY <3>1, <3>4 DEF Like
    <3> QED
      BY <3>3, <3>4
  <2>3. DOMAIN f = DOMAIN items /\ f = [i \in DOMAIN f |-> f[i]]
    OBVIOUS
  <2> HIDE DEF f
  <2>4. Grows(items, f, {}, {})
    BY <1>1, <2>2, <2>3, AllAlike
  <2> QED
    BY <2>1, <2>4, GrowsWith
<1> QED
  BY <1>2, <1>3

LEMMA AnswerGrows ==
    ASSUME TimelineTypeOK, OpenIsText, NEW v \in {0, 1, MaxText}, Answer(v)
    PROVE  Grows(items, items', {}, Fresh)
<1>1. /\ items \in Seq(Items) /\ epoch \in Nat /\ turn = "running" /\ v \in Nat
      /\ \A i \in DOMAIN items : items[i] \in Items
  <2>1. turn = "running"
    BY DEF Answer
  <2>2. v \in Nat
    BY TimelineAssumption
  <2> QED
    BY <2>1, <2>2, EpochsAre DEF TimelineTypeOK
<1>2. CASE OpenText(items) = {}
  <2> DEFINE new == Item("text", epoch, v)
  <2>1. items' = Append(items, new)
    BY <1>2 DEF Answer, Applied, Render
  <2>2. new \in Items /\ new \in Fresh
    BY <1>1 DEF Item, Items, Fresh
  <2> HIDE DEF new
  <2>3. Grows(items, items', {}, {new})
    BY <1>1, <2>1, <2>2, AppendGrows
  <2> QED
    BY <2>2, <2>3, GrowsWith
<1>3. CASE OpenText(items) # {}
  <2> DEFINE f == [i \in DOMAIN items |->
                      IF items[i].open /\ v > 0 THEN [items[i] EXCEPT !.v = v] ELSE items[i]]
  <2>1. items' = Close(f)
    BY <1>3 DEF Answer, Applied, Render
  <2>2. ASSUME NEW i \in DOMAIN items PROVE f[i] \in Items /\ Like(f[i], items[i], {})
    <3>1. items[i] \in Items /\ (items[i].open => items[i].kind = "text")
      BY <1>1 DEF OpenIsText
    <3>2. CASE items[i].open /\ v > 0
      <4>1. f[i] = [items[i] EXCEPT !.v = v] /\ v \in Int
        BY <1>1, <3>2
      <4> HIDE DEF f
      <4> QED
        BY <3>1, <3>2, <4>1, Longer DEF Like
    <3>3. CASE ~(items[i].open /\ v > 0)
      BY <3>1, <3>3 DEF Like
    <3> QED
      BY <3>2, <3>3
  <2>3. DOMAIN f = DOMAIN items /\ f = [i \in DOMAIN f |-> f[i]]
    OBVIOUS
  <2> HIDE DEF f
  <2>4. Grows(items, f, {}, {}) /\ f \in Seq(Items)
    BY <1>1, <2>2, <2>3, AllAlike DEF Grows
  <2>5. Grows(f, Close(f), {}, {})
    BY <2>4, CloseIs
  <2>6. Grows(items, Close(f), {}, {})
    BY <1>1, <2>4, <2>5, GrowsMore
  <2> QED
    BY <2>1, <2>6, GrowsWith
<1> QED
  BY <1>2, <1>3

LEMMA ReasoningGrows ==
    ASSUME TimelineTypeOK, Reasoning
    PROVE  Grows(items, items', {}, Fresh)
<1> DEFINE c == Close(items)
<1>1. items \in Seq(Items) /\ c \in Seq(Items) /\ Grows(items, c, {}, {})
  BY CloseIs DEF TimelineTypeOK
<1>2. items' = Grown(c, "reasoning", 0)
  BY DEF Reasoning, Applied, Render
<1> HIDE DEF c
<1>3. CASE At(c, "reasoning", 0) = {}
  <2> DEFINE new == Item("reasoning", 0, 1)
  <2>1. items' = Append(c, new)
    BY <1>2, <1>3 DEF Grown
  <2>2. new \in Items /\ new \in Fresh
    BY DEF Item, Items, Fresh
  <2> HIDE DEF new
  <2>3. Grows(c, items', {}, {new})
    BY <1>1, <2>1, <2>2, AppendGrows
  <2>4. Grows(items, items', {}, {new})
    BY <1>1, <2>3, GrowsMore
  <2> QED
    BY <2>2, <2>4, GrowsWith
<1>4. CASE At(c, "reasoning", 0) # {}
  <2> DEFINE f == [i \in DOMAIN c |-> IF i \in At(c, "reasoning", 0) THEN [c[i] EXCEPT !.v = @ + 1] ELSE c[i]]
  <2>1. items' = f
    BY <1>2, <1>4 DEF Grown
  <2>2. ASSUME NEW i \in DOMAIN c PROVE f[i] \in Items /\ Like(f[i], c[i], {})
    <3>1. c[i] \in Items /\ (i \in At(c, "reasoning", 0) => c[i].kind = "reasoning")
      BY <1>1 DEF At
    <3> QED
      BY <3>1 DEF Items, Like
  <2>3. DOMAIN f = DOMAIN c /\ f = [i \in DOMAIN f |-> f[i]]
    OBVIOUS
  <2> HIDE DEF f
  <2>4. Grows(c, f, {}, {})
    BY <1>1, <2>2, <2>3, AllAlike
  <2>5. Grows(items, f, {}, {})
    BY <1>1, <2>4, GrowsMore
  <2> QED
    BY <2>1, <2>5, GrowsWith
<1> QED
  BY <1>3, <1>4

\* A status line is no text and no call.
LEMMA StatusGrows ==
    ASSUME TimelineTypeOK, NEW kind \in {"notice", "audit", "todos"}, NEW v \in Int,
           items' = WithStatus(items, Item(kind, 0, v))
    PROVE  Grows(items, items', {}, Fresh)
<1> DEFINE new == Item(kind, 0, v)
<1>1. new \in Items /\ new \in Fresh
  BY DEF Item, Items, Fresh
<1> HIDE DEF new
<1>2. items \in Seq(Items) /\ items' = WithStatus(items, new)
  BY DEF new, TimelineTypeOK
<1>3. Grows(items, items', {}, {new})
  BY <1>1, <1>2, WithStatusGrows
<1> QED
  BY <1>1, <1>3, GrowsWith

LEMMA NoticedGrows ==
    ASSUME TimelineTypeOK, Noticed
    PROVE  Grows(items, items', {}, Fresh)
<1>1. items' = WithStatus(items, Item("notice", 0, 1))
  BY DEF Noticed, Applied, Render
<1> QED
  BY <1>1, StatusGrows

LEMMA AuditedGrows ==
    ASSUME TimelineTypeOK, Audited
    PROVE  Grows(items, items', {}, Fresh)
<1> DEFINE c == Close(items)
           before == StatusIndex(items) - 1
           f == [i \in DOMAIN items |-> [c[i] EXCEPT !.v = IF i = before THEN @ + 1 ELSE @]]
<1>1. items \in Seq(Items) /\ c \in Seq(Items) /\ \A i \in DOMAIN items : c[i] = [items[i] EXCEPT !.open = FALSE]
  BY CloseIs DEF TimelineTypeOK
<1>2. CASE before > 0 /\ items[before].kind = "audit"
  <2>1. items' = f
    BY <1>2 DEF Audited, Applied, Render
  <2> HIDE DEF c, before
  <2>2. ASSUME NEW i \in DOMAIN items PROVE f[i] \in Items /\ Like(f[i], items[i], {})
    <3>1. items[i] \in Items /\ (i = before => items[i].kind = "audit")
      BY <1>1, <1>2
    <3>2. /\ c[i] \in Items /\ c[i].kind = items[i].kind /\ c[i].id = items[i].id
          /\ c[i].named = items[i].named /\ ~c[i].open /\ c[i].v = items[i].v
      BY <1>1, <3>1, Shut
    <3> DEFINE n == IF i = before THEN c[i].v + 1 ELSE c[i].v
    <3>3. n \in Int
      BY <3>2 DEF Items
    <3>4. f[i] = [c[i] EXCEPT !.v = n]
      OBVIOUS
    <3>5. i # before => n = items[i].v
      BY <3>2
    <3> HIDE DEF f, n
    <3> QED
      BY <3>1, <3>2, <3>3, <3>4, <3>5, Longer DEF Like
  <2>3. DOMAIN f = DOMAIN items /\ f = [i \in DOMAIN f |-> f[i]]
    OBVIOUS
  <2> HIDE DEF f
  <2>4. Grows(items, f, {}, {})
    BY <1>1, <2>2, <2>3, AllAlike
  <2> QED
    BY <2>1, <2>4, GrowsWith
<1>3. CASE ~ (before > 0 /\ items[before].kind = "audit")
  <2>1. items' = WithStatus(items, Item("audit", 0, 1))
    BY <1>3 DEF Audited, Applied, Render
  <2> QED
    BY <2>1, StatusGrows
<1> QED
  BY <1>2, <1>3

LEMMA TodosGrow ==
    ASSUME TimelineTypeOK, NEW rendered \in Todos, TodosRefreshed(rendered)
    PROVE  Grows(items, items', {}, Fresh)
<1> DEFINE c == Close(items)
           todos == At(items, "todos", 0)
<1>1. items \in Seq(Items) /\ c \in Seq(Items) /\ \A i \in DOMAIN items : c[i] = [items[i] EXCEPT !.open = FALSE]
  BY CloseIs DEF TimelineTypeOK
<1>2. rendered \in Nat
  BY DEF Todos
<1>3. CASE rendered = 0 /\ todos # {}
  <2> DEFINE k == Min(todos)
             f == RemoveAt(items, k)
  <2>1. items' = f
    BY <1>3, <1>2 DEF TodosRefreshed, Applied, Render
  <2>2. Len(items) \in Nat /\ todos \subseteq 1 .. Len(items) /\ todos \in SUBSET Nat
    BY <1>1 DEF At
  <2>3. k \in todos
    BY <1>3, <2>2, MinIs
  <2>4. items[k].kind = "todos" /\ k \in 1 .. Len(items) /\ k \in Nat
    BY <2>2, <2>3 DEF At
  <2> HIDE DEF todos, k
  <2>5. /\ f \in Seq(Items) /\ Len(f) = Len(items) - 1
        /\ \A i \in 1 .. Len(items) - 1 : f[i] = IF i < k THEN items[i] ELSE items[i + 1]
    BY <1>1, <2>4, RemoveAtIs
  <2> HIDE DEF f
  <2>6. \A x : Like(x, x, {})
    BY DEF Like
  <2>7. ASSUME NEW j \in DOMAIN f PROVE \E i \in DOMAIN items : Like(f[j], items[i], {})
    <3>1. j \in 1 .. Len(items) - 1 /\ j \in 1 .. Len(items) /\ j + 1 \in 1 .. Len(items)
      BY <2>2, <2>5
    <3>2. DOMAIN items = 1 .. Len(items)
      BY <1>1
    <3>3. f[j] = items[j] \/ f[j] = items[j + 1]
      BY <2>5, <3>1
    <3> QED
      BY <2>6, <3>1, <3>2, <3>3
  <2>8. ASSUME NEW i \in DOMAIN items, items[i].kind = "tool" PROVE \E j \in DOMAIN f : Like(f[j], items[i], {})
    <3>1. i \in 1 .. Len(items) /\ i # k /\ DOMAIN f = 1 .. Len(items) - 1
      BY <1>1, <2>4, <2>5, <2>8
    <3>2. CASE i < k
      <4>1. i \in 1 .. Len(items) - 1 /\ f[i] = items[i]
        BY <2>2, <2>4, <2>5, <3>1, <3>2
      <4> QED
        BY <2>6, <3>1, <4>1
    <3>3. CASE i > k
      <4>1. i - 1 \in 1 .. Len(items) - 1 /\ ~ (i - 1 < k) /\ (i - 1) + 1 = i
        BY <2>2, <2>4, <3>1, <3>3
      <4>2. f[i - 1] = items[i]
        BY <2>5, <4>1
      <4> QED
        BY <2>6, <3>1, <4>1, <4>2
    <3> QED
      BY <2>4, <3>1, <3>2, <3>3
  <2> QED
    BY <2>1, <2>5, <2>7, <2>8 DEF Grows
<1>4. CASE rendered = 0 /\ todos = {}
  <2>1. items' = items
    BY <1>2, <1>4 DEF TodosRefreshed, Applied, Render
  <2> QED
    BY <1>1, <2>1 DEF Grows, Like
<1>5. CASE rendered > 0 /\ todos # {}
  <2> DEFINE f == [i \in DOMAIN items |-> [c[i] EXCEPT !.v = IF i \in todos THEN rendered ELSE @]]
  <2>1. items' = f
    BY <1>5, <1>2 DEF TodosRefreshed, Applied, Render
  <2> HIDE DEF c
  <2>2. ASSUME NEW i \in DOMAIN items PROVE f[i] \in Items /\ Like(f[i], items[i], {})
    <3>1. items[i] \in Items /\ (i \in todos => items[i].kind = "todos")
      BY <1>1 DEF At
    <3>2. /\ c[i] \in Items /\ c[i].kind = items[i].kind /\ c[i].id = items[i].id
          /\ c[i].named = items[i].named /\ ~c[i].open /\ c[i].v = items[i].v
      BY <1>1, <3>1, Shut
    <3> DEFINE n == IF i \in todos THEN rendered ELSE c[i].v
    <3>3. n \in Int
      BY <1>2, <3>2 DEF Items
    <3>4. f[i] = [c[i] EXCEPT !.v = n]
      OBVIOUS
    <3>5. i \notin todos => n = items[i].v
      BY <3>2
    <3> HIDE DEF f, n, todos
    <3> QED
      BY <3>1, <3>2, <3>3, <3>4, <3>5, Longer DEF Like
  <2>3. DOMAIN f = DOMAIN items /\ f = [i \in DOMAIN f |-> f[i]]
    OBVIOUS
  <2> HIDE DEF f
  <2>4. Grows(items, f, {}, {})
    BY <1>1, <2>2, <2>3, AllAlike
  <2> QED
    BY <2>1, <2>4, GrowsWith
<1>6. CASE rendered > 0 /\ todos = {}
  <2>1. items' = WithStatus(items, Item("todos", 0, rendered))
    BY <1>6, <1>2 DEF TodosRefreshed, Applied, Render
  <2> QED
    BY <1>2, <2>1, StatusGrows
<1> QED
  BY <1>2, <1>3, <1>4, <1>5, <1>6

\* A call that starts is added.
LEMMA ToolStartGrows ==
    ASSUME TimelineTypeOK, NEW t \in Tools, ToolStart(t)
    PROVE  /\ Grows(items, items', {}, {Item("tool", t, 1)})
           /\ \E j \in DOMAIN items' : items'[j] = Item("tool", t, 1)
           /\ Item("tool", t, 1) \in Items
<1> DEFINE c == Close(items)
           new == Item("tool", t, 1)
<1>1. items \in Seq(Items) /\ c \in Seq(Items) /\ Grows(items, c, {}, {})
  BY CloseIs DEF TimelineTypeOK
<1>2. items' = Append(c, new)
  BY DEF ToolStart, Applied, Render
<1>3. new \in Items
  BY DEF Item, Items
<1> HIDE DEF c, new
<1>4. Grows(c, items', {}, {new})
  BY <1>1, <1>2, <1>3, AppendGrows
<1>5. Grows(items, items', {}, {new})
  BY <1>1, <1>4, GrowsMore
<1>6. \E j \in DOMAIN items' : items'[j] = new
  <2>1. Len(c) + 1 \in DOMAIN items' /\ items'[Len(c) + 1] = new
    BY <1>1, <1>2, <1>3
  <2> QED
    BY <2>1
<1> QED
  BY <1>3, <1>5, <1>6 DEF new

\* A call that ends is shown as over: under its name, if the renderer has that.
LEMMA ToolCompleteGrows ==
    ASSUME TimelineTypeOK, NEW t \in Tools, ToolComplete(t)
    PROVE  LET new == [Item("tool", t, 2) EXCEPT !.named = t \in carried]
           IN  /\ Grows(items, items', {t}, {new})
               /\ \E j \in DOMAIN items' :
                     /\ items'[j].kind = "tool" /\ items'[j].id = t /\ items'[j].v = 2
                     /\ t \in carried /\ (\A i \in At(items, "tool", t) : items[i].named) => items'[j].named
<1> DEFINE c == Close(items)
           mine == At(items, "tool", t)
           new == [Item("tool", t, 2) EXCEPT !.named = t \in carried]
<1>1. /\ items \in Seq(Items) /\ c \in Seq(Items) /\ Grows(items, c, {}, {}) /\ Len(c) = Len(items)
      /\ \A i \in DOMAIN items : c[i] = [items[i] EXCEPT !.open = FALSE]
  BY CloseIs DEF TimelineTypeOK
<1>2. CASE mine # {}
  <2> DEFINE f == [i \in DOMAIN items |-> [c[i] EXCEPT !.v = IF i \in mine THEN 2 ELSE @]]
  <2>1. items' = f
    BY <1>2 DEF ToolComplete, Applied, Render
  <2> HIDE DEF c
  <2>2. ASSUME NEW i \in DOMAIN items
        PROVE  /\ f[i] \in Items /\ Like(f[i], items[i], {t})
               /\ i \in mine => f[i].kind = "tool" /\ f[i].id = t /\ f[i].v = 2 /\ f[i].named = items[i].named
    <3>1. items[i] \in Items /\ (i \in mine <=> items[i].kind = "tool" /\ items[i].id = t)
      BY <1>1 DEF At
    <3>2. /\ c[i] \in Items /\ c[i].kind = items[i].kind /\ c[i].id = items[i].id
          /\ c[i].named = items[i].named /\ ~c[i].open /\ c[i].v = items[i].v
      BY <1>1, <3>1, Shut
    <3> DEFINE n == IF i \in mine THEN 2 ELSE c[i].v
    <3>3. n \in Int /\ (i \in mine => n = 2) /\ (i \notin mine => n = items[i].v)
      BY <3>2 DEF Items
    <3>4. f[i] = [c[i] EXCEPT !.v = n]
      OBVIOUS
    <3> HIDE DEF f, n, mine
    <3> QED
      BY <3>1, <3>2, <3>3, <3>4, Longer DEF Like
  <2>3. DOMAIN f = DOMAIN items /\ f = [i \in DOMAIN f |-> f[i]]
    OBVIOUS
  <2> HIDE DEF f
  <2>4. Grows(items, f, {t}, {})
    BY <1>1, <2>2, <2>3, AllAlike
  <2>5. PICK i : i \in mine /\ i \in DOMAIN items
    BY <1>2 DEF At
  <2>6. /\ i \in DOMAIN f /\ f[i].kind = "tool" /\ f[i].id = t /\ f[i].v = 2
        /\ (\A k \in mine : items[k].named) => f[i].named
    BY <2>2, <2>3, <2>5
  <2>7. Grows(items, items', {t}, {new})
    BY <2>1, <2>4, GrowsWith
  <2> QED
    BY <2>1, <2>6, <2>7
<1>3. CASE mine = {}
  <2>1. items' = Append(c, new)
    BY <1>3 DEF ToolComplete, Applied, Render
  <2>2. /\ new \in Items /\ new.kind = "tool" /\ new.id = t /\ new.v = 2
        /\ t \in carried => new.named
    <3> DEFINE x == Item("tool", t, 2)
    <3>1. x \in Items /\ x.kind = "tool" /\ x.id = t /\ x.v = 2
      BY DEF Item, Items
    <3> DEFINE b == t \in carried
    <3>2. b \in BOOLEAN /\ (t \in carried => b = TRUE)
      OBVIOUS
    <3>3. new = [x EXCEPT !.named = b]
      OBVIOUS
    <3> HIDE DEF b, x, new
    <3> QED
      BY <3>1, <3>2, <3>3, Named
  <2> HIDE DEF c, new
  <2>3. Grows(c, items', {}, {new})
    BY <1>1, <2>1, <2>2, AppendGrows
  <2>4. Grows(items, items', {}, {new})
    BY <1>1, <2>3, GrowsMore
  <2>5. Grows(items, items', {t}, {new})
    BY <2>4 DEF Grows, Like
  <2>6. Len(c) + 1 \in DOMAIN items' /\ items'[Len(c) + 1] = new
    BY <1>1, <2>1, <2>2
  <2>7. \E j \in DOMAIN items' :
           /\ items'[j].kind = "tool" /\ items'[j].id = t /\ items'[j].v = 2
           /\ t \in carried => items'[j].named
    BY <2>2, <2>6
  <2> QED
    BY <2>5, <2>7 DEF new
<1> QED
  BY <1>2, <1>3

\* A failed card may say so in a notice.
LEMMA CardPostedGrows ==
    ASSUME TimelineTypeOK, NEW c \in Cards, CardPosted(c)
    PROVE  items' = items \/ (turn = "running" /\ Render(items') /\ Grows(items, items', {}, Fresh))
<1>1. CASE items' = items
  BY <1>1
<1>2. CASE turn = "running" /\ Render(WithStatus(items, Item("notice", 0, 1)))
  <2>1. items' = WithStatus(items, Item("notice", 0, 1))
    BY <1>2 DEF Render
  <2>2. Grows(items, items', {}, Fresh)
    BY <2>1, StatusGrows
  <2>3. Render(items')
    BY <1>2, <2>1
  <2> QED
    BY <1>2, <2>2, <2>3
<1> QED
  BY <1>1, <1>2 DEF CardPosted

-----------------------------------------------------------------------------
(* The line of flushes.                                                     *)

\* The timer, the end of the turn or a card waits for a flush.
Waiting(by) ==
    \/ write.pc # "none" /\ write.by = by
    \/ \E i \in DOMAIN chain : chain[i].by = by

\* A card waits once; behind the end of the turn there are only timers.
Before(a, b) == (a = "turn" => b = "timer") /\ (a \in Cards => b # a)

InLine ==
    /\ \A i, j \in DOMAIN chain : i < j => Before(chain[i].by, chain[j].by)
    /\ write.pc # "none" => \A j \in DOMAIN chain : Before(write.by, chain[j].by)

\* A card waits as long as its handler does, and never for a turn that has not
\* begun or is over; the end of a turn waits only while the turn ends.
Lined ==
    /\ \A c \in Cards : card[c].at = "flushing" <=> Waiting(c)
    /\ turn \in {"idle", "preparing"} => \A c \in Cards : ~Waiting(c)
    /\ Waiting("turn") => turn \in {"ending", "ended"}
    /\ InLine

Flushes == [by : Askers, epoch : Epochs]

LEMMA AskersDiffer == "timer" # "turn" /\ \A c \in Cards : c # "timer" /\ c # "turn"
<1> QED
  BY TimelineAssumption

LEMMA CardTyped ==
    ASSUME TimelineTypeOK
    PROVE  /\ card = [c \in Cards |-> card[c]]
           /\ \A c \in Cards : card[c].at \in {"none", "flushing", "posting", "over"} /\ card[c].kind \in Kinds
                               /\ card[c].tools \in SUBSET Tools /\ card[c].turn \in 0 .. MaxTurns
<1> QED
  BY DEF TimelineTypeOK

\* A flush joins at the end.
LEMMA FlushIs ==
    ASSUME TimelineTypeOK, NEW by \in Askers, Flush(by)
    PROVE  /\ Len(chain) \in Nat /\ DOMAIN chain = 1 .. Len(chain) /\ DOMAIN chain' = 1 .. Len(chain) + 1
           /\ chain' \in Seq(Flushes)
           /\ \A i \in 1 .. Len(chain) : chain'[i] = chain[i]
           /\ chain'[Len(chain) + 1] = [by |-> by, epoch |-> epoch]
<1>1. chain \in Seq(Flushes) /\ [by |-> by, epoch |-> epoch] \in Flushes
  BY DEF TimelineTypeOK, Flushes
<1>2. chain' = Append(chain, [by |-> by, epoch |-> epoch])
  BY DEF Flush
<1> QED
  BY <1>1, <1>2

LEMMA FlushWaits ==
    ASSUME TimelineTypeOK, NEW by \in Askers, Flush(by), write' = write
    PROVE  \A b : Waiting(b)' <=> Waiting(b) \/ b = by
<1>1. /\ Len(chain) \in Nat /\ DOMAIN chain = 1 .. Len(chain) /\ DOMAIN chain' = 1 .. Len(chain) + 1
      /\ \A i \in 1 .. Len(chain) : chain'[i] = chain[i]
      /\ chain'[Len(chain) + 1] = [by |-> by, epoch |-> epoch]
  BY FlushIs
<1>2. \A b : (\E i \in DOMAIN chain' : chain'[i].by = b) <=> (\E i \in DOMAIN chain : chain[i].by = b) \/ b = by
  <2>1. ASSUME NEW b, NEW i \in DOMAIN chain', chain'[i].by = b
        PROVE  (\E j \in DOMAIN chain : chain[j].by = b) \/ b = by
    <3>1. CASE i = Len(chain) + 1
      BY <1>1, <2>1, <3>1
    <3>2. CASE i # Len(chain) + 1
      <4>1. i \in DOMAIN chain /\ chain'[i] = chain[i]
        BY <1>1, <3>2
      <4> QED
        BY <2>1, <4>1
    <3> QED
      BY <3>1, <3>2
  <2>2. ASSUME NEW b, NEW i \in DOMAIN chain, chain[i].by = b
        PROVE  \E j \in DOMAIN chain' : chain'[j].by = b
    <3>1. i \in DOMAIN chain' /\ chain'[i] = chain[i]
      BY <1>1
    <3> QED
      BY <2>2, <3>1
  <2>3. Len(chain) + 1 \in DOMAIN chain' /\ chain'[Len(chain) + 1].by = by
    BY <1>1
  <2> QED
    BY <2>1, <2>2, <2>3
<1> QED
  BY <1>2 DEF Waiting

LEMMA FlushKeepsLine ==
    ASSUME TimelineTypeOK, InLine, NEW by \in Askers, Flush(by), write' = write,
           \A b : Waiting(b) => Before(b, by)
    PROVE  InLine'
<1>1. /\ Len(chain) \in Nat /\ DOMAIN chain = 1 .. Len(chain) /\ DOMAIN chain' = 1 .. Len(chain) + 1
      /\ \A i \in 1 .. Len(chain) : chain'[i] = chain[i]
      /\ chain'[Len(chain) + 1] = [by |-> by, epoch |-> epoch]
  BY FlushIs
<1>2. chain'[Len(chain) + 1].by = by
  BY <1>1
<1>3. ASSUME NEW i \in DOMAIN chain', NEW j \in DOMAIN chain', i < j PROVE Before(chain'[i].by, chain'[j].by)
  <2>1. i \in DOMAIN chain /\ chain'[i] = chain[i] /\ Waiting(chain[i].by)
    <3>1. i \in 1 .. Len(chain)
      BY <1>1, <1>3
    <3> QED
      BY <1>1, <3>1 DEF Waiting
  <2>2. CASE j = Len(chain) + 1
    BY <1>2, <2>1, <2>2
  <2>3. CASE j # Len(chain) + 1
    <3>1. j \in DOMAIN chain /\ chain'[j] = chain[j]
      BY <1>1, <2>3
    <3> QED
      BY <1>3, <2>1, <3>1 DEF InLine
  <2> QED
    BY <2>2, <2>3
<1>4. ASSUME write'.pc # "none", NEW j \in DOMAIN chain' PROVE Before(write'.by, chain'[j].by)
  <2>1. write.pc # "none" /\ Waiting(write.by)
    BY <1>4 DEF Waiting
  <2>2. CASE j = Len(chain) + 1
    BY <1>2, <2>1, <2>2
  <2>3. CASE j # Len(chain) + 1
    <3>1. j \in DOMAIN chain /\ chain'[j] = chain[j]
      BY <1>1, <2>3
    <3> QED
      BY <2>1, <3>1 DEF InLine
  <2> QED
    BY <2>2, <2>3
<1> QED
  BY <1>3, <1>4 DEF InLine, Before

\* The first one leaves the chain.
LEMMA TailIs ==
    ASSUME TimelineTypeOK, chain # <<>>, chain' = Tail(chain)
    PROVE  /\ Len(chain) \in Nat \ {0} /\ DOMAIN chain = 1 .. Len(chain) /\ DOMAIN chain' = 1 .. Len(chain) - 1
           /\ chain' \in Seq(Flushes)
           /\ \A i \in 1 .. Len(chain) - 1 : chain'[i] = chain[i + 1]
           /\ Head(chain) = chain[1] /\ chain[1] \in Flushes
           /\ Head(chain).by \in Askers /\ Head(chain).epoch \in Epochs
<1>1. chain \in Seq(Flushes)
  BY DEF TimelineTypeOK, Flushes
<1>2. Len(chain) \in Nat \ {0}
  BY <1>1, EmptySeq
<1>3. chain[1] \in Flushes /\ Head(chain) = chain[1]
  <2>1. 1 \in 1 .. Len(chain)
    BY <1>2
  <2>2. chain[1] \in Flushes
    BY <1>1, <2>1
  <2> QED
    BY <1>1, <1>2, <2>2
<1>4. Head(chain).by \in Askers /\ Head(chain).epoch \in Epochs
  BY <1>3 DEF Flushes
<1> QED
  BY <1>1, <1>2, <1>3, <1>4

\* Who waits is the first one or in the rest, and never both.
LEMMA HeadWaits ==
    ASSUME TimelineTypeOK, InLine, write.pc = "none", chain # <<>>, chain' = Tail(chain)
    PROVE  /\ \A b : Waiting(b) <=> b = Head(chain).by \/ \E i \in DOMAIN chain' : chain'[i].by = b
           /\ \A i \in DOMAIN chain' : Before(Head(chain).by, chain'[i].by)
           /\ \A i, j \in DOMAIN chain' : i < j => Before(chain'[i].by, chain'[j].by)
<1>1. /\ Len(chain) \in Nat \ {0} /\ DOMAIN chain = 1 .. Len(chain) /\ DOMAIN chain' = 1 .. Len(chain) - 1
      /\ \A i \in 1 .. Len(chain) - 1 : chain'[i] = chain[i + 1]
      /\ Head(chain) = chain[1]
  BY TailIs
<1>2. ASSUME NEW i \in DOMAIN chain' PROVE i + 1 \in DOMAIN chain /\ chain'[i] = chain[i + 1] /\ 1 < i + 1
  BY <1>1
<1>3. \A b : Waiting(b) <=> b = Head(chain).by \/ \E i \in DOMAIN chain' : chain'[i].by = b
  <2>1. ASSUME NEW i \in DOMAIN chain, i # 1 PROVE i - 1 \in DOMAIN chain' /\ chain'[i - 1] = chain[i]
    <3>1. i - 1 \in 1 .. Len(chain) - 1 /\ (i - 1) + 1 = i
      BY <1>1, <2>1
    <3> QED
      BY <1>1, <3>1
  <2>2. 1 \in DOMAIN chain
    BY <1>1
  <2>3. \A b : Waiting(b) <=> \E i \in DOMAIN chain : chain[i].by = b
    BY DEF Waiting
  <2> QED
    BY <1>1, <1>2, <2>1, <2>2, <2>3
<1>4. 1 \in DOMAIN chain
  BY <1>1
<1>5. \A i \in DOMAIN chain' : Before(Head(chain).by, chain'[i].by)
  BY <1>1, <1>2, <1>4 DEF InLine
<1>6. ASSUME NEW i \in DOMAIN chain', NEW j \in DOMAIN chain', i < j PROVE Before(chain'[i].by, chain'[j].by)
  <2>1. i + 1 < j + 1
    BY <1>1, <1>6
  <2> QED
    BY <1>2, <2>1 DEF InLine
<1> QED
  BY <1>3, <1>5, <1>6

\* Whoever goes on has waited, and waits no more.
LEMMA ResumedIsLined ==
    ASSUME TimelineTypeOK, Lined, NEW by \in Askers, Resumed(by), InLine', Waiting(by),
           \A b : Waiting(b) <=> b = by \/ Waiting(b)',
           \A b : Waiting(b)' => Before(by, b)
    PROVE  Lined'
<1>1. \A c \in Cards : ~ (Waiting(c)' /\ c = by)
  BY DEF Before
<1>2. by = "turn" => (\A c \in Cards : ~ Waiting(c)') /\ ~ Waiting("turn")'
  BY AskersDiffer DEF Before
<1>3. CASE by = "timer" /\ turn' = turn /\ card' = card
  BY <1>3, AskersDiffer DEF Lined
<1>4. CASE by = "turn" /\ turn' = (IF turn = "ending" THEN "idle" ELSE turn) /\ card' = card
  BY <1>2, <1>4, AskersDiffer DEF Lined
<1>5. ASSUME by \in Cards, turn' = turn, NEW x \in {"posting", "over"}, card' = [card EXCEPT ![by].at = x]
      PROVE  Lined'
  <2>1. \A c \in Cards : card'[c].at = IF c = by THEN x ELSE card[c].at
    BY <1>5, CardTyped
  <2>2. \A c \in Cards : card'[c].at = "flushing" <=> Waiting(c)'
    BY <1>1, <1>5, <2>1 DEF Lined
  <2> QED
    BY <1>5, <2>2, AskersDiffer DEF Lined
<1> QED
  BY <1>3, <1>4, <1>5 DEF Resumed, Sealed

-----------------------------------------------------------------------------
(* The steps of a write.                                                    *)

\* Where a write may stand: at one of its messages and at most one past its
\* anchors, or behind both, with anchors to spare.
Bounded ==
    /\ write.pc \in {"fetch", "edit", "send"} =>
          write.at \in 1 .. Len(write.chunks) /\ write.at <= Len(Anchors) + 1
    /\ write.pc \in {"fetch", "edit"} => write.at <= Len(Anchors)
    /\ write.pc = "trim" => write.at > Len(write.chunks) /\ Len(Anchors) > Len(write.chunks)

WriteStates == {"thread", "fetch", "edit", "send", "late", "trim"}

LEMMA WriteTyped ==
    ASSUME TimelineTypeOK
    PROVE  /\ write.by \in Askers /\ write.epoch \in Epochs /\ write.chunks \in Seq(Seq(Items))
           /\ write.at \in Nat /\ write.pc \in {"none"} \cup WriteStates
           /\ Anchors \in Seq(Nat) /\ Len(Anchors) \in Nat /\ Len(write.chunks) \in Nat
           /\ msgIds = [e \in Epochs |-> msgIds[e]]
<1>1. /\ write.by \in Askers /\ write.epoch \in Epochs /\ write.chunks \in Seq(Seq(Items))
      /\ write.at \in Nat /\ write.pc \in {"none"} \cup WriteStates
  BY DEF TimelineTypeOK, WriteStates
<1>2. msgIds \in [Epochs -> Seq(Nat)]
  BY DEF TimelineTypeOK
<1>3. Anchors \in Seq(Nat) /\ msgIds = [e \in Epochs |-> msgIds[e]]
  BY <1>1, <1>2 DEF Anchors
<1> QED
  BY <1>1, <1>3

\* A write that waits is the same write, ...
LEMMA AwaitsIs ==
    ASSUME TimelineTypeOK, write.pc # "none", NEW state \in WriteStates, NEW k \in Nat, Awaits(state, k)
    PROVE  /\ write'.pc = state /\ write'.at = k /\ write'.by = write.by /\ write'.epoch = write.epoch
           /\ write'.chunks = write.chunks
           /\ write' \in [pc : {"none"} \cup WriteStates, by : Askers, epoch : Epochs, chunks : Seq(Seq(Items)), at : Nat]
           /\ UNCHANGED <<agent, renderer, transport, card, late>>
<1>1. write \in [pc : {"none"} \cup WriteStates, by : Askers, epoch : Epochs, chunks : Seq(Seq(Items)), at : Nat]
  BY DEF TimelineTypeOK, WriteStates
<1>2. write' = [write EXCEPT !.pc = state, !.at = k] /\ UNCHANGED <<agent, renderer, transport, card, late>>
  BY DEF Awaits
<1> HIDE DEF WriteStates
<1> QED
  BY <1>1, <1>2

\* ... and goes on where it may stand, or is over.
LEMMA OnwardIs ==
    ASSUME TimelineTypeOK, write.pc # "none", NEW k \in Nat \ {0}, NEW anchors \in Seq(Nat),
           k <= Len(write.chunks) => k <= Len(anchors) + 1, msgIds'[write.epoch] = anchors, Onward(k, anchors)
    PROVE  \/ Over
           \/ \E state \in WriteStates : Awaits(state, k) /\ Bounded'
<1>1. Len(anchors) \in Nat /\ DOMAIN anchors = 1 .. Len(anchors) /\ Len(write.chunks) \in Nat
  BY WriteTyped
<1>2. CASE k > Len(write.chunks) /\ Len(anchors) > Len(write.chunks)
  <2>1. Awaits("trim", k) /\ "trim" \in WriteStates
    BY <1>1, <1>2 DEF Onward, WriteStates
  <2>2. write'.pc = "trim" /\ write'.at = k /\ write'.chunks = write.chunks /\ write'.epoch = write.epoch
    BY <2>1, AwaitsIs
  <2>3. Bounded'
    BY <1>2, <2>2 DEF Bounded, Anchors
  <2> QED
    BY <2>1, <2>3
<1>3. CASE k > Len(write.chunks) /\ Len(anchors) <= Len(write.chunks)
  BY <1>1, <1>3 DEF Onward
<1>4. CASE k <= Len(write.chunks) /\ ~StillCurrent
  BY <1>1, <1>4 DEF Onward
<1>5. CASE k <= Len(write.chunks) /\ StillCurrent
  <2> DEFINE state == IF k \in DOMAIN anchors THEN "fetch" ELSE "send"
  <2>1. Awaits(state, k)
    BY <1>1, <1>5 DEF Onward
  <2>2. state \in WriteStates
    BY DEF WriteStates
  <2>3. write'.pc = state /\ write'.at = k /\ write'.chunks = write.chunks /\ write'.epoch = write.epoch
    BY <2>1, <2>2, AwaitsIs
  <2>4. Bounded'
    BY <1>1, <1>5, <2>3 DEF Bounded, Anchors
  <2> QED
    BY <2>1, <2>2, <2>4
<1> QED
  BY <1>1, <1>2, <1>3, <1>4, <1>5

Messages == [card : BOOLEAN, epoch : Epochs, content : Seq(Items), live : BOOLEAN, stray : BOOLEAN]

LEMMA PostedIs ==
    ASSUME TimelineTypeOK, Bounded, write.pc = "send", NEW stray \in BOOLEAN
    PROVE  LET new == [card |-> FALSE, epoch |-> write.epoch, content |-> write.chunks[write.at],
                       live |-> TRUE, stray |-> stray]
           IN  new \in Messages /\ Posted(stray) = Append(thread, new) /\ Posted(stray) \in Seq(Messages)
<1> DEFINE new == [card |-> FALSE, epoch |-> write.epoch, content |-> write.chunks[write.at],
                   live |-> TRUE, stray |-> stray]
<1>1. write.chunks \in Seq(Seq(Items)) /\ write.at \in 1 .. Len(write.chunks) /\ write.epoch \in Epochs
  BY WriteTyped DEF Bounded
<1>2. write.chunks[write.at] \in Seq(Items)
  BY <1>1
<1>3. new \in Messages
  BY <1>1, <1>2 DEF Messages
<1>4. Posted(stray) = Append(thread, new) /\ thread \in Seq(Messages)
  BY DEF Posted, TimelineTypeOK, Messages
<1> HIDE DEF new
<1>5. Append(thread, new) \in Seq(Messages)
  BY <1>3, <1>4
<1> QED
  BY <1>3, <1>4, <1>5 DEF new

\* A message that is changed remains one.
LEMMA ChangedIs ==
    ASSUME TimelineTypeOK, NEW i, NEW m, i \in DOMAIN thread => m \in Messages
    PROVE  /\ [thread EXCEPT ![i] = m] \in Seq(Messages) /\ Len([thread EXCEPT ![i] = m]) = Len(thread)
           /\ DOMAIN [thread EXCEPT ![i] = m] = DOMAIN thread
           /\ \A j \in DOMAIN thread : [thread EXCEPT ![i] = m][j] = IF j = i THEN m ELSE thread[j]
<1> DEFINE f == [thread EXCEPT ![i] = m]
<1>1. thread \in Seq(Messages) /\ Len(thread) \in Nat /\ DOMAIN thread = 1 .. Len(thread)
  BY DEF TimelineTypeOK, Messages
<1>2. \A j \in 1 .. Len(thread) : thread[j] \in Messages
  BY <1>1
<1>3. f = [j \in 1 .. Len(thread) |-> f[j]]
  BY <1>1
<1>4. \A j \in 1 .. Len(thread) : f[j] = IF j = i THEN m ELSE thread[j]
  BY <1>1
<1> HIDE DEF f
<1>5. \A j \in 1 .. Len(thread) : f[j] \in Messages
  BY <1>1, <1>2, <1>4
<1>6. f \in Seq(Messages) /\ Len(f) = Len(thread) /\ DOMAIN f = DOMAIN thread
  BY <1>1, <1>3, <1>5
<1> QED
  BY <1>1, <1>4, <1>6 DEF f

LEMMA MessageTyped ==
    ASSUME TimelineTypeOK
    PROVE  /\ Len(thread) \in Nat /\ DOMAIN thread = 1 .. Len(thread)
           /\ \A i \in DOMAIN thread :
                 LET m == thread[i]
                 IN  m \in Messages /\ m.card \in BOOLEAN /\ m.epoch \in Epochs /\ m.content \in Seq(Items)
                     /\ m.live \in BOOLEAN /\ m.stray \in BOOLEAN
                     /\ [m EXCEPT !.live = FALSE] \in Messages /\ [m EXCEPT !.stray = TRUE] \in Messages
                     /\ \A c \in Seq(Items) : [m EXCEPT !.content = c] \in Messages
<1>1. thread \in Seq(Messages)
  BY DEF TimelineTypeOK, Messages
<1>2. \A m \in Messages :
         m.card \in BOOLEAN /\ m.epoch \in Epochs /\ m.content \in Seq(Items)
         /\ m.live \in BOOLEAN /\ m.stray \in BOOLEAN
         /\ [m EXCEPT !.live = FALSE] \in Messages /\ [m EXCEPT !.stray = TRUE] \in Messages
         /\ \A c \in Seq(Items) : [m EXCEPT !.content = c] \in Messages
  BY DEF Messages
<1>3. Len(thread) \in Nat /\ DOMAIN thread = 1 .. Len(thread) /\ \A i \in DOMAIN thread : thread[i] \in Messages
  BY <1>1
<1> QED
  BY <1>2, <1>3

LEMMA FaultsTyped ==
    ASSUME TimelineTypeOK, Works \/ Fails
    PROVE  faults' \in 0 .. MaxFaults /\ blip' \subseteq Epochs
<1>1. MaxFaults \in Nat /\ faults \in 0 .. MaxFaults /\ blip \subseteq Epochs /\ write.epoch \in Epochs
  BY TimelineAssumption, WriteTyped DEF TimelineTypeOK
<1>2. CASE Works
  BY <1>1, <1>2 DEF Works
<1>3. CASE Fails
  BY <1>1, <1>3 DEF Fails
<1> QED
  BY <1>2, <1>3

\* What every step of a write leaves.
WriteGoes ==
    /\ write.pc # "none" /\ Bounded'
    /\ Over \/ \E state \in WriteStates, k \in Nat : Awaits(state, k)
    /\ thread' \in Seq(Messages) /\ msgIds' \in [Epochs -> Seq(Nat)]
    /\ faults' \in 0 .. MaxFaults /\ blip' \subseteq Epochs

LEMMA OverIs ==
    ASSUME Over
    PROVE  /\ Bounded' /\ write' = NoWrite /\ Resumed(write.by) /\ UNCHANGED <<begun, events, chain>>
           /\ write'.pc = "none"
<1> QED
  BY DEF Over, Bounded, NoWrite

LEMMA DiscordTyped ==
    ASSUME TimelineTypeOK
    PROVE  thread \in Seq(Messages) /\ msgIds \in [Epochs -> Seq(Nat)]
<1> QED
  BY DEF TimelineTypeOK, Messages

LEMMA ThreadFetchedGoes ==
    ASSUME TimelineTypeOK, Bounded, ThreadFetched
    PROVE  WriteGoes
<1>1. write.pc = "thread" /\ UNCHANGED <<msgIds, thread>> /\ (Works \/ Fails)
  BY DEF ThreadFetched
<1>2. Anchors \in Seq(Nat) /\ 1 <= Len(Anchors) + 1 /\ msgIds'[write.epoch] = Anchors
  BY <1>1, WriteTyped DEF Anchors
<1>3. Over \/ Onward(1, Anchors)
  BY DEF ThreadFetched
<1>4. Over \/ \E state \in WriteStates : Awaits(state, 1) /\ Bounded'
  BY <1>1, <1>2, <1>3, OnwardIs
<1> QED
  BY <1>1, <1>4, OverIs, FaultsTyped, DiscordTyped DEF WriteGoes

LEMMA AtOneOf ==
    ASSUME TimelineTypeOK, Bounded, write.pc \in {"fetch", "edit", "send"}, UNCHANGED msgIds
    PROVE  /\ write.at \in Nat \ {0} /\ write.at + 1 \in Nat \ {0} /\ Anchors \in Seq(Nat)
           /\ msgIds'[write.epoch] = Anchors /\ write.at \in 1 .. Len(write.chunks)
           /\ write.pc # "send" => write.at + 1 <= Len(Anchors) + 1 /\ write.at \in DOMAIN Anchors
<1>1. Anchors \in Seq(Nat) /\ Len(Anchors) \in Nat /\ Len(write.chunks) \in Nat /\ write.at \in 1 .. Len(write.chunks)
  BY WriteTyped DEF Bounded
<1>2. write.pc # "send" => write.at <= Len(Anchors)
  BY DEF Bounded
<1> QED
  BY <1>1, <1>2 DEF Anchors

LEMMA AgainIs ==
    ASSUME TimelineTypeOK, Bounded, UNCHANGED msgIds, write.pc \in {"fetch", "edit"},
           \/ Awaits("edit", write.at) /\ write.pc = "fetch"
           \/ Awaits("send", write.at)
           \/ Onward(write.at + 1, Anchors)
           \/ Over
    PROVE  Bounded' /\ (Over \/ \E state \in WriteStates, k \in Nat : Awaits(state, k))
<1>1. /\ write.at \in Nat \ {0} /\ write.at + 1 \in Nat \ {0} /\ Anchors \in Seq(Nat)
      /\ msgIds'[write.epoch] = Anchors /\ write.at \in 1 .. Len(write.chunks)
      /\ write.at + 1 <= Len(Anchors) + 1 /\ write.at \in DOMAIN Anchors
  BY AtOneOf
<1>2. ASSUME NEW state \in {"edit", "send"}, Awaits(state, write.at)
      PROVE  Bounded' /\ state \in WriteStates /\ write.at \in Nat
  <2>1. state \in WriteStates /\ write.at \in Nat
    BY <1>1 DEF WriteStates
  <2>2. write'.pc = state /\ write'.at = write.at /\ write'.chunks = write.chunks /\ write'.epoch = write.epoch
    BY <1>2, <2>1, AwaitsIs
  <2>3. write.at <= Len(Anchors) /\ Len(Anchors) \in Nat /\ Anchors' = Anchors
    BY <1>1, <2>2 DEF Anchors
  <2> QED
    BY <1>1, <2>1, <2>2, <2>3 DEF Bounded
<1>3. CASE Onward(write.at + 1, Anchors)
  <2>1. Over \/ \E state \in WriteStates : Awaits(state, write.at + 1) /\ Bounded'
    BY <1>1, <1>3, OnwardIs
  <2> QED
    BY <1>1, <2>1, OverIs
<1> QED
  BY <1>2, <1>3, OverIs

LEMMA AnchorFetchedGoes ==
    ASSUME TimelineTypeOK, Bounded, AnchorFetched
    PROVE  WriteGoes
<1>1. write.pc = "fetch" /\ UNCHANGED <<msgIds, thread>> /\ (Works \/ Fails)
  BY DEF AnchorFetched
<1>2. \/ Awaits("edit", write.at) \/ Awaits("send", write.at)
      \/ Onward(write.at + 1, Anchors) \/ Over
  BY DEF AnchorFetched
<1>3. Bounded' /\ (Over \/ \E state \in WriteStates, k \in Nat : Awaits(state, k))
  BY <1>1, <1>2, AgainIs
<1> QED
  BY <1>1, <1>3, FaultsTyped, DiscordTyped DEF WriteGoes

LEMMA EditedTyped ==
    ASSUME TimelineTypeOK, Bounded, write.pc = "edit"
    PROVE  LET edited == [thread EXCEPT ![Anchor].content = write.chunks[write.at]]
           IN  /\ edited \in Seq(Messages) /\ DOMAIN edited = DOMAIN thread /\ Len(edited) = Len(thread)
               /\ \A j \in DOMAIN thread : edited[j] =
                      IF j = Anchor THEN [thread[j] EXCEPT !.content = write.chunks[write.at]] ELSE thread[j]
<1> DEFINE m == [thread[Anchor] EXCEPT !.content = write.chunks[write.at]]
<1>1. write.chunks[write.at] \in Seq(Items)
  <2>1. write.at \in 1 .. Len(write.chunks) /\ write.chunks \in Seq(Seq(Items))
    BY WriteTyped DEF Bounded
  <2> QED
    BY <2>1
<1>2. Anchor \in DOMAIN thread => m \in Messages
  BY <1>1, MessageTyped
<1>3. [thread EXCEPT ![Anchor].content = write.chunks[write.at]] = [thread EXCEPT ![Anchor] = m]
  OBVIOUS
<1> HIDE DEF m
<1>4. /\ [thread EXCEPT ![Anchor] = m] \in Seq(Messages)
      /\ DOMAIN [thread EXCEPT ![Anchor] = m] = DOMAIN thread
      /\ Len([thread EXCEPT ![Anchor] = m]) = Len(thread)
      /\ \A j \in DOMAIN thread : [thread EXCEPT ![Anchor] = m][j] = IF j = Anchor THEN m ELSE thread[j]
  BY <1>2, ChangedIs
<1> QED
  BY <1>3, <1>4 DEF m

LEMMA EditedGoes ==
    ASSUME TimelineTypeOK, Bounded, Edited
    PROVE  WriteGoes
<1> DEFINE edited == [thread EXCEPT ![Anchor].content = write.chunks[write.at]]
<1>1. write.pc = "edit" /\ UNCHANGED msgIds /\ (Works \/ Fails) /\ thread' \in {thread, edited}
  BY DEF Edited
<1>2. \/ Awaits("send", write.at)
      \/ Onward(write.at + 1, Anchors)
  BY DEF Edited
<1>3. Bounded' /\ (Over \/ \E state \in WriteStates, k \in Nat : Awaits(state, k))
  BY <1>1, <1>2, AgainIs
<1>4. edited \in Seq(Messages)
  BY <1>1, EditedTyped
<1> HIDE DEF edited
<1> QED
  BY <1>1, <1>3, <1>4, FaultsTyped, DiscordTyped DEF WriteGoes

\* A new anchor joins the others, or takes the place of a dead one.
LEMMA AnchorSet ==
    ASSUME TimelineTypeOK, Bounded, write.pc = "send"
    PROVE  LET anchors == [k \in DOMAIN Anchors \cup {write.at} |->
                              IF k = write.at THEN Len(thread) + 1 ELSE Anchors[k]]
           IN  /\ anchors \in Seq(Nat) /\ write.at <= Len(anchors)
               /\ DOMAIN anchors = DOMAIN Anchors \cup {write.at}
               /\ \A k \in DOMAIN anchors : anchors[k] = IF k = write.at THEN Len(thread) + 1 ELSE Anchors[k]
               /\ Len(Anchors) <= Len(anchors)
               /\ [msgIds EXCEPT ![write.epoch] = anchors] \in [Epochs -> Seq(Nat)]
               /\ [msgIds EXCEPT ![write.epoch] = anchors][write.epoch] = anchors
<1> DEFINE anchors == [k \in DOMAIN Anchors \cup {write.at} |->
                          IF k = write.at THEN Len(thread) + 1 ELSE Anchors[k]]
           n == IF write.at = Len(Anchors) + 1 THEN write.at ELSE Len(Anchors)
<1>1. /\ Anchors \in Seq(Nat) /\ Len(Anchors) \in Nat /\ write.at \in Nat \ {0} /\ write.at <= Len(Anchors) + 1
      /\ DOMAIN Anchors = 1 .. Len(Anchors)
  <2>1. Anchors \in Seq(Nat) /\ Len(Anchors) \in Nat /\ Len(write.chunks) \in Nat
    BY WriteTyped
  <2> QED
    BY <2>1 DEF Bounded
<1>2. n \in Nat /\ DOMAIN Anchors \cup {write.at} = 1 .. n /\ write.at <= n /\ Len(Anchors) <= n
  <2>1. CASE write.at = Len(Anchors) + 1
    BY <1>1, <2>1
  <2>2. CASE write.at # Len(Anchors) + 1
    BY <1>1, <2>2
  <2> QED
    BY <2>1, <2>2
<1> HIDE DEF n
<1>3. \A k \in 1 .. n : k # write.at => k \in DOMAIN Anchors
  BY <1>2
<1>4. Len(thread) + 1 \in Nat
  BY MessageTyped
<1>5. \A k \in 1 .. n : (IF k = write.at THEN Len(thread) + 1 ELSE Anchors[k]) \in Nat
  BY <1>1, <1>3, <1>4
<1>6. /\ DOMAIN anchors = 1 .. n /\ anchors = [k \in 1 .. n |-> anchors[k]]
      /\ \A k \in 1 .. n : anchors[k] = IF k = write.at THEN Len(thread) + 1 ELSE Anchors[k]
  BY <1>2
<1> HIDE DEF anchors
<1>7. anchors \in Seq(Nat) /\ Len(anchors) = n
  BY <1>2, <1>5, <1>6
<1>8. msgIds \in [Epochs -> Seq(Nat)] /\ write.epoch \in Epochs
  BY DiscordTyped, WriteTyped
<1>9. /\ [msgIds EXCEPT ![write.epoch] = anchors] \in [Epochs -> Seq(Nat)]
      /\ [msgIds EXCEPT ![write.epoch] = anchors][write.epoch] = anchors
  BY <1>7, <1>8
<1> QED
  BY <1>2, <1>6, <1>7, <1>9 DEF anchors

LEMMA MessageSentGoes ==
    ASSUME TimelineTypeOK, Bounded, MessageSent
    PROVE  WriteGoes
<1> DEFINE anchors == [k \in DOMAIN Anchors \cup {write.at} |->
                          IF k = write.at THEN Len(thread) + 1 ELSE Anchors[k]]
<1>1. write.pc = "send" /\ (Works \/ Fails) /\ thread' \in {thread, Posted(FALSE), Posted(TRUE)}
  BY DEF MessageSent
<1>2. thread' \in Seq(Messages) /\ write.at \in Nat /\ write.at + 1 \in Nat \ {0}
  <2>1. Posted(FALSE) \in Seq(Messages) /\ Posted(TRUE) \in Seq(Messages)
    BY <1>1, PostedIs
  <2>2. write.at \in Nat
    BY WriteTyped
  <2>3. thread' \in Seq(Messages)
    BY <1>1, <2>1, DiscordTyped
  <2> QED
    BY <2>2, <2>3
<1>3. CASE msgIds' = [msgIds EXCEPT ![write.epoch] = anchors] /\ Onward(write.at + 1, anchors)
  <2>1. /\ anchors \in Seq(Nat) /\ write.at <= Len(anchors) /\ msgIds' \in [Epochs -> Seq(Nat)]
        /\ msgIds'[write.epoch] = anchors
    BY <1>1, <1>3, AnchorSet
  <2> HIDE DEF anchors
  <2>2. write.at + 1 <= Len(anchors) + 1
    BY <1>2, <2>1
  <2>3. Over \/ \E state \in WriteStates : Awaits(state, write.at + 1) /\ Bounded'
    BY <1>1, <1>2, <1>3, <2>1, <2>2, OnwardIs
  <2> QED
    BY <1>1, <1>2, <2>1, <2>3, OverIs, FaultsTyped DEF WriteGoes
<1>4. CASE UNCHANGED msgIds /\ Awaits("late", write.at)
  <2>1. "late" \in WriteStates
    BY DEF WriteStates
  <2>2. write'.pc = "late"
    BY <1>1, <1>2, <1>4, <2>1, AwaitsIs
  <2>3. Bounded'
    BY <2>2 DEF Bounded
  <2> QED
    BY <1>1, <1>2, <1>4, <2>1, <2>3, FaultsTyped, DiscordTyped DEF WriteGoes
<1>5. CASE UNCHANGED msgIds /\ Over
  BY <1>1, <1>2, <1>5, OverIs, FaultsTyped, DiscordTyped DEF WriteGoes
<1> QED
  BY <1>3, <1>4, <1>5 DEF MessageSent

LEMMA LateDeletedGoes ==
    ASSUME TimelineTypeOK, Bounded, LateDeleted
    PROVE  WriteGoes
<1>1. write.pc = "late" /\ Over /\ (Works \/ Fails) /\ UNCHANGED msgIds
  BY DEF LateDeleted
<1> DEFINE i == LateMessage
           a == [thread[i] EXCEPT !.live = FALSE]
           b == [thread[i] EXCEPT !.stray = TRUE]
<1>2. thread' \in {[thread EXCEPT ![i] = a], [thread EXCEPT ![i] = b]}
  BY DEF LateDeleted
<1>3. i \in DOMAIN thread => a \in Messages /\ b \in Messages
  BY MessageTyped
<1> HIDE DEF a, b, i
<1>4. [thread EXCEPT ![i] = a] \in Seq(Messages)
  BY <1>3, ChangedIs
<1>5. [thread EXCEPT ![i] = b] \in Seq(Messages)
  BY <1>3, ChangedIs
<1> QED
  BY <1>1, <1>2, <1>4, <1>5, OverIs, FaultsTyped, DiscordTyped DEF WriteGoes

\* The last anchor goes.
LEMMA FrontIs ==
    ASSUME TimelineTypeOK, write.pc = "trim", Bounded
    PROVE  /\ Front(Anchors) \in Seq(Nat) /\ Len(Front(Anchors)) = Len(Anchors) - 1
           /\ DOMAIN Front(Anchors) = 1 .. Len(Anchors) - 1 /\ DOMAIN Anchors = 1 .. Len(Anchors)
           /\ \A k \in DOMAIN Front(Anchors) : Front(Anchors)[k] = Anchors[k]
           /\ Last(Anchors) = Anchors[Len(Anchors)] /\ Len(Anchors) \in Nat \ {0}
           /\ [msgIds EXCEPT ![write.epoch] = Front(Anchors)] \in [Epochs -> Seq(Nat)]
           /\ [msgIds EXCEPT ![write.epoch] = Front(Anchors)][write.epoch] = Front(Anchors)
<1> DEFINE a == Anchors
           f == SubSeq(a, 1, Len(a) - 1)
<1>1. a \in Seq(Nat) /\ Len(a) \in Nat /\ Len(write.chunks) \in Nat /\ Len(a) > Len(write.chunks)
  BY WriteTyped DEF Bounded
<1> HIDE DEF a
<1>2. Len(a) \in Nat \ {0} /\ Len(a) - 1 \in Nat /\ DOMAIN a = 1 .. Len(a)
  BY <1>1
<1>3. f \in Seq(Nat) /\ Len(f) = Len(a) - 1 /\ \A k \in 1 .. Len(a) - 1 : f[k] = a[k]
  <2>1. \A k \in 1 .. Len(a) - 1 : a[k] \in Nat
    BY <1>1, <1>2
  <2>2. f = [k \in 1 .. Len(a) - 1 |-> a[k]]
    BY <1>1, <1>2
  <2> QED
    BY <1>2, <2>1, <2>2
<1>4. Front(a) = f /\ Last(a) = a[Len(a)]
  BY DEF Front, Last
<1> HIDE DEF f
<1>5. msgIds \in [Epochs -> Seq(Nat)] /\ write.epoch \in Epochs
  BY DiscordTyped, WriteTyped
<1>6. /\ [msgIds EXCEPT ![write.epoch] = f] \in [Epochs -> Seq(Nat)]
      /\ [msgIds EXCEPT ![write.epoch] = f][write.epoch] = f
  BY <1>3, <1>5
<1>7. DOMAIN f = 1 .. Len(a) - 1
  BY <1>3
<1> QED
  BY <1>2, <1>3, <1>4, <1>6, <1>7 DEF a

LEMMA TrimmedGoes ==
    ASSUME TimelineTypeOK, Bounded, Trimmed
    PROVE  WriteGoes
<1>1. write.pc = "trim" /\ (Works \/ Fails) /\ write.at \in Nat /\ Len(write.chunks) \in Nat
      /\ write.at > Len(write.chunks)
  BY WriteTyped DEF Trimmed, Bounded
<1>2. CASE /\ thread' = [thread EXCEPT ![Last(Anchors)].live = FALSE]
           /\ msgIds' = [msgIds EXCEPT ![write.epoch] = Front(@)]
           /\ Onward(write.at, Front(Anchors))
  <2> DEFINE i == Last(Anchors)
             m == [thread[i] EXCEPT !.live = FALSE]
             f == Front(Anchors)
  <2>1. i \in DOMAIN thread => m \in Messages
    BY MessageTyped
  <2>2. thread' = [thread EXCEPT ![i] = m]
    BY <1>2
  <2> HIDE DEF m, i
  <2>3. thread' \in Seq(Messages)
    BY <2>1, <2>2, ChangedIs
  <2>4. msgIds' = [msgIds EXCEPT ![write.epoch] = f]
    BY <1>2 DEF Anchors
  <2>5. /\ f \in Seq(Nat) /\ Len(f) = Len(Anchors) - 1 /\ Len(Anchors) \in Nat /\ msgIds' \in [Epochs -> Seq(Nat)]
        /\ msgIds'[write.epoch] = f /\ Len(Anchors) > Len(write.chunks)
    BY <1>1, <2>4, FrontIs DEF Bounded
  <2>6. Onward(write.at, f)
    BY <1>2
  <2> HIDE DEF f
  <2>7. write.at \in Nat \ {0} /\ ~(write.at <= Len(write.chunks))
    BY <1>1
  <2>8. Over \/ \E state \in WriteStates : Awaits(state, write.at) /\ Bounded'
    BY <1>1, <2>5, <2>6, <2>7, OnwardIs
  <2> QED
    BY <1>1, <2>3, <2>5, <2>8, OverIs, FaultsTyped DEF WriteGoes
<1>3. CASE Over /\ UNCHANGED <<msgIds, thread>>
  BY <1>1, <1>3, OverIs, FaultsTyped, DiscordTyped DEF WriteGoes
<1> QED
  BY <1>2, <1>3 DEF Trimmed

LEMMA WriteStepGoes ==
    ASSUME TimelineTypeOK, Bounded, Write
    PROVE  WriteGoes
<1> QED
  BY ThreadFetchedGoes, AnchorFetchedGoes, EditedGoes, MessageSentGoes, LateDeletedGoes, TrimmedGoes DEF Write

-----------------------------------------------------------------------------
(* Types.                                                                   *)

\* The cards that have sealed a block, or will never do so.
Past == {c \in Cards : card[c].at \in {"posting", "over"}}

\* An epoch for each turn and for each card.
Counted == epoch <= begun + Cardinality(Past)

AgentTyped ==
    /\ turn \in {"idle", "preparing", "running", "ending", "ended"} /\ begun \in 0 .. MaxTurns
    /\ tool \in [Tools -> ToolStates] /\ events \in 0 .. MaxEvents
RendererTyped == items \in Seq(Items) /\ born \in Epochs /\ carried \subseteq Tools /\ lastTodos \in Todos
TransportTyped ==
    /\ exists \in BOOLEAN /\ epoch \in Epochs /\ latest \in Seq(Items) \cup {Nil} /\ armed \in BOOLEAN
    /\ chain \in Seq(Flushes)
Writes == [pc : {"none"} \cup WriteStates, by : Askers, epoch : Epochs, chunks : Seq(Seq(Items)), at : Nat]
WriterTyped ==
    /\ msgIds \in [Epochs -> Seq(Nat)] /\ write \in Writes /\ thread \in Seq(Messages)
    /\ faults \in 0 .. MaxFaults /\ blip \subseteq Epochs
CardRecords == [at : {"none", "flushing", "posting", "over"}, kind : Kinds, tools : SUBSET Tools, turn : 0 .. MaxTurns]
CardsTyped == card \in [Cards -> CardRecords] /\ late \in BOOLEAN

LEMMA TypeParts ==
    ASSUME TimelineTypeOK
    PROVE  AgentTyped /\ RendererTyped /\ TransportTyped /\ WriterTyped /\ CardsTyped
<1> QED
  BY DEF TimelineTypeOK, AgentTyped, RendererTyped, TransportTyped, WriterTyped, CardsTyped, CardRecords, Writes,
         Flushes, Messages, WriteStates

LEMMA TypeWhole ==
    ASSUME AgentTyped', RendererTyped', TransportTyped', WriterTyped', CardsTyped'
    PROVE  TimelineTypeOK'
<1> QED
  BY DEF TimelineTypeOK, AgentTyped, RendererTyped, TransportTyped, WriterTyped, CardsTyped, CardRecords, Writes,
         Flushes, Messages, WriteStates

LEMMA AgentSame == ASSUME AgentTyped, UNCHANGED agent PROVE AgentTyped'
<1> QED
  BY DEF AgentTyped, agent

LEMMA RendererSame == ASSUME RendererTyped, UNCHANGED renderer PROVE RendererTyped'
<1> QED
  BY DEF RendererTyped, renderer

LEMMA TransportSame == ASSUME TransportTyped, UNCHANGED transport PROVE TransportTyped'
<1> QED
  BY DEF TransportTyped, transport

LEMMA WriterSame == ASSUME WriterTyped, UNCHANGED <<discord, blip>> PROVE WriterTyped'
<1> QED
  BY DEF WriterTyped, discord

LEMMA CardsSame == ASSUME CardsTyped, UNCHANGED <<card, late>> PROVE CardsTyped'
<1> QED
  BY DEF CardsTyped

LEMMA PastIs ==
    /\ IsFiniteSet(Past) /\ Cardinality(Past) \in Nat /\ Cardinality(Past) <= Cardinality(Cards)
<1>1. IsFiniteSet(Cards) /\ Past \subseteq Cards
  BY TimelineAssumption DEF Past
<1> QED
  BY <1>1, FS_Subset, FS_CardinalityType

LEMMA CountedStays ==
    ASSUME TimelineTypeOK, Counted, epoch' = epoch, begun' = begun, Past \subseteq Past'
    PROVE  Counted'
<1>1. IsFiniteSet(Past) /\ IsFiniteSet(Past')
  <2>1. IsFiniteSet(Cards) /\ Past' \subseteq Cards
    BY TimelineAssumption DEF Past
  <2> QED
    BY <2>1, PastIs, FS_Subset
<1>2. Cardinality(Past) <= Cardinality(Past') /\ Cardinality(Past) \in Nat /\ Cardinality(Past') \in Nat
  BY <1>1, FS_Subset, FS_CardinalityType
<1>3. epoch \in Nat /\ begun \in Nat
  BY EpochsAre, TimelineAssumption DEF TimelineTypeOK
<1> QED
  BY <1>2, <1>3 DEF Counted

\* A card that has waited seals the block, or is over.
LEMMA PastGrows ==
    ASSUME TimelineTypeOK, Counted, NEW c \in Cards, card[c].at = "flushing",
           NEW x \in {"posting", "over"}, card' = [card EXCEPT ![c].at = x], begun' = begun,
           epoch' = epoch \/ epoch' = epoch + 1
    PROVE  Counted' /\ epoch' \in Epochs
<1>1. \A d \in Cards : card'[d].at = IF d = c THEN x ELSE card[d].at
  BY CardTyped
<1>2. Past' = Past \cup {c} /\ c \notin Past
  <2>1. \A d \in Cards : d \in Past' <=> d \in Past \/ d = c
    BY <1>1 DEF Past
  <2>2. Past \subseteq Cards /\ Past' \subseteq Cards
    BY DEF Past
  <2> QED
    BY <2>1, <2>2 DEF Past
<1>3. Cardinality(Past') = Cardinality(Past) + 1 /\ Cardinality(Past) \in Nat
  BY <1>2, PastIs, FS_AddElement
<1>4. Cardinality(Past') <= Cardinality(Cards)
  <2>1. IsFiniteSet(Cards) /\ Past' \subseteq Cards
    BY TimelineAssumption DEF Past
  <2> QED
    BY <2>1, FS_Subset
<1>5. epoch \in Nat /\ begun \in 0 .. MaxTurns /\ MaxTurns \in Nat /\ Cardinality(Cards) \in Nat
  BY EpochsAre, TimelineAssumption DEF TimelineTypeOK
<1>6. epoch' <= begun + Cardinality(Past')
  BY <1>3, <1>5 DEF Counted
<1>7. epoch' \in Nat /\ epoch' <= MaxTurns + Cardinality(Cards)
  BY <1>3, <1>4, <1>5, <1>6
<1> QED
  BY <1>5, <1>6, <1>7 DEF Counted, Epochs

LEMMA ResumedTyped ==
    ASSUME TimelineTypeOK, Counted, NEW by \in Askers, by \in Cards => card[by].at = "flushing", Resumed(by),
           UNCHANGED <<begun, events>>, chain' \in Seq(Flushes)
    PROVE  AgentTyped' /\ RendererTyped' /\ TransportTyped' /\ CardsTyped' /\ Counted'
<1>1. AgentTyped /\ RendererTyped /\ TransportTyped /\ CardsTyped
  BY TypeParts
<1>2. ASSUME UNCHANGED <<tool, card, renderer, exists, epoch, latest, armed, late>>,
             turn' \in {"idle", turn}
      PROVE  AgentTyped' /\ RendererTyped' /\ TransportTyped' /\ CardsTyped' /\ Counted'
  <2>1. AgentTyped'
    BY <1>1, <1>2 DEF AgentTyped
  <2>2. RendererTyped' /\ CardsTyped'
    BY <1>1, <1>2, RendererSame, CardsSame
  <2>3. TransportTyped'
    BY <1>1, <1>2 DEF TransportTyped
  <2>4. Past' = Past
    BY <1>2 DEF Past
  <2> QED
    BY <1>2, <2>1, <2>2, <2>3, <2>4, CountedStays
<1>3. CASE by \in Cards /\ Sealed(by)
  <2> DEFINE carry == IF card[by].kind = "upload" THEN InFlightTools(items) ELSE card[by].tools
  <2>1. /\ exists' = TRUE /\ epoch' = epoch + 1 /\ latest' = Nil /\ armed' = FALSE /\ late' = FALSE
        /\ items' = <<>> /\ born' = epoch + 1 /\ carried' = carry
        /\ card' = [card EXCEPT ![by].at = "posting"]
        /\ tool' = [t \in Tools |-> CASE tool[t] = "running" -> "sealed"
                                      [] tool[t] = "sealed" -> "beyond"
                                      [] OTHER -> tool[t]]
        /\ UNCHANGED <<turn, lastTodos>>
    BY <1>3 DEF Sealed, Reset
  <2>2. carry \subseteq Tools
    BY <1>3, CardTyped DEF InFlightTools
  <2> HIDE DEF carry
  <2>3. Counted' /\ epoch' \in Epochs
    BY <1>3, <2>1, PastGrows
  <2>4. CardsTyped'
    <3>1. card \in [Cards -> CardRecords]
      BY <1>1 DEF CardsTyped
    <3>2. \A r \in CardRecords : [r EXCEPT !.at = "posting"] \in CardRecords
      BY DEF CardRecords
    <3> HIDE DEF CardRecords
    <3> QED
      BY <2>1, <3>1, <3>2 DEF CardsTyped
  <2>5. AgentTyped'
    <3>1. \A t \in Tools : tool[t] \in ToolStates
      BY <1>1 DEF AgentTyped
    <3>2. tool' \in [Tools -> ToolStates]
      BY <2>1, <3>1 DEF ToolStates
    <3> QED
      BY <1>1, <2>1, <3>2 DEF AgentTyped
  <2>6. RendererTyped' /\ TransportTyped'
    <3>1. <<>> \in Seq(Items)
      OBVIOUS
    <3> QED
      BY <1>1, <2>1, <2>2, <2>3, <3>1 DEF RendererTyped, TransportTyped
  <2> QED
    BY <2>3, <2>4, <2>5, <2>6
<1>4. CASE /\ by \in Cards /\ card' = [card EXCEPT ![by].at = "over"]
           /\ UNCHANGED <<turn, tool, renderer, exists, epoch, latest, armed, late>>
  <2>1. AgentTyped' /\ RendererTyped'
    BY <1>1, <1>4, RendererSame DEF AgentTyped
  <2>2. TransportTyped'
    BY <1>1, <1>4 DEF TransportTyped
  <2>3. CardsTyped'
    <3>1. card \in [Cards -> CardRecords] /\ late \in BOOLEAN
      BY <1>1 DEF CardsTyped
    <3>2. \A r \in CardRecords : [r EXCEPT !.at = "over"] \in CardRecords
      BY DEF CardRecords
    <3> HIDE DEF CardRecords
    <3> QED
      BY <1>4, <3>1, <3>2 DEF CardsTyped
  <2>4. Counted'
    BY <1>4, PastGrows
  <2> QED
    BY <2>1, <2>2, <2>3, <2>4
<1> QED
  <2>1. CASE by = "timer"
    BY <1>2, <2>1, AskersDiffer DEF Resumed
  <2>2. CASE by = "turn"
    BY <1>2, <2>2, AskersDiffer DEF Resumed
  <2>3. CASE by \in Cards
    BY <1>3, <1>4, <2>3, AskersDiffer DEF Resumed
  <2> QED
    BY <2>1, <2>2, <2>3 DEF Askers

-----------------------------------------------------------------------------
(* Every step keeps the types.                                              *)

TimelineSound == TimelineTypeOK /\ OpenIsText /\ Counted /\ Lined /\ Bounded

\* An event is rendered at once.
Happens ==
    /\ events < MaxEvents /\ events' = events + 1
    /\ exists' = TRUE /\ latest' = items' /\ armed' = TRUE /\ late' = TRUE
    /\ UNCHANGED <<epoch, chain, turn, begun, born, discord, card, blip>>

LEMMA AppliedIs == ASSUME NEW s, Applied(s) PROVE Happens
<1> QED
  BY DEF Applied, Render, Happens

\* Events that are not about a call.
Said ==
    \/ Delta \/ Reasoning \/ Noticed \/ Audited
    \/ \E rendered \in Todos : TodosRefreshed(rendered)
    \/ \E v \in {0, 1, MaxText} : Answer(v)

\* When an event may come.
InTime == turn = "running" \/ (begun > 0 /\ turn # "ended" /\ (EarlyTodos \/ ~Leftover))

LEMMA SaidIs ==
    ASSUME TimelineSound, Said
    PROVE  /\ Happens /\ InTime /\ Grows(items, items', {}, Fresh)
           /\ UNCHANGED <<tool, carried>> /\ lastTodos' \in Todos
<1>1. TimelineTypeOK /\ OpenIsText /\ lastTodos \in Todos
  BY DEF TimelineSound, TimelineTypeOK
<1>2. CASE Delta
  <2>1. Happens /\ turn = "running" /\ UNCHANGED <<tool, carried, lastTodos>>
    BY <1>2, AppliedIs DEF Delta
  <2> QED
    BY <1>1, <1>2, <2>1, DeltaGrows DEF InTime
<1>3. CASE Reasoning
  <2>1. Happens /\ turn = "running" /\ UNCHANGED <<tool, carried, lastTodos>>
    BY <1>3, AppliedIs DEF Reasoning
  <2> QED
    BY <1>1, <1>3, <2>1, ReasoningGrows DEF InTime
<1>4. CASE Noticed
  <2>1. Happens /\ turn = "running" /\ UNCHANGED <<tool, carried, lastTodos>>
    BY <1>4, AppliedIs DEF Noticed
  <2> QED
    BY <1>1, <1>4, <2>1, NoticedGrows DEF InTime
<1>5. CASE Audited
  <2>1. Happens /\ turn = "running" /\ UNCHANGED <<tool, carried, lastTodos>>
    BY <1>5, AppliedIs DEF Audited
  <2> QED
    BY <1>1, <1>5, <2>1, AuditedGrows DEF InTime
<1>6. ASSUME NEW rendered \in Todos, TodosRefreshed(rendered)
      PROVE  /\ Happens /\ InTime /\ Grows(items, items', {}, Fresh)
             /\ UNCHANGED <<tool, carried>> /\ lastTodos' \in Todos
  <2>1. Happens
    BY <1>6, AppliedIs DEF TodosRefreshed
  <2>2. InTime /\ UNCHANGED <<tool, carried>> /\ lastTodos' = rendered
    BY <1>6 DEF TodosRefreshed, InTime
  <2> QED
    BY <1>1, <1>6, <2>1, <2>2, TodosGrow
<1>7. ASSUME NEW v \in {0, 1, MaxText}, Answer(v)
      PROVE  /\ Happens /\ InTime /\ Grows(items, items', {}, Fresh)
             /\ UNCHANGED <<tool, carried>> /\ lastTodos' \in Todos
  <2>1. Happens /\ turn = "running" /\ UNCHANGED <<tool, carried, lastTodos>>
    BY <1>7, AppliedIs DEF Answer
  <2> QED
    BY <1>1, <1>7, <2>1, AnswerGrows DEF InTime
<1> QED
  BY <1>2, <1>3, <1>4, <1>5, <1>6, <1>7 DEF Said

LEMMA OpenStays ==
    ASSUME OpenIsText, NEW these, NEW news, Grows(items, items', these, news),
           \A x \in news : x.open => x.kind = "text"
    PROVE  OpenIsText'
<1> QED
  BY DEF OpenIsText, Grows, Like

LEMMA LinedStays ==
    ASSUME Lined, UNCHANGED <<chain, write>>,
           \A c \in Cards : card'[c].at = "flushing" <=> card[c].at = "flushing",
           \/ turn' = turn \/ turn' = "ended"
           \/ turn = "idle" /\ turn' = "preparing"
           \/ turn = "preparing" /\ turn' = "running"
    PROVE  Lined'
<1>1. \A b : Waiting(b)' <=> Waiting(b)
  BY DEF Waiting
<1>2. InLine'
  BY DEF Lined, InLine, Before
<1> QED
  BY <1>1, <1>2 DEF Lined

LEMMA BoundedStays == ASSUME Bounded, UNCHANGED <<write, msgIds>> PROVE Bounded'
<1> QED
  BY DEF Bounded, Anchors

\* An event, ...
LEMMA HappensIsSound ==
    ASSUME TimelineSound, Happens, items' \in Seq(Items), OpenIsText', tool' \in [Tools -> ToolStates],
           carried' \subseteq Tools, lastTodos' \in Todos
    PROVE  TimelineSound'
<1>1. AgentTyped /\ RendererTyped /\ TransportTyped /\ WriterTyped /\ CardsTyped
  BY TypeParts DEF TimelineSound
<1>2. AgentTyped'
  BY <1>1, TimelineAssumption DEF AgentTyped, Happens
<1>3. RendererTyped'
  BY <1>1 DEF RendererTyped, Happens
<1>4. TransportTyped'
  BY <1>1 DEF TransportTyped, Happens
<1>5. WriterTyped'
  BY <1>1, WriterSame DEF Happens
<1>6. CardsTyped'
  BY <1>1 DEF CardsTyped, Happens
<1>7. TimelineTypeOK'
  BY <1>2, <1>3, <1>4, <1>5, <1>6, TypeWhole
<1>8. Past' = Past
  BY DEF Past, Happens
<1>9. Counted'
  BY <1>8, CountedStays DEF Happens, TimelineSound
<1>10. Lined'
  BY LinedStays DEF Happens, TimelineSound, discord
<1>11. Bounded'
  BY BoundedStays DEF Happens, TimelineSound, discord
<1> QED
  BY <1>7, <1>9, <1>10, <1>11 DEF TimelineSound

LEMMA SaidIsSound == ASSUME TimelineSound, Said PROVE TimelineSound'
<1>1. /\ Happens /\ Grows(items, items', {}, Fresh)
      /\ UNCHANGED <<tool, carried>> /\ lastTodos' \in Todos
  BY SaidIs
<1>2. items' \in Seq(Items)
  BY <1>1 DEF Grows
<1>3. OpenIsText'
  <2>1. \A x \in Fresh : x.open => x.kind = "text"
    BY DEF Fresh
  <2> QED
    BY <1>1, <2>1, OpenStays DEF TimelineSound
<1>4. tool \in [Tools -> ToolStates] /\ carried \subseteq Tools
  BY DEF TimelineSound, TimelineTypeOK
<1> QED
  BY <1>1, <1>2, <1>3, <1>4, HappensIsSound

LEMMA ToolStartIsSound == ASSUME TimelineSound, NEW t \in Tools, ToolStart(t) PROVE TimelineSound'
<1>1. TimelineTypeOK /\ OpenIsText
  BY DEF TimelineSound
<1>2. Grows(items, items', {}, {Item("tool", t, 1)})
  BY <1>1, ToolStartGrows
<1>3. Happens /\ carried' = carried \cup {t} /\ UNCHANGED lastTodos
      /\ tool' = [tool EXCEPT ![t] = IF Unseen THEN "beyond" ELSE "running"]
  BY AppliedIs DEF ToolStart
<1>4. items' \in Seq(Items)
  BY <1>2 DEF Grows
<1>5. OpenIsText'
  <2>1. \A x \in {Item("tool", t, 1)} : x.open => x.kind = "text"
    BY DEF Item
  <2> QED
    BY <1>1, <1>2, <2>1, OpenStays
<1>6. tool' \in [Tools -> ToolStates] /\ carried' \subseteq Tools /\ lastTodos' \in Todos
  BY <1>1, <1>3 DEF TimelineTypeOK, ToolStates
<1> QED
  BY <1>3, <1>4, <1>5, <1>6, HappensIsSound

LEMMA ToolCompleteIsSound == ASSUME TimelineSound, NEW t \in Tools, ToolComplete(t) PROVE TimelineSound'
<1> DEFINE new == [Item("tool", t, 2) EXCEPT !.named = t \in carried]
<1>1. TimelineTypeOK /\ OpenIsText
  BY DEF TimelineSound
<1>2. Grows(items, items', {t}, {new})
  BY <1>1, ToolCompleteGrows
<1>3. Happens /\ carried' = carried \ {t} /\ UNCHANGED lastTodos /\ tool' = [tool EXCEPT ![t] = "done"]
  BY AppliedIs DEF ToolComplete
<1>4. items' \in Seq(Items)
  BY <1>2 DEF Grows
<1>5. OpenIsText'
  <2>1. ~new.open
    BY DEF Item
  <2> HIDE DEF new
  <2>2. \A x \in {new} : x.open => x.kind = "text"
    BY <2>1
  <2> QED
    BY <1>1, <1>2, <2>2, OpenStays
<1>6. tool' \in [Tools -> ToolStates] /\ carried' \subseteq Tools /\ lastTodos' \in Todos
  BY <1>1, <1>3 DEF TimelineTypeOK, ToolStates
<1> QED
  BY <1>3, <1>4, <1>5, <1>6, HappensIsSound

\* ... the turns, ...
LEMMA TurnBeginsIsSound == ASSUME TimelineSound, TurnBegins PROVE TimelineSound'
<1>1. AgentTyped /\ RendererTyped /\ TransportTyped /\ WriterTyped /\ CardsTyped
  BY TypeParts DEF TimelineSound
<1>2. /\ turn = "idle" /\ begun < MaxTurns /\ turn' = "preparing" /\ begun' = begun + 1
      /\ exists' = TRUE /\ epoch' = epoch + 1 /\ latest' = Nil /\ armed' = FALSE /\ late' = FALSE
      /\ UNCHANGED <<tool, events, renderer, chain, discord, card, blip>>
  BY DEF TurnBegins, Reset
<1>3. AgentTyped'
  BY <1>1, <1>2, TimelineAssumption DEF AgentTyped
<1>4. Counted' /\ epoch' \in Epochs
  <2>1. /\ epoch \in Nat /\ begun \in Nat /\ begun < MaxTurns /\ MaxTurns \in Nat /\ Cardinality(Cards) \in Nat
        /\ Cardinality(Past) \in Nat /\ Cardinality(Past) <= Cardinality(Cards)
    BY <1>1, <1>2, EpochsAre, PastIs, TimelineAssumption DEF AgentTyped, TransportTyped
  <2>2. Past' = Past
    BY <1>2 DEF Past
  <2>3. epoch' <= begun' + Cardinality(Past)
    BY <1>2, <2>1 DEF TimelineSound, Counted
  <2> QED
    BY <1>2, <2>1, <2>2, <2>3 DEF Counted, Epochs
<1>5. TransportTyped'
  BY <1>1, <1>2, <1>4 DEF TransportTyped
<1>6. TimelineTypeOK'
  <2>1. CardsTyped'
    BY <1>1, <1>2 DEF CardsTyped
  <2> QED
    BY <1>1, <1>2, <1>3, <1>5, <2>1, RendererSame, WriterSame, TypeWhole
<1>7. Lined' /\ Bounded'
  BY <1>2, LinedStays, BoundedStays DEF TimelineSound, discord
<1>8. OpenIsText'
  BY <1>2 DEF TimelineSound, OpenIsText, renderer
<1> QED
  BY <1>4, <1>6, <1>7, <1>8 DEF TimelineSound

LEMMA RendererStartsIsSound == ASSUME TimelineSound, RendererStarts PROVE TimelineSound'
<1>1. AgentTyped /\ RendererTyped /\ TransportTyped /\ WriterTyped /\ CardsTyped
  BY TypeParts DEF TimelineSound
<1>2. /\ turn = "preparing" /\ turn' = "running" /\ items' = <<>> /\ born' = epoch /\ carried' = {}
      /\ UNCHANGED <<begun, tool, events, lastTodos, transport, discord, card, late, blip>>
  BY DEF RendererStarts
<1>3. AgentTyped'
  BY <1>1, <1>2 DEF AgentTyped
<1>4. RendererTyped'
  <2>1. <<>> \in Seq(Items)
    OBVIOUS
  <2> QED
    BY <1>1, <1>2, <2>1 DEF RendererTyped, TransportTyped
<1>5. TimelineTypeOK'
  BY <1>1, <1>2, <1>3, <1>4, TransportSame, WriterSame, CardsSame, TypeWhole
<1>6. Past' = Past
  BY <1>2 DEF Past
<1>7. Counted' /\ Lined' /\ Bounded'
  BY <1>2, <1>6, CountedStays, LinedStays, BoundedStays DEF TimelineSound, discord, transport
<1>8. OpenIsText'
  BY <1>2 DEF OpenIsText
<1> QED
  BY <1>5, <1>7, <1>8 DEF TimelineSound

LEMMA DisposeIsSound == ASSUME TimelineSound, Dispose PROVE TimelineSound'
<1>1. AgentTyped /\ RendererTyped /\ TransportTyped /\ WriterTyped /\ CardsTyped
  BY TypeParts DEF TimelineSound
<1>2. /\ turn' = "ended" /\ exists' = FALSE /\ armed' = FALSE /\ latest' = Nil
      /\ UNCHANGED <<begun, tool, events, renderer, epoch, chain, discord, card, late, blip>>
  BY DEF Dispose
<1>3. AgentTyped' /\ TransportTyped'
  BY <1>1, <1>2 DEF AgentTyped, TransportTyped
<1>4. TimelineTypeOK'
  BY <1>1, <1>2, <1>3, RendererSame, WriterSame, CardsSame, TypeWhole
<1>5. Past' = Past
  BY <1>2 DEF Past
<1>6. Counted' /\ Lined' /\ Bounded'
  BY <1>2, <1>5, CountedStays, LinedStays, BoundedStays DEF TimelineSound, discord
<1>7. OpenIsText'
  BY <1>2 DEF TimelineSound, OpenIsText, renderer
<1> QED
  BY <1>4, <1>6, <1>7 DEF TimelineSound

\* ... a flush, ...
LEMMA FlushIsSound ==
    ASSUME TimelineSound, NEW by \in Askers, Flush(by), AgentTyped', CardsTyped', begun' = begun, Past \subseteq Past',
           UNCHANGED <<renderer, discord, blip>>
    PROVE  TimelineTypeOK' /\ Counted' /\ Bounded' /\ OpenIsText'
<1>1. TimelineTypeOK /\ RendererTyped /\ TransportTyped /\ WriterTyped
  BY TypeParts DEF TimelineSound
<1>2. TransportTyped'
  BY <1>1, FlushIs DEF TransportTyped, Flush
<1>3. TimelineTypeOK'
  BY <1>1, <1>2, RendererSame, WriterSame, TypeWhole
<1>4. Counted' /\ Bounded'
  BY <1>1, CountedStays, BoundedStays DEF TimelineSound, discord, Flush
<1>5. OpenIsText'
  BY DEF TimelineSound, OpenIsText, renderer
<1> QED
  BY <1>3, <1>4, <1>5

LEMMA TimerFiresIsSound == ASSUME TimelineSound, TimerFires PROVE TimelineSound'
<1>1. "timer" \in Askers /\ Flush("timer") /\ UNCHANGED <<agent, renderer, discord, card, late, blip>>
  BY DEF TimerFires, Askers
<1>2. TimelineTypeOK' /\ Counted' /\ Bounded' /\ OpenIsText'
  <2>1. AgentTyped' /\ CardsTyped'
    BY <1>1, TypeParts, AgentSame, CardsSame DEF TimelineSound
  <2>2. Past' = Past /\ begun' = begun
    BY <1>1 DEF Past, agent
  <2> QED
    BY <1>1, <2>1, <2>2, FlushIsSound
<1>3. (\A b : Waiting(b)' <=> Waiting(b) \/ b = "timer")
  BY <1>1, FlushWaits DEF TimelineSound, discord
<1>4. InLine'
  <2>1. \A b : Before(b, "timer")
    BY AskersDiffer DEF Before
  <2> QED
    BY <1>1, <2>1, FlushKeepsLine DEF TimelineSound, Lined, discord
<1>5. Lined'
  BY <1>1, <1>3, <1>4, AskersDiffer DEF TimelineSound, Lined, agent
<1> QED
  BY <1>2, <1>5 DEF TimelineSound

LEMMA FinalFlushIsSound == ASSUME TimelineSound, FinalFlush PROVE TimelineSound'
<1>1. /\ "turn" \in Askers /\ Flush("turn") /\ UNCHANGED <<begun, events, renderer, discord, card, late, blip>>
      /\ turn \in {"preparing", "running"} /\ turn' = "ending"
      /\ tool' = [t \in Tools |-> IF tool[t] = "new" THEN "new" ELSE "done"]
  BY DEF FinalFlush, Askers
<1>2. TimelineTypeOK' /\ Counted' /\ Bounded' /\ OpenIsText'
  <2>1. AgentTyped /\ CardsTyped
    BY TypeParts DEF TimelineSound
  <2>2. AgentTyped'
    <3>1. tool' \in [Tools -> ToolStates]
      BY <1>1 DEF ToolStates
    <3> QED
      BY <1>1, <2>1, <3>1 DEF AgentTyped
  <2>3. CardsTyped'
    BY <1>1, <2>1, CardsSame
  <2>4. Past' = Past
    BY <1>1 DEF Past
  <2> QED
    BY <1>1, <2>2, <2>3, <2>4, FlushIsSound
<1>3. (\A b : Waiting(b)' <=> Waiting(b) \/ b = "turn")
  BY <1>1, FlushWaits DEF TimelineSound, discord
<1>4. InLine'
  <2>1. \A b : Waiting(b) => Before(b, "turn")
    BY <1>1, AskersDiffer DEF Before, TimelineSound, Lined
  <2> QED
    BY <1>1, <2>1, FlushKeepsLine DEF TimelineSound, Lined, discord
<1>5. Lined'
  BY <1>1, <1>3, <1>4, AskersDiffer DEF TimelineSound, Lined
<1> QED
  BY <1>2, <1>5 DEF TimelineSound

LEMMA CardBeginsIsSound ==
    ASSUME TimelineSound, NEW c \in Cards, NEW kind \in Kinds, CardBegins(c, kind)
    PROVE  TimelineSound'
<1>1. /\ c \in Askers /\ Flush(c) /\ UNCHANGED <<agent, renderer, discord, late, blip>>
      /\ turn = "running" /\ card[c].at = "none"
      /\ card' = [card EXCEPT ![c] = [at |-> "flushing", kind |-> kind, tools |-> InFlightTools(items), turn |-> begun]]
  BY DEF CardBegins, Askers
<1>2. \A d \in Cards : card'[d].at = IF d = c THEN "flushing" ELSE card[d].at
  BY <1>1, CardTyped DEF TimelineSound
<1>3. TimelineTypeOK' /\ Counted' /\ Bounded' /\ OpenIsText'
  <2>1. AgentTyped /\ CardsTyped
    BY TypeParts DEF TimelineSound
  <2>2. CardsTyped'
    <3>1. InFlightTools(items) \subseteq Tools /\ begun \in 0 .. MaxTurns
      BY <2>1 DEF InFlightTools, AgentTyped
    <3>2. [at |-> "flushing", kind |-> kind, tools |-> InFlightTools(items), turn |-> begun] \in CardRecords
      BY <3>1 DEF CardRecords
    <3> QED
      BY <1>1, <2>1, <3>2 DEF CardsTyped
  <2>3. Past \subseteq Past' /\ begun' = begun
    BY <1>1, <1>2 DEF Past, agent
  <2> QED
    BY <1>1, <2>1, <2>2, <2>3, AgentSame, FlushIsSound
<1>4. (\A b : Waiting(b)' <=> Waiting(b) \/ b = c)
  BY <1>1, FlushWaits DEF TimelineSound, discord
<1>5. ~Waiting(c) /\ ~Waiting("turn")
  BY <1>1 DEF TimelineSound, Lined
<1>6. InLine'
  <2>1. \A b : Waiting(b) => Before(b, c)
    BY <1>5 DEF Before
  <2> QED
    BY <1>1, <2>1, FlushKeepsLine DEF TimelineSound, Lined, discord
<1>7. Lined'
  <2>1. \A d \in Cards : card'[d].at = "flushing" <=> Waiting(d)'
    BY <1>2, <1>4 DEF TimelineSound, Lined
  <2>2. turn' = "running"
    BY <1>1 DEF agent
  <2> QED
    BY <1>4, <1>5, <1>6, <2>1, <2>2, AskersDiffer DEF Lined
<1> QED
  BY <1>3, <1>7 DEF TimelineSound

\* ... a card, ...
LEMMA CardPostedIs ==
    ASSUME TimelineTypeOK, NEW c \in Cards, CardPosted(c)
    PROVE  /\ card[c].at = "posting" /\ card' = [card EXCEPT ![c].at = "over"]
           /\ \A d \in Cards : card'[d].at = IF d = c THEN "over" ELSE card[d].at
           /\ UNCHANGED <<agent, born, carried, lastTodos, msgIds, write, blip>>
           /\ \/ thread' = Append(thread, CardMessage) /\ UNCHANGED <<items, transport, faults, late>>
              \/ faults' = faults + 1 /\ faults < MaxFaults /\ UNCHANGED <<items, transport, late, thread>>
              \/ /\ faults' = faults + 1 /\ faults < MaxFaults /\ UNCHANGED thread
                 /\ turn = "running" /\ card[c].kind # "upload" /\ Render(items')
                 /\ Grows(items, items', {}, Fresh)
<1>1. /\ card[c].at = "posting" /\ card' = [card EXCEPT ![c].at = "over"]
      /\ UNCHANGED <<agent, born, carried, lastTodos, msgIds, write, blip>>
  BY DEF CardPosted
<1>2. \A d \in Cards : card'[d].at = IF d = c THEN "over" ELSE card[d].at
  BY <1>1, CardTyped
<1>3. ASSUME Render(WithStatus(items, Item("notice", 0, 1))) PROVE Render(items') /\ Grows(items, items', {}, Fresh)
  <2>1. items' = WithStatus(items, Item("notice", 0, 1))
    BY <1>3 DEF Render
  <2>2. Grows(items, items', {}, Fresh)
    BY <2>1, StatusGrows
  <2>3. Render(items')
    BY <1>3, <2>1
  <2> QED
    BY <2>2, <2>3
<1>4. \/ thread' = Append(thread, CardMessage) /\ UNCHANGED <<items, transport, faults, late>>
      \/ faults' = faults + 1 /\ faults < MaxFaults /\ UNCHANGED <<items, transport, late, thread>>
      \/ /\ faults' = faults + 1 /\ faults < MaxFaults /\ UNCHANGED thread
         /\ turn = "running" /\ card[c].kind # "upload" /\ Render(WithStatus(items, Item("notice", 0, 1)))
  BY DEF CardPosted
<1> QED
  BY <1>1, <1>2, <1>3, <1>4

LEMMA CardMessageIs == ASSUME TimelineTypeOK PROVE CardMessage \in Messages /\ Append(thread, CardMessage) \in Seq(Messages)
<1>1. CardMessage \in Messages
  <2>1. <<>> \in Seq(Items) /\ epoch \in Epochs
    BY DEF TimelineTypeOK
  <2> QED
    BY <2>1 DEF CardMessage, Messages
<1> QED
  BY <1>1, DiscordTyped

LEMMA CardPostedIsSound == ASSUME TimelineSound, NEW c \in Cards, CardPosted(c) PROVE TimelineSound'
<1>1. AgentTyped /\ RendererTyped /\ TransportTyped /\ WriterTyped /\ CardsTyped
  BY TypeParts DEF TimelineSound
<1>2. /\ card[c].at = "posting" /\ card' = [card EXCEPT ![c].at = "over"]
      /\ \A d \in Cards : card'[d].at = IF d = c THEN "over" ELSE card[d].at
      /\ UNCHANGED <<agent, born, carried, lastTodos, msgIds, write, blip>>
  BY CardPostedIs DEF TimelineSound
<1>3. \/ thread' = Append(thread, CardMessage) /\ UNCHANGED <<items, transport, faults, late>>
      \/ faults' = faults + 1 /\ faults < MaxFaults /\ UNCHANGED <<items, transport, late, thread>>
      \/ /\ faults' = faults + 1 /\ faults < MaxFaults /\ UNCHANGED thread
         /\ Render(items') /\ Grows(items, items', {}, Fresh)
  BY CardPostedIs DEF TimelineSound
<1>4. RendererTyped' /\ TransportTyped' /\ late' \in BOOLEAN /\ OpenIsText' /\ UNCHANGED <<epoch, chain>>
  <2>1. CASE UNCHANGED <<items, transport, late>>
    BY <1>1, <1>2, <2>1, TransportSame DEF RendererTyped, CardsTyped, TimelineSound, OpenIsText, transport
  <2>2. CASE Render(items') /\ Grows(items, items', {}, Fresh)
    <3>1. items' \in Seq(Items) /\ latest' = items'
      BY <2>2 DEF Grows, Render
    <3>2. RendererTyped'
      BY <1>1, <1>2, <3>1 DEF RendererTyped
    <3>3. TransportTyped' /\ late' \in BOOLEAN /\ UNCHANGED <<epoch, chain>>
      BY <1>1, <2>2, <3>1 DEF Render, TransportTyped
    <3>4. OpenIsText'
      <4>1. \A x \in Fresh : x.open => x.kind = "text"
        BY DEF Fresh
      <4> QED
        BY <2>2, <4>1, OpenStays DEF TimelineSound
    <3> QED
      BY <3>2, <3>3, <3>4
  <2> QED
    BY <1>3, <2>1, <2>2
<1>5. AgentTyped'
  BY <1>1, <1>2, AgentSame
<1>6. WriterTyped'
  <2>1. thread' \in Seq(Messages)
    BY <1>1, <1>3, CardMessageIs DEF TimelineSound, WriterTyped
  <2>2. faults' \in 0 .. MaxFaults
    BY <1>1, <1>3, TimelineAssumption DEF WriterTyped
  <2> QED
    BY <1>1, <1>2, <2>1, <2>2 DEF WriterTyped
<1>7. CardsTyped'
  <2>1. card \in [Cards -> CardRecords]
    BY <1>1 DEF CardsTyped
  <2>2. \A r \in CardRecords : [r EXCEPT !.at = "over"] \in CardRecords
    BY DEF CardRecords
  <2> HIDE DEF CardRecords
  <2> QED
    BY <1>2, <1>4, <2>1, <2>2 DEF CardsTyped
<1>8. TimelineTypeOK'
  BY <1>4, <1>5, <1>6, <1>7, TypeWhole
<1>9. Counted' /\ Lined' /\ Bounded'
  <2>1. Past \subseteq Past'
    BY <1>2 DEF Past
  <2>2. \A d \in Cards : card'[d].at = "flushing" <=> card[d].at = "flushing"
    BY <1>2
  <2> QED
    BY <1>2, <1>4, <2>1, <2>2, CountedStays, LinedStays, BoundedStays DEF TimelineSound, agent
<1> QED
  BY <1>4, <1>8, <1>9 DEF TimelineSound

\* ... a write ...
LEMMA ChunksTyped == ASSUME NEW s \in Seq(Items) PROVE Chunks(s) \in Seq(Seq(Items))
<1>1. \A k \in DOMAIN s : s[k] \in Items
  OBVIOUS
<1>2. Apart(s, Tools \cup Nat)
  BY <1>1 DEF Apart, Items
<1> QED
  BY <1>2, ChunksIs DEF Blocks

\* A flush begins to write, or whoever asked for it goes on.
LEMMA WriteBeginsIs ==
    ASSUME TimelineTypeOK, WriteBegins
    PROVE  /\ write.pc = "none" /\ chain # <<>> /\ chain' = Tail(chain)
           /\ UNCHANGED <<begun, events, msgIds, thread, faults>>
           /\ \/ /\ exists /\ Head(chain).epoch = epoch /\ latest # Nil
                 /\ write' = [pc |-> "thread", by |-> Head(chain).by, epoch |-> epoch, chunks |-> Chunks(latest), at |-> 1]
                 /\ late' = FALSE /\ blip' = blip \ {epoch}
                 /\ UNCHANGED <<turn, tool, card, renderer, exists, epoch, latest, armed>>
              \/ /\ ~(exists /\ Head(chain).epoch = epoch /\ latest # Nil)
                 /\ Resumed(Head(chain).by) /\ UNCHANGED <<write, blip>>
<1> QED
  BY DEF WriteBegins

LEMMA WriteBeginsIsSound == ASSUME TimelineSound, WriteBegins PROVE TimelineSound'
<1>1. TimelineTypeOK /\ AgentTyped /\ RendererTyped /\ TransportTyped /\ WriterTyped /\ CardsTyped /\ InLine
  BY TypeParts DEF TimelineSound, Lined
<1> DEFINE by == Head(chain).by
<1>2. /\ write.pc = "none" /\ chain # <<>> /\ chain' = Tail(chain)
      /\ UNCHANGED <<begun, events, msgIds, thread, faults>>
  BY <1>1, WriteBeginsIs
<1>3. chain' \in Seq(Flushes) /\ by \in Askers
  BY <1>1, <1>2, TailIs
<1>4. /\ \A b : Waiting(b) <=> b = by \/ \E i \in DOMAIN chain' : chain'[i].by = b
      /\ \A i \in DOMAIN chain' : Before(by, chain'[i].by)
      /\ \A i, j \in DOMAIN chain' : i < j => Before(chain'[i].by, chain'[j].by)
  BY <1>1, <1>2, HeadWaits
<1> HIDE DEF by
<1>5. CASE /\ latest # Nil
           /\ write' = [pc |-> "thread", by |-> by, epoch |-> epoch, chunks |-> Chunks(latest), at |-> 1]
           /\ late' = FALSE /\ blip' = blip \ {epoch}
           /\ UNCHANGED <<turn, tool, card, renderer, exists, epoch, latest, armed>>
  <2>1. write' \in Writes
    <3>1. Chunks(latest) \in Seq(Seq(Items)) /\ epoch \in Epochs
      BY <1>1, <1>5, ChunksTyped DEF TransportTyped
    <3> QED
      BY <1>3, <1>5, <3>1 DEF Writes, WriteStates
  <2>2. AgentTyped' /\ RendererTyped' /\ TransportTyped' /\ CardsTyped'
    BY <1>1, <1>2, <1>3, <1>5, RendererSame DEF AgentTyped, TransportTyped, CardsTyped
  <2>3. WriterTyped'
    BY <1>1, <1>2, <1>5, <2>1 DEF WriterTyped
  <2>4. TimelineTypeOK'
    BY <2>2, <2>3, TypeWhole
  <2>5. Counted'
    <3>1. Past' = Past
      BY <1>5 DEF Past
    <3> QED
      BY <1>1, <1>2, <1>5, <3>1, CountedStays DEF TimelineSound
  <2>6. write'.pc = "thread" /\ write'.by = by
    BY <1>5
  <2>7. Bounded'
    BY <2>6 DEF Bounded
  <2>8. \A b : Waiting(b)' <=> Waiting(b)
    BY <1>4, <2>6 DEF Waiting
  <2>9. InLine'
    BY <1>4, <2>6 DEF InLine, Before
  <2>10. Lined'
    BY <1>5, <2>8, <2>9 DEF TimelineSound, Lined
  <2>11. OpenIsText'
    BY <1>5 DEF TimelineSound, OpenIsText, renderer
  <2> QED
    BY <2>4, <2>5, <2>7, <2>10, <2>11 DEF TimelineSound
<1>6. CASE Resumed(by) /\ UNCHANGED <<write, blip>>
  <2>1. by \in Cards => card[by].at = "flushing"
    BY <1>4 DEF TimelineSound, Lined
  <2>2. AgentTyped' /\ RendererTyped' /\ TransportTyped' /\ CardsTyped' /\ Counted'
    BY <1>1, <1>2, <1>3, <1>6, <2>1, ResumedTyped DEF TimelineSound
  <2>3. WriterTyped'
    BY <1>1, <1>2, <1>6 DEF WriterTyped
  <2>4. TimelineTypeOK'
    BY <2>2, <2>3, TypeWhole
  <2>5. Bounded'
    BY <1>2, <1>6, BoundedStays DEF TimelineSound
  <2>6. \A b : Waiting(b)' <=> \E i \in DOMAIN chain' : chain'[i].by = b
    BY <1>2, <1>6 DEF Waiting
  <2>7. InLine'
    BY <1>2, <1>4, <1>6 DEF InLine, Before
  <2>8. Waiting(by) /\ (\A b : Waiting(b) <=> b = by \/ Waiting(b)') /\ \A b : Waiting(b)' => Before(by, b)
    BY <1>4, <2>6
  <2>9. Lined'
    BY <1>1, <1>3, <1>6, <2>7, <2>8, ResumedIsLined DEF TimelineSound
  <2>10. OpenIsText'
    BY <1>6 DEF TimelineSound, OpenIsText, renderer, Resumed, Sealed
  <2> QED
    BY <2>2, <2>4, <2>5, <2>9, <2>10 DEF TimelineSound
<1> QED
  BY <1>1, <1>5, <1>6, WriteBeginsIs DEF by

LEMMA WriteIsSound == ASSUME TimelineSound, Write PROVE TimelineSound'
<1>1. TimelineTypeOK /\ AgentTyped /\ RendererTyped /\ TransportTyped /\ WriterTyped /\ CardsTyped /\ InLine
  BY TypeParts DEF TimelineSound, Lined
<1>2. /\ write.pc # "none" /\ Bounded'
      /\ Over \/ \E state \in WriteStates, k \in Nat : Awaits(state, k)
      /\ thread' \in Seq(Messages) /\ msgIds' \in [Epochs -> Seq(Nat)]
      /\ faults' \in 0 .. MaxFaults /\ blip' \subseteq Epochs
  BY <1>1, WriteStepGoes DEF TimelineSound, WriteGoes
<1>3. ASSUME NEW state \in WriteStates, NEW k \in Nat, Awaits(state, k) PROVE TimelineSound'
  <2>1. /\ write'.pc = state /\ write'.by = write.by /\ write' \in Writes
        /\ UNCHANGED <<agent, renderer, transport, card, late>>
    BY <1>1, <1>2, <1>3, AwaitsIs DEF Writes
  <2>2. WriterTyped'
    BY <1>2, <2>1 DEF WriterTyped
  <2>3. TimelineTypeOK'
    BY <1>1, <2>1, <2>2, AgentSame, RendererSame, TransportSame, CardsSame, TypeWhole
  <2>4. Counted'
    <3>1. Past' = Past
      BY <2>1 DEF Past
    <3> QED
      BY <1>1, <2>1, <3>1, CountedStays DEF TimelineSound, agent, transport
  <2>5. state # "none"
    BY DEF WriteStates
  <2>6. (\A b : Waiting(b)' <=> Waiting(b)) /\ InLine'
    BY <1>1, <1>2, <2>1, <2>5 DEF Waiting, InLine, Before, transport
  <2>7. Lined'
    BY <2>1, <2>6 DEF TimelineSound, Lined, agent
  <2>8. OpenIsText'
    BY <2>1 DEF TimelineSound, OpenIsText, renderer
  <2> QED
    BY <1>2, <2>3, <2>4, <2>7, <2>8 DEF TimelineSound
<1>4. CASE Over
  <2>1. write' = NoWrite /\ write'.pc = "none" /\ Resumed(write.by) /\ UNCHANGED <<begun, events, chain>>
    BY <1>4, OverIs
  <2>2. write.by \in Askers /\ Waiting(write.by) /\ chain' \in Seq(Flushes)
    BY <1>1, <1>2, <2>1, WriteTyped DEF Waiting, TransportTyped
  <2>3. write.by \in Cards => card[write.by].at = "flushing"
    BY <2>2 DEF TimelineSound, Lined
  <2>4. AgentTyped' /\ RendererTyped' /\ TransportTyped' /\ CardsTyped' /\ Counted'
    BY <1>1, <2>1, <2>2, <2>3, ResumedTyped DEF TimelineSound
  <2>5. write' \in Writes
    <3>1. 0 \in Epochs /\ <<>> \in Seq(Seq(Items)) /\ "timer" \in Askers
      BY EpochsAre DEF Askers
    <3> QED
      BY <2>1, <3>1 DEF NoWrite, Writes
  <2>6. WriterTyped'
    BY <1>2, <2>5 DEF WriterTyped
  <2>7. TimelineTypeOK'
    BY <2>4, <2>6, TypeWhole
  <2>8. \A b : Waiting(b)' <=> \E i \in DOMAIN chain : chain[i].by = b
    BY <2>1 DEF Waiting
  <2>9. InLine' /\ (\A b : Waiting(b) <=> b = write.by \/ Waiting(b)') /\ \A b : Waiting(b)' => Before(write.by, b)
    BY <1>1, <1>2, <2>1, <2>8 DEF InLine, Before, Waiting
  <2>10. Lined'
    BY <1>1, <2>1, <2>2, <2>9, ResumedIsLined DEF TimelineSound
  <2>11. OpenIsText'
    BY <2>1 DEF TimelineSound, OpenIsText, renderer, Resumed, Sealed
  <2> QED
    BY <1>2, <2>4, <2>7, <2>10, <2>11 DEF TimelineSound
<1> QED
  BY <1>2, <1>3, <1>4

\* ... or somebody in Discord.
LEMMA MessageDeletedIs ==
    ASSUME TimelineTypeOK, NEW i \in DOMAIN thread, MessageDeleted(i)
    PROVE  /\ thread' \in Seq(Messages) /\ DOMAIN thread' = DOMAIN thread /\ Len(thread') = Len(thread)
           /\ \A j \in DOMAIN thread : thread'[j] = IF j = i THEN [thread[j] EXCEPT !.live = FALSE] ELSE thread[j]
<1> DEFINE m == [thread[i] EXCEPT !.live = FALSE]
<1>1. m \in Messages
  BY MessageTyped
<1>2. thread' = [thread EXCEPT ![i] = m]
  BY DEF MessageDeleted
<1> HIDE DEF m
<1>3. /\ thread' \in Seq(Messages) /\ DOMAIN thread' = DOMAIN thread /\ Len(thread') = Len(thread)
      /\ \A j \in DOMAIN thread : thread'[j] = IF j = i THEN m ELSE thread[j]
  BY <1>1, <1>2, ChangedIs
<1> QED
  BY <1>3 DEF m

LEMMA MessageDeletedIsSound ==
    ASSUME TimelineSound, NEW i \in DOMAIN thread, MessageDeleted(i)
    PROVE  TimelineSound'
<1>1. TimelineTypeOK /\ AgentTyped /\ RendererTyped /\ TransportTyped /\ WriterTyped /\ CardsTyped
  BY TypeParts DEF TimelineSound
<1>2. /\ faults < MaxFaults /\ faults' = faults + 1 /\ blip' = blip \cup {thread[i].epoch}
      /\ UNCHANGED <<agent, renderer, transport, card, late, msgIds, write>>
  BY DEF MessageDeleted
<1>3. WriterTyped'
  <2>1. thread' \in Seq(Messages)
    BY <1>1, MessageDeletedIs
  <2>2. thread[i].epoch \in Epochs
    BY <1>1, MessageTyped
  <2>3. faults' \in 0 .. MaxFaults
    BY <1>1, <1>2, TimelineAssumption DEF WriterTyped
  <2> QED
    BY <1>1, <1>2, <2>1, <2>2, <2>3 DEF WriterTyped
<1>4. TimelineTypeOK'
  BY <1>1, <1>2, <1>3, AgentSame, RendererSame, TransportSame, CardsSame, TypeWhole
<1>5. Counted' /\ Lined' /\ Bounded'
  <2>1. Past' = Past
    BY <1>2 DEF Past
  <2> QED
    BY <1>2, <2>1, CountedStays, LinedStays, BoundedStays DEF TimelineSound, agent, transport
<1>6. OpenIsText'
  BY <1>2 DEF TimelineSound, OpenIsText, renderer
<1> QED
  BY <1>4, <1>5, <1>6 DEF TimelineSound

LEMMA StillIsSound == ASSUME TimelineSound, UNCHANGED timelineVars PROVE TimelineSound'
<1>1. /\ UNCHANGED <<agent, renderer, transport, discord, card, late, blip>>
  BY DEF timelineVars
<1>2. AgentTyped /\ RendererTyped /\ TransportTyped /\ WriterTyped /\ CardsTyped
  BY TypeParts DEF TimelineSound
<1>3. TimelineTypeOK'
  BY <1>1, <1>2, AgentSame, RendererSame, TransportSame, WriterSame, CardsSame, TypeWhole
<1>4. Counted' /\ Lined' /\ Bounded'
  <2>1. Past' = Past
    BY <1>1 DEF Past
  <2> QED
    BY <1>1, <2>1, CountedStays, LinedStays, BoundedStays DEF TimelineSound, agent, transport, discord
<1>5. OpenIsText'
  BY <1>1 DEF TimelineSound, OpenIsText, renderer
<1> QED
  BY <1>3, <1>4, <1>5 DEF TimelineSound

LEMMA InitIsSound == ASSUME TimelineInit PROVE TimelineSound
<1>1. <<>> \in Seq(Items) /\ <<>> \in Seq(Nat) /\ <<>> \in Seq(Flushes) /\ <<>> \in Seq(Messages)
      /\ <<>> \in Seq(Seq(Items)) /\ 0 \in Epochs /\ Len(<<>>) = 0 /\ DOMAIN <<>> = {}
  BY EpochsAre
<1>2. TimelineTypeOK
  <2>1. turn = "idle" /\ begun \in 0 .. MaxTurns /\ events \in 0 .. MaxEvents /\ faults \in 0 .. MaxFaults
    BY TimelineAssumption DEF TimelineInit
  <2>2. tool \in [Tools -> ToolStates] /\ lastTodos \in Todos /\ carried \subseteq Tools
    BY DEF TimelineInit, ToolStates, Todos
  <2>3. card \in [Cards -> CardRecords]
    BY TimelineAssumption DEF TimelineInit, CardRecords, Kinds
  <2>4. write \in Writes
    BY <1>1 DEF TimelineInit, NoWrite, Writes, Askers
  <2>5. msgIds \in [Epochs -> Seq(Nat)]
    BY <1>1 DEF TimelineInit
  <2>6. /\ chain \in Seq(Flushes) /\ thread \in Seq(Messages) /\ items \in Seq(Items) /\ latest = Nil
        /\ exists = FALSE /\ armed = FALSE /\ late = FALSE /\ blip = {} /\ epoch = 0 /\ born = 0
    BY <1>1 DEF TimelineInit
  <2> QED
    BY <1>1, <2>1, <2>2, <2>3, <2>4, <2>5, <2>6 DEF TimelineTypeOK, CardRecords, Writes, WriteStates, Flushes, Messages
<1>3. write.pc = "none" /\ chain = <<>> /\ items = <<>> /\ turn = "idle" /\ epoch = 0 /\ begun = 0
      /\ \A c \in Cards : card[c].at = "none"
  BY DEF TimelineInit, NoWrite
<1>4. OpenIsText /\ Bounded
  BY <1>3 DEF OpenIsText, Bounded
<1>5. Counted
  BY <1>3, PastIs DEF Counted
<1>6. Lined
  BY <1>3 DEF Lined, InLine, Waiting
<1> QED
  BY <1>2, <1>4, <1>5, <1>6 DEF TimelineSound

LEMMA NextIsSound == ASSUME TimelineSound, [TimelineNext]_timelineVars PROVE TimelineSound'
<1>1. ASSUME NEW t \in Tools, ToolStart(t) \/ ToolComplete(t) PROVE TimelineSound'
  BY <1>1, ToolStartIsSound, ToolCompleteIsSound
<1>2. ASSUME NEW c \in Cards, CardPosted(c) \/ \E kind \in Kinds : CardBegins(c, kind) PROVE TimelineSound'
  BY <1>2, CardPostedIsSound, CardBeginsIsSound
<1>3. ASSUME NEW i \in DOMAIN thread, MessageDeleted(i) PROVE TimelineSound'
  BY <1>3, MessageDeletedIsSound
<1>4. CASE Said
  BY <1>4, SaidIsSound
<1>5. CASE TurnBegins \/ RendererStarts \/ FinalFlush \/ Dispose \/ TimerFires
  BY <1>5, TurnBeginsIsSound, RendererStartsIsSound, FinalFlushIsSound, DisposeIsSound, TimerFiresIsSound
<1>6. CASE WriteBegins \/ Write
  BY <1>6, WriteBeginsIsSound, WriteIsSound
<1>7. CASE UNCHANGED timelineVars
  BY <1>7, StillIsSound
<1> QED
  BY <1>1, <1>2, <1>3, <1>4, <1>5, <1>6, <1>7 DEF TimelineNext, Said

LEMMA SoundAlways == TimelineSpec => []TimelineSound
<1> USE DEF TimelineSpec
<1>1. TimelineInit => TimelineSound
  BY InitIsSound
<1>2. TimelineSound /\ [TimelineNext]_timelineVars => TimelineSound'
  BY NextIsSound
<1> HIDE DEF TimelineSound
<1> QED
  BY <1>1, <1>2, PTL

\* The renderer, the transport and the thread keep their types: in particular
\* there is an epoch for every turn and every card, the anchors of a block
\* have no gap, and a write is at one of its messages whenever it fetches,
\* edits or sends one.
THEOREM TimelineTypeCorrect == TimelineSpec => []TimelineTypeOK
<1>1. TimelineSound => TimelineTypeOK
  BY DEF TimelineSound
<1> QED
  BY <1>1, SoundAlways, PTL

-----------------------------------------------------------------------------
(* The names of the calls.                                                  *)

\* What the renderer, and a card that waits for its flush, know of the calls in
\* flight: the timeline shows each that runs, whose name is carried; a card will
\* carry each that runs; and nothing is shown without its name that is not over.
Tooled ==
    /\ \A t \in Tools : tool[t] \in {"running", "sealed", "beyond"} => turn \in {"running", "ended"}
    /\ \A t \in Tools : tool[t] = "running" => \E i \in At(items, "tool", t) : items[i].v = 1
    /\ \A t \in Tools : tool[t] \in {"running", "sealed"} => t \in carried
    /\ \A t \in Tools : tool[t] # "done" => \A i \in At(items, "tool", t) : items[i].named
    /\ \A c \in Cards : card[c].at = "flushing" /\ card[c].kind # "upload" =>
          \A t \in Tools : tool[t] = "running" => t \in card[c].tools

\* A card that waits has waited before.
CardsAsBefore ==
    \A c \in Cards : card'[c].at = "flushing" =>
        card[c].at = "flushing" /\ card'[c].kind = card[c].kind /\ card'[c].tools = card[c].tools

LEMMA ToolsStay ==
    ASSUME Tooled, UNCHANGED <<tool, carried, items>>, CardsAsBefore,
           turn' = turn \/ turn' = "ended" \/ turn \notin {"running", "ended"}
    PROVE  Tooled'
<1> QED
  BY DEF Tooled, CardsAsBefore, At

LEMMA ResumedCases ==
    ASSUME NEW by \in Askers, Resumed(by)
    PROVE  \/ /\ UNCHANGED <<tool, card, renderer, exists, epoch, latest, armed, late>>
              /\ turn' = turn \/ (by = "turn" /\ turn = "ending" /\ turn' = "idle")
           \/ by \in Cards /\ Sealed(by) /\ (Fenced(by) => Current(by))
           \/ /\ by \in Cards /\ card' = [card EXCEPT ![by].at = "over"]
              /\ UNCHANGED <<turn, tool, renderer, exists, epoch, latest, armed, late>>
<1> QED
  BY DEF Resumed

LEMMA CardMoves ==
    ASSUME TimelineTypeOK, NEW c \in Cards, NEW x \in {"posting", "over"}, card' = [card EXCEPT ![c].at = x]
    PROVE  /\ \A d \in Cards : /\ card'[d].at = IF d = c THEN x ELSE card[d].at
                               /\ card'[d].kind = card[d].kind /\ card'[d].tools = card[d].tools
                               /\ card'[d].turn = card[d].turn
           /\ CardsAsBefore
<1>1. \A d \in Cards : /\ card'[d].at = IF d = c THEN x ELSE card[d].at
                       /\ card'[d].kind = card[d].kind /\ card'[d].tools = card[d].tools
                       /\ card'[d].turn = card[d].turn
  <2>1. card \in [Cards -> CardRecords]
    BY TypeParts DEF CardsTyped
  <2>2. \A r \in CardRecords : LET q == [r EXCEPT !.at = x]
                               IN  q.at = x /\ q.kind = r.kind /\ q.tools = r.tools /\ q.turn = r.turn
    BY DEF CardRecords
  <2> HIDE DEF CardRecords
  <2> QED
    BY <2>1, <2>2
<1> QED
  BY <1>1 DEF CardsAsBefore

LEMMA SealedIs ==
    ASSUME NEW c, Sealed(c)
    PROVE  /\ exists' = TRUE /\ epoch' = epoch + 1 /\ latest' = Nil /\ armed' = FALSE /\ late' = FALSE
           /\ items' = <<>> /\ born' = epoch + 1 /\ UNCHANGED <<turn, lastTodos>>
           /\ carried' = IF card[c].kind = "upload" THEN InFlightTools(items) ELSE card[c].tools
           /\ card' = [card EXCEPT ![c].at = "posting"]
           /\ tool' = [t \in Tools |-> CASE tool[t] = "running" -> "sealed"
                                         [] tool[t] = "sealed" -> "beyond"
                                         [] OTHER -> tool[t]]
<1> QED
  BY DEF Sealed, Reset

\* What a timeline shows of the calls that go on stays.
LEMMA GrowsTooled ==
    ASSUME TimelineTypeOK, Tooled, NEW these, NEW news, Grows(items, items', these, news), NEW t \in Tools, t \notin these,
           tool[t] # "done", \A x \in news : x.kind = "tool" => x.id # t \/ x.named
    PROVE  /\ tool[t] = "running" => \E i \in At(items', "tool", t) : items'[i].v = 1
           /\ \A i \in At(items', "tool", t) : items'[i].named
<1>1. ASSUME tool[t] = "running" PROVE \E i \in At(items', "tool", t) : items'[i].v = 1
  <2>1. PICK i \in At(items, "tool", t) : items[i].v = 1
    BY <1>1 DEF Tooled
  <2>2. i \in DOMAIN items /\ items[i].kind = "tool" /\ items[i].id = t
    BY DEF At
  <2>3. PICK j \in DOMAIN items' : Like(items'[j], items[i], these)
    BY <2>2 DEF Grows
  <2>4. items'[j].kind = "tool" /\ items'[j].id = t /\ items'[j].v = 1
    BY <2>1, <2>2, <2>3 DEF Like
  <2> QED
    BY <2>3, <2>4 DEF At
<1>2. ASSUME NEW j \in At(items', "tool", t) PROVE items'[j].named
  <2>1. j \in DOMAIN items' /\ items'[j].kind = "tool" /\ items'[j].id = t
    BY <1>2 DEF At
  <2>2. CASE items'[j] \in news
    BY <2>1, <2>2
  <2>3. CASE \E i \in DOMAIN items : Like(items'[j], items[i], these)
    <3>1. PICK i \in DOMAIN items : Like(items'[j], items[i], these)
      BY <2>3
    <3>2. i \in At(items, "tool", t)
      BY <2>1, <3>1 DEF At, Like
    <3>3. items[i].named
      BY <3>2 DEF Tooled
    <3> QED
      BY <3>1, <3>3 DEF Like
  <2> QED
    BY <2>1, <2>2, <2>3 DEF Grows
<1> QED
  BY <1>1, <1>2

LEMMA SaidTooled ==
    ASSUME TimelineTypeOK, Tooled, Grows(items, items', {}, Fresh), UNCHANGED <<tool, carried, turn>>, CardsAsBefore
    PROVE  Tooled'
<1>1. ASSUME NEW t \in Tools, tool[t] # "done"
      PROVE  /\ tool[t] = "running" => \E i \in At(items', "tool", t) : items'[i].v = 1
             /\ \A i \in At(items', "tool", t) : items'[i].named
  <2>1. \A x \in Fresh : x.kind = "tool" => x.id # t \/ x.named
    BY DEF Fresh
  <2> QED
    BY <1>1, <2>1, GrowsTooled
<1> QED
  BY <1>1 DEF Tooled, CardsAsBefore

LEMMA ToolStartTooled ==
    ASSUME TimelineTypeOK, Tooled, NEW t \in Tools, ToolStart(t)
    PROVE  Tooled'
<1>1. /\ turn = "running" /\ tool[t] = "new" /\ carried' = carried \cup {t} /\ UNCHANGED <<turn, card>>
      /\ tool' = [tool EXCEPT ![t] = IF Unseen THEN "beyond" ELSE "running"]
  BY DEF ToolStart, Applied
<1>2. \A s \in Tools : tool'[s] = IF s = t THEN IF Unseen THEN "beyond" ELSE "running" ELSE tool[s]
  BY <1>1 DEF TimelineTypeOK
<1> DEFINE new == Item("tool", t, 1)
<1>3. Grows(items, items', {}, {new}) /\ \E j \in DOMAIN items' : items'[j] = new
  BY ToolStartGrows
<1>4. new.kind = "tool" /\ new.id = t /\ new.v = 1 /\ new.named
  BY DEF Item
<1> HIDE DEF new
<1>5. ASSUME NEW s \in Tools, tool[s] # "done"
      PROVE  /\ tool[s] = "running" => \E i \in At(items', "tool", s) : items'[i].v = 1
             /\ \A i \in At(items', "tool", s) : items'[i].named
  <2>1. \A x \in {new} : x.kind = "tool" => x.id # s \/ x.named
    BY <1>4
  <2> QED
    BY <1>3, <1>5, <2>1, GrowsTooled
<1>6. \E i \in At(items', "tool", t) : items'[i].v = 1
  <2>1. PICK j \in DOMAIN items' : items'[j] = new
    BY <1>3
  <2>2. j \in At(items', "tool", t) /\ items'[j].v = 1
    BY <1>4, <2>1 DEF At
  <2> QED
    BY <2>2
<1>7. \A s \in Tools : tool'[s] \in {"running", "sealed", "beyond"} => turn' \in {"running", "ended"}
  BY <1>1
<1>8. \A s \in Tools : tool'[s] = "running" => \E i \in At(items', "tool", s) : items'[i].v = 1
  BY <1>2, <1>5, <1>6
<1>9. \A s \in Tools : tool'[s] \in {"running", "sealed"} => s \in carried'
  BY <1>1, <1>2 DEF Tooled
<1>10. \A s \in Tools : tool'[s] # "done" => \A i \in At(items', "tool", s) : items'[i].named
  BY <1>1, <1>2, <1>5
<1>11. ASSUME NEW c \in Cards, card'[c].at = "flushing", card'[c].kind # "upload", NEW s \in Tools, tool'[s] = "running"
       PROVE  s \in card'[c].tools
  <2>1. Unseen
    BY <1>1, <1>11 DEF Unseen
  <2>2. tool[s] = "running"
    BY <1>2, <1>11, <2>1
  <2> QED
    BY <1>1, <1>11, <2>2 DEF Tooled
<1> QED
  BY <1>7, <1>8, <1>9, <1>10, <1>11 DEF Tooled

LEMMA ToolCompleteTooled ==
    ASSUME TimelineTypeOK, Tooled, NEW t \in Tools, ToolComplete(t)
    PROVE  Tooled'
<1> DEFINE new == [Item("tool", t, 2) EXCEPT !.named = t \in carried]
<1>1. carried' = carried \ {t} /\ tool' = [tool EXCEPT ![t] = "done"] /\ UNCHANGED <<turn, card>>
  BY DEF ToolComplete, Applied
<1>2. \A s \in Tools : tool'[s] = IF s = t THEN "done" ELSE tool[s]
  BY <1>1 DEF TimelineTypeOK
<1>3. Grows(items, items', {t}, {new})
  BY ToolCompleteGrows
<1>4. new.id = t
  BY DEF Item
<1> HIDE DEF new
<1>5. ASSUME NEW s \in Tools, tool'[s] # "done"
      PROVE  /\ tool[s] = "running" => \E i \in At(items', "tool", s) : items'[i].v = 1
             /\ \A i \in At(items', "tool", s) : items'[i].named
  <2>1. s # t /\ tool[s] # "done" /\ s \notin {t}
    BY <1>2, <1>5
  <2>2. \A x \in {new} : x.kind = "tool" => x.id # s \/ x.named
    BY <1>4, <2>1
  <2> QED
    BY <1>3, <2>1, <2>2, GrowsTooled
<1> QED
  BY <1>1, <1>2, <1>5 DEF Tooled

LEMMA ResumedTooled ==
    ASSUME TimelineTypeOK, Tooled, NEW by \in Askers, Resumed(by), by \in Cards => card[by].at = "flushing"
    PROVE  Tooled'
<1>1. CASE /\ UNCHANGED <<tool, card, renderer, exists, epoch, latest, armed, late>>
           /\ turn' = turn \/ (by = "turn" /\ turn = "ending" /\ turn' = "idle")
  <2>1. CardsAsBefore
    BY <1>1 DEF CardsAsBefore
  <2> QED
    BY <1>1, <2>1, ToolsStay DEF renderer
<1>2. CASE by \in Cards /\ Sealed(by)
  <2>1. /\ items' = <<>> /\ turn' = turn
        /\ carried' = IF card[by].kind = "upload" THEN InFlightTools(items) ELSE card[by].tools
        /\ card' = [card EXCEPT ![by].at = "posting"]
        /\ tool' = [t \in Tools |-> CASE tool[t] = "running" -> "sealed"
                                      [] tool[t] = "sealed" -> "beyond"
                                      [] OTHER -> tool[t]]
    BY <1>2, SealedIs
  <2>2. ASSUME NEW t \in Tools
        PROVE  /\ tool'[t] # "running"
               /\ tool'[t] = "sealed" => tool[t] = "running"
               /\ tool'[t] = "beyond" => tool[t] \in {"sealed", "beyond"}
    <3>1. tool'[t] = CASE tool[t] = "running" -> "sealed"
                       [] tool[t] = "sealed" -> "beyond"
                       [] OTHER -> tool[t]
      BY <2>1
    <3> QED
      BY <3>1
  <2>3. \A t \in Tools : tool[t] = "running" => t \in carried'
    <3>1. CASE card[by].kind = "upload"
      BY <2>1, <3>1 DEF Tooled, InFlightTools
    <3>2. CASE card[by].kind # "upload"
      BY <1>2, <2>1, <3>2 DEF Tooled
    <3> QED
      BY <3>1, <3>2
  <2>4. \A t \in Tools : At(items', "tool", t) = {}
    BY <2>1 DEF At
  <2> QED
    BY <2>1, <2>2, <2>3, <2>4 DEF Tooled
<1>3. CASE /\ by \in Cards /\ card' = [card EXCEPT ![by].at = "over"]
           /\ UNCHANGED <<turn, tool, renderer, exists, epoch, latest, armed, late>>
  <2>1. CardsAsBefore
    BY <1>3, CardMoves
  <2> QED
    BY <1>3, <2>1, ToolsStay DEF renderer
<1> QED
  BY <1>1, <1>2, <1>3, ResumedCases

LEMMA CardBeginsIs ==
    ASSUME TimelineTypeOK, NEW c \in Cards, NEW kind \in Kinds, CardBegins(c, kind)
    PROVE  /\ turn = "running" /\ card[c].at = "none" /\ Flush(c) /\ UNCHANGED <<agent, renderer, discord, late, blip>>
           /\ card'[c].at = "flushing" /\ card'[c].kind = kind /\ card'[c].tools = InFlightTools(items)
           /\ card'[c].turn = begun
           /\ \A d \in Cards : d # c => card'[d] = card[d]
<1>1. /\ turn = "running" /\ card[c].at = "none" /\ Flush(c) /\ UNCHANGED <<agent, renderer, discord, late, blip>>
      /\ card' = [card EXCEPT ![c] = [at |-> "flushing", kind |-> kind, tools |-> InFlightTools(items), turn |-> begun]]
  BY DEF CardBegins
<1> QED
  BY <1>1, CardTyped

LEMMA NextTooled ==
    ASSUME TimelineSound, Tooled, [TimelineNext]_timelineVars
    PROVE  Tooled'
<1> USE DEF TimelineSound
<1>1. CASE Said
  <2>1. Grows(items, items', {}, Fresh) /\ UNCHANGED <<tool, carried, turn, card>>
    BY <1>1, SaidIs DEF Happens
  <2>2. CardsAsBefore
    BY <2>1 DEF CardsAsBefore
  <2> QED
    BY <2>1, <2>2, SaidTooled
<1>2. ASSUME NEW t \in Tools, ToolStart(t) \/ ToolComplete(t) PROVE Tooled'
  BY <1>2, ToolStartTooled, ToolCompleteTooled
<1>3. CASE TurnBegins
  BY <1>3, ToolsStay DEF TurnBegins, CardsAsBefore, renderer
<1>4. CASE RendererStarts
  <2>1. turn = "preparing" /\ items' = <<>> /\ UNCHANGED <<tool, card>>
    BY <1>4 DEF RendererStarts
  <2>2. \A t \in Tools : At(items', "tool", t) = {} /\ tool'[t] \notin {"running", "sealed", "beyond"}
    BY <2>1 DEF At, Tooled
  <2> QED
    BY <2>1, <2>2 DEF Tooled
<1>5. CASE FinalFlush
  <2>1. UNCHANGED <<items, card>> /\ \A t \in Tools : tool'[t] = IF tool[t] = "new" THEN "new" ELSE "done"
    BY <1>5 DEF FinalFlush, renderer
  <2> QED
    BY <2>1 DEF Tooled, At
<1>6. CASE Dispose
  BY <1>6, ToolsStay DEF Dispose, CardsAsBefore, renderer
<1>7. CASE TimerFires
  BY <1>7, ToolsStay DEF TimerFires, CardsAsBefore, agent, renderer
<1>8. ASSUME NEW c \in Cards, CardPosted(c) PROVE Tooled'
  <2>1. card' = [card EXCEPT ![c].at = "over"] /\ UNCHANGED <<turn, tool, carried>>
        /\ (items' = items \/ Grows(items, items', {}, Fresh))
    BY <1>8, CardPostedIs DEF agent
  <2>2. CardsAsBefore
    BY <2>1, CardMoves
  <2> QED
    BY <2>1, <2>2, ToolsStay, SaidTooled
<1>9. ASSUME NEW c \in Cards, NEW kind \in Kinds, CardBegins(c, kind) PROVE Tooled'
  <2>1. /\ UNCHANGED <<turn, tool, carried, items>> /\ card'[c].tools = InFlightTools(items)
        /\ \A d \in Cards : d # c => card'[d] = card[d]
    BY <1>9, CardBeginsIs DEF agent, renderer
  <2>2. \A t \in Tools : tool[t] = "running" => t \in InFlightTools(items)
    BY DEF Tooled, InFlightTools
  <2> QED
    BY <2>1, <2>2 DEF Tooled, At
<1>10. CASE WriteBegins
  <2> DEFINE by == Head(chain).by
  <2>1. write.pc = "none" /\ chain # <<>> /\ chain' = Tail(chain)
    BY <1>10, WriteBeginsIs
  <2>2. by \in Askers /\ Waiting(by)
    BY <2>1, TailIs, HeadWaits DEF Lined
  <2>3. by \in Cards => card[by].at = "flushing"
    BY <2>2 DEF Lined
  <2> HIDE DEF by
  <2>4. CASE UNCHANGED <<turn, tool, card, renderer, exists, epoch, latest, armed>>
    BY <2>4, ToolsStay DEF CardsAsBefore, renderer
  <2>5. CASE Resumed(by)
    BY <2>2, <2>3, <2>5, ResumedTooled
  <2> QED
    BY <1>10, <2>4, <2>5, WriteBeginsIs DEF by
<1>11. CASE Write
  <2>1. write.pc # "none" /\ (Over \/ \E state \in WriteStates, k \in Nat : Awaits(state, k))
    BY <1>11, WriteStepGoes DEF WriteGoes
  <2>2. CASE Over
    <3>1. Resumed(write.by) /\ write.by \in Askers /\ Waiting(write.by)
      BY <2>1, <2>2, OverIs, WriteTyped DEF Waiting
    <3>2. write.by \in Cards => card[write.by].at = "flushing"
      BY <3>1 DEF Lined
    <3> QED
      BY <3>1, <3>2, ResumedTooled
  <2>3. ASSUME NEW state \in WriteStates, NEW k \in Nat, Awaits(state, k) PROVE Tooled'
    BY <2>3, ToolsStay DEF Awaits, CardsAsBefore, agent, renderer
  <2> QED
    BY <2>1, <2>2, <2>3
<1>12. ASSUME NEW i \in DOMAIN thread, MessageDeleted(i) PROVE Tooled'
  BY <1>12, ToolsStay DEF MessageDeleted, CardsAsBefore, agent, renderer
<1>13. CASE UNCHANGED timelineVars
  BY <1>13, ToolsStay DEF timelineVars, CardsAsBefore, agent, renderer
<1> QED
  BY <1>1, <1>2, <1>3, <1>4, <1>5, <1>6, <1>7, <1>8, <1>9, <1>10, <1>11, <1>12, <1>13 DEF TimelineNext, Said

\* The actions that end a call.
LEMMA WhoEndsACall ==
    ASSUME TimelineSound, Tooled, TimelineNext, NEW t \in Tools, tool[t] \in {"running", "sealed"}, tool'[t] = "done",
           turn' = "running"
    PROVE  ToolComplete(t)
<1>1. TimelineTypeOK /\ "done" \notin {"running", "sealed"}
  BY DEF TimelineSound
<1>2. CASE Said
  BY <1>1, <1>2, SaidIs
<1>3. ASSUME NEW s \in Tools, ToolStart(s) PROVE FALSE
  <2>1. tool' = [tool EXCEPT ![s] = IF Unseen THEN "beyond" ELSE "running"]
    BY <1>3 DEF ToolStart
  <2>2. tool'[t] \in {"beyond", "running"} \/ tool'[t] = tool[t]
    BY <1>1, <2>1 DEF TimelineTypeOK
  <2> QED
    BY <2>2
<1>4. ASSUME NEW s \in Tools, ToolComplete(s) PROVE ToolComplete(t)
  <2>1. tool' = [tool EXCEPT ![s] = "done"]
    BY <1>4 DEF ToolComplete
  <2>2. s = t
    BY <1>1, <2>1 DEF TimelineTypeOK
  <2> QED
    BY <1>4, <2>2
<1>5. CASE TurnBegins \/ RendererStarts \/ FinalFlush \/ Dispose \/ TimerFires
  BY <1>5 DEF TurnBegins, RendererStarts, FinalFlush, Dispose, TimerFires, agent
<1>6. ASSUME NEW c \in Cards, CardPosted(c) \/ \E kind \in Kinds : CardBegins(c, kind) PROVE FALSE
  BY <1>6 DEF CardPosted, CardBegins, agent
<1>7. ASSUME NEW by \in Askers, Resumed(by) PROVE FALSE
  <2>1. CASE by \in Cards /\ Sealed(by)
    <3>1. tool'[t] = CASE tool[t] = "running" -> "sealed"
                       [] tool[t] = "sealed" -> "beyond"
                       [] OTHER -> tool[t]
      BY <2>1, SealedIs
    <3> QED
      BY <3>1
  <2> QED
    BY <1>7, <2>1, ResumedCases
<1>8. CASE WriteBegins
  <2>1. Head(chain).by \in Askers
    BY <1>1, <1>8, WriteBeginsIs, TailIs
  <2> QED
    BY <1>1, <1>7, <1>8, <2>1, WriteBeginsIs
<1>9. CASE Write
  <2>1. write.pc # "none" /\ (Over \/ \E state \in WriteStates, k \in Nat : Awaits(state, k))
    BY <1>9, WriteStepGoes DEF WriteGoes, TimelineSound
  <2>2. ~Over
    BY <1>1, <1>7, OverIs, WriteTyped
  <2> QED
    BY <2>1, <2>2 DEF Awaits, agent
<1>10. ASSUME NEW i \in DOMAIN thread, MessageDeleted(i) PROVE FALSE
  BY <1>10 DEF MessageDeleted, agent
<1> QED
  BY <1>2, <1>3, <1>4, <1>5, <1>6, <1>8, <1>9, <1>10 DEF TimelineNext, Said

LEMMA InitTooled == ASSUME TimelineInit PROVE Tooled
<1> QED
  BY DEF TimelineInit, Tooled, At

\* A call that ends shows its name, on either side of the card that its start
\* was sealed above: the renderer still has its start, or the card has carried
\* the name over to the block below it.
THEOREM ToolsKeepTheirNames == TimelineSpec => ToolsAreNamed
<1> DEFINE KeepsName(t) ==
             tool[t] \in {"running", "sealed"} /\ tool'[t] = "done" /\ turn' = "running"
                 => \E i \in DOMAIN items' :
                        items'[i].kind = "tool" /\ items'[i].id = t /\ items'[i].v = 2 /\ items'[i].named
<1>1. TimelineInit => Tooled
  BY InitTooled
<1>2. TimelineSound /\ Tooled /\ [TimelineNext]_timelineVars => Tooled'
  BY NextTooled
<1>3. ASSUME TimelineSound, Tooled, TimelineNext, NEW t \in Tools,
             tool[t] \in {"running", "sealed"}, tool'[t] = "done", turn' = "running"
      PROVE  \E i \in DOMAIN items' :
                 items'[i].kind = "tool" /\ items'[i].id = t /\ items'[i].v = 2 /\ items'[i].named
  <2>1. ToolComplete(t)
    BY <1>3, WhoEndsACall
  <2>2. t \in carried /\ \A i \in At(items, "tool", t) : items[i].named
    BY <1>3 DEF Tooled
  <2> QED
    BY <1>3, <2>1, <2>2, ToolCompleteGrows DEF TimelineSound
<1>4. TimelineSound /\ Tooled /\ [TimelineNext]_timelineVars => [\A t \in Tools : KeepsName(t)]_timelineVars
  BY <1>3
<1> HIDE DEF TimelineSound, Tooled, KeepsName
<1>5. TimelineSpec => [](TimelineSound /\ Tooled)
  BY <1>1, <1>2, SoundAlways, PTL DEF TimelineSpec
<1>6. TimelineSpec => [][\A t \in Tools : KeepsName(t)]_timelineVars
  BY <1>4, <1>5, PTL DEF TimelineSpec
<1> QED
  BY <1>6 DEF ToolsAreNamed, KeepsName

-----------------------------------------------------------------------------
(* Whose timeline it is.                                                    *)

LateWaits == armed \/ \E i \in DOMAIN chain : chain[i].epoch = epoch

\* The transport holds what the renderer has made of this block, or nothing if
\* that is empty; what it has not written yet is to be flushed.  A turn has its
\* entry, and without one nothing happens any more.
Owned ==
    /\ born <= epoch
    /\ turn = "running" => born = epoch
    /\ turn = "preparing" => born # epoch /\ latest = Nil
    /\ exists \/ turn = "ended" \/ (turn = "idle" /\ begun = 0)
    /\ exists /\ latest # Nil => born = epoch /\ latest = items
    /\ exists /\ latest = Nil => Rendered = <<>> /\ ~late
    /\ Apart(items, {born})
    /\ late /\ exists => LateWaits

LEMMA NilIs == \A s \in Seq(Items) : s # Nil
<1> QED
  BY NilIsNoTimeline

LEMMA NumbersAre ==
    ASSUME TimelineTypeOK
    PROVE  epoch \in Nat /\ born \in Nat /\ begun \in Nat /\ write.epoch \in Nat
<1>1. write.epoch \in Epochs
  BY WriteTyped
<1>2. epoch \in Epochs /\ born \in Epochs /\ begun \in 0 .. MaxTurns /\ MaxTurns \in Nat
  BY TimelineAssumption DEF TimelineTypeOK
<1>3. \A e \in Epochs : e \in Nat
  BY EpochsAre
<1>4. begun \in Nat
  BY <1>2
<1> QED
  BY <1>1, <1>2, <1>3, <1>4

\* Text that is rendered in a block is of that block.
LEMMA GrowsApart ==
    ASSUME Apart(items, {epoch}), NEW these, NEW news, Grows(items, items', these, news),
           \A x \in news : x.kind = "text" => x.id = epoch
    PROVE  Apart(items', {epoch})
<1>1. ASSUME NEW j \in DOMAIN items', items'[j].kind = "text" PROVE items'[j].id \in {epoch}
  <2>1. CASE items'[j] \in news
    BY <1>1, <2>1
  <2>2. CASE \E i \in DOMAIN items : Like(items'[j], items[i], these)
    BY <1>1, <2>2 DEF Like, Apart
  <2> QED
    BY <2>1, <2>2 DEF Grows
<1> QED
  BY <1>1 DEF Apart

LEMMA RenderOwned ==
    ASSUME TimelineTypeOK, Owned, born = epoch, turn # "preparing",
           items' \in Seq(Items), Apart(items', {epoch}),
           exists' = TRUE, latest' = items', armed' = TRUE, late' = TRUE,
           UNCHANGED <<epoch, turn, born, begun>>
    PROVE  Owned'
<1>1. latest' # Nil
  BY NilIs
<1> QED
  BY <1>1 DEF Owned, LateWaits, Apart

LEMMA InTimeIs ==
    ASSUME EarlyTodos = FALSE, Owned, InTime
    PROVE  born = epoch /\ exists /\ turn # "preparing"
<1> QED
  BY DEF InTime, Owned, Leftover

LEMMA SaidOwned ==
    ASSUME EarlyTodos = FALSE, TimelineSound, Owned, Said
    PROVE  Owned'
<1>1. Happens /\ InTime /\ Grows(items, items', {}, Fresh)
  BY SaidIs
<1>2. born = epoch /\ turn # "preparing" /\ items' \in Seq(Items)
  BY <1>1, InTimeIs DEF Grows
<1>3. Apart(items', {epoch})
  <2>1. \A x \in Fresh : x.kind = "text" => x.id = epoch
    BY DEF Fresh
  <2> QED
    BY <1>1, <1>2, <2>1, GrowsApart DEF Owned
<1> QED
  BY <1>1, <1>2, <1>3, RenderOwned DEF Happens, TimelineSound

LEMMA ToolOwned ==
    ASSUME TimelineSound, Owned, NEW t \in Tools, ToolStart(t) \/ ToolComplete(t)
    PROVE  Owned'
<1>1. turn = "running" /\ Happens
  BY AppliedIs DEF ToolStart, ToolComplete
<1>2. born = epoch
  BY <1>1 DEF Owned
<1>3. PICK these, x : Grows(items, items', these, {x}) /\ x.kind = "tool"
  <2>1. CASE ToolStart(t)
    <3>1. Item("tool", t, 1).kind = "tool"
      BY DEF Item
    <3> QED
      BY <2>1, <3>1, ToolStartGrows DEF TimelineSound
  <2>2. CASE ToolComplete(t)
    <3> DEFINE new == [Item("tool", t, 2) EXCEPT !.named = t \in carried]
    <3>1. Grows(items, items', {t}, {new})
      BY <2>2, ToolCompleteGrows DEF TimelineSound
    <3>2. new.kind = "tool"
      BY DEF Item
    <3> HIDE DEF new
    <3> QED
      BY <3>1, <3>2
  <2> QED
    BY <2>1, <2>2
<1>4. items' \in Seq(Items) /\ Apart(items', {epoch})
  <2>1. \A y \in {x} : y.kind = "text" => y.id = epoch
    BY <1>3
  <2>2. Apart(items, {epoch})
    BY <1>2 DEF Owned
  <2>3. items' \in Seq(Items)
    BY <1>3 DEF Grows
  <2> QED
    BY <1>3, <2>1, <2>2, <2>3, GrowsApart
<1> QED
  BY <1>1, <1>2, <1>4, RenderOwned DEF Happens, TimelineSound

LEMMA TurnBeginsOwned == ASSUME TimelineSound, Owned, TurnBegins PROVE Owned'
<1>1. /\ turn' = "preparing" /\ begun' = begun + 1 /\ exists' = TRUE /\ epoch' = epoch + 1 /\ latest' = Nil
      /\ late' = FALSE /\ UNCHANGED <<items, born>>
  BY DEF TurnBegins, Reset, renderer
<1>2. born' # epoch' /\ born' <= epoch'
  BY <1>1, NumbersAre DEF TimelineSound, Owned
<1> QED
  BY <1>1, <1>2 DEF Owned, Rendered, Apart

LEMMA RendererStartsOwned == ASSUME TimelineSound, Owned, RendererStarts PROVE Owned'
<1>1. /\ turn = "preparing" /\ turn' = "running" /\ items' = <<>> /\ born' = epoch
      /\ UNCHANGED <<begun, exists, epoch, latest, late>>
  BY DEF RendererStarts, transport
<1>2. exists /\ latest = Nil /\ ~late
  BY <1>1 DEF Owned
<1>3. born' <= epoch'
  BY <1>1, NumbersAre DEF TimelineSound
<1> QED
  BY <1>1, <1>2, <1>3 DEF Owned, Rendered, Apart

LEMMA DisposeOwned == ASSUME Owned, Dispose PROVE Owned'
<1>1. turn' = "ended" /\ exists' = FALSE /\ UNCHANGED <<items, born, epoch>>
  BY DEF Dispose, renderer
<1> QED
  BY <1>1 DEF Owned, Apart

\* What is flushed waits in the chain instead of at the timer.
LEMMA FlushOwned ==
    ASSUME TimelineTypeOK, Owned, NEW by \in Askers, Flush(by), UNCHANGED <<items, born, begun, late>>,
           turn' = turn \/ (turn \in {"preparing", "running"} /\ turn' = "ending")
    PROVE  Owned'
<1>1. Len(chain) + 1 \in DOMAIN chain' /\ chain'[Len(chain) + 1].epoch = epoch'
  <2>1. /\ Len(chain) \in Nat /\ DOMAIN chain' = 1 .. Len(chain) + 1
        /\ chain'[Len(chain) + 1] = [by |-> by, epoch |-> epoch]
    BY FlushIs
  <2> QED
    BY <2>1 DEF Flush
<1>2. LateWaits'
  BY <1>1 DEF LateWaits
<1>3. UNCHANGED <<exists, epoch, latest>>
  BY DEF Flush
<1> QED
  BY <1>2, <1>3 DEF Owned, Rendered, Apart

LEMMA CardPostedOwned == ASSUME TimelineSound, Owned, NEW c \in Cards, CardPosted(c) PROVE Owned'
<1>1. UNCHANGED <<turn, begun, born>>
  BY CardPostedIs DEF TimelineSound, agent
<1>2. CASE UNCHANGED <<items, transport, late>>
  BY <1>1, <1>2 DEF Owned, LateWaits, Rendered, Apart, transport
<1>3. CASE turn = "running" /\ Render(items') /\ Grows(items, items', {}, Fresh)
  <2>1. born = epoch /\ items' \in Seq(Items)
    BY <1>3 DEF Owned, Grows
  <2>2. Apart(items', {epoch})
    <3>1. \A x \in Fresh : x.kind = "text" => x.id = epoch
      BY DEF Fresh
    <3> QED
      BY <1>3, <2>1, <3>1, GrowsApart DEF Owned
  <2> QED
    BY <1>1, <1>3, <2>1, <2>2, RenderOwned DEF Render, TimelineSound
<1> QED
  BY <1>2, <1>3, CardPostedIs DEF TimelineSound

\* Whoever goes on leaves what is to be flushed, or starts a new block.
LEMMA ResumedOwned ==
    ASSUME TimelineSound, Owned, NEW by \in Askers, Resumed(by), by \in Cards => card[by].at = "flushing",
           begun' = begun,
           exists /\ late /\ UNCHANGED <<exists, epoch, latest, armed, late>> => LateWaits'
    PROVE  Owned'
<1>1. CASE /\ UNCHANGED <<tool, card, renderer, exists, epoch, latest, armed, late>>
           /\ turn' = turn \/ (by = "turn" /\ turn = "ending" /\ turn' = "idle")
  BY <1>1 DEF Owned, Rendered, Apart, renderer
<1>2. CASE by \in Cards /\ Sealed(by)
  <2>1. /\ exists' = TRUE /\ epoch' = epoch + 1 /\ latest' = Nil /\ late' = FALSE
        /\ items' = <<>> /\ born' = epoch + 1 /\ turn' = turn
    BY <1>2, SealedIs
  <2>2. turn # "preparing"
    BY <1>2 DEF TimelineSound, Lined
  <2>3. born' <= epoch' /\ born' = epoch'
    BY <2>1, NumbersAre DEF TimelineSound
  <2> QED
    BY <2>1, <2>2, <2>3 DEF Owned, Rendered, Apart
<1>3. CASE /\ by \in Cards /\ card' = [card EXCEPT ![by].at = "over"]
           /\ UNCHANGED <<turn, tool, renderer, exists, epoch, latest, armed, late>>
  BY <1>3 DEF Owned, Rendered, Apart, renderer
<1> QED
  BY <1>1, <1>2, <1>3, ResumedCases

LEMMA WriteBeginsOwned == ASSUME TimelineSound, Owned, WriteBegins PROVE Owned'
<1> DEFINE by == Head(chain).by
<1>1. TimelineTypeOK /\ write.pc = "none" /\ chain # <<>> /\ chain' = Tail(chain) /\ begun' = begun
  BY WriteBeginsIs DEF TimelineSound
<1>2. by \in Askers /\ (by \in Cards => card[by].at = "flushing")
  BY <1>1, TailIs, HeadWaits DEF TimelineSound, Lined
<1>3. CASE late' = FALSE /\ UNCHANGED <<turn, tool, card, renderer, exists, epoch, latest, armed>>
  BY <1>1, <1>3 DEF Owned, Rendered, Apart, renderer
<1>4. CASE ~(exists /\ Head(chain).epoch = epoch /\ latest # Nil) /\ Resumed(by)
  <2>1. ASSUME exists, late, epoch' = epoch, armed' = armed PROVE LateWaits'
    <3>1. latest # Nil /\ LateWaits
      BY <2>1 DEF Owned
    <3>2. Head(chain).epoch # epoch
      BY <1>4, <2>1, <3>1
    <3>3. ASSUME NEW i \in DOMAIN chain, chain[i].epoch = epoch PROVE \E j \in DOMAIN chain' : chain'[j].epoch = epoch
      <4>1. /\ Len(chain) \in Nat \ {0} /\ DOMAIN chain = 1 .. Len(chain) /\ DOMAIN chain' = 1 .. Len(chain) - 1
            /\ \A j \in 1 .. Len(chain) - 1 : chain'[j] = chain[j + 1]
            /\ Head(chain) = chain[1]
        BY <1>1, TailIs
      <4>2. i # 1
        BY <3>2, <3>3, <4>1
      <4>3. i - 1 \in 1 .. Len(chain) - 1 /\ (i - 1) + 1 = i
        BY <4>1, <4>2
      <4>4. chain'[i - 1] = chain[i]
        BY <4>1, <4>3
      <4> QED
        BY <3>3, <4>1, <4>3, <4>4
    <3> QED
      BY <2>1, <3>1, <3>3 DEF LateWaits
  <2> HIDE DEF by
  <2> QED
    BY <1>1, <1>2, <1>4, <2>1, ResumedOwned
<1> QED
  BY <1>1, <1>3, <1>4, WriteBeginsIs

LEMMA WriteOwned == ASSUME TimelineSound, Owned, Write PROVE Owned'
<1>1. write.pc # "none" /\ (Over \/ \E state \in WriteStates, k \in Nat : Awaits(state, k))
  BY WriteStepGoes DEF WriteGoes, TimelineSound
<1>2. CASE Over
  <2>1. Resumed(write.by) /\ write.by \in Askers /\ Waiting(write.by) /\ UNCHANGED <<begun, chain>>
    BY <1>1, <1>2, OverIs, WriteTyped DEF Waiting, TimelineSound
  <2>2. write.by \in Cards => card[write.by].at = "flushing"
    BY <2>1 DEF TimelineSound, Lined
  <2>3. late /\ exists => LateWaits
    BY DEF Owned
  <2>4. exists /\ late /\ UNCHANGED <<exists, epoch, latest, armed, late>> => LateWaits'
    BY <2>1, <2>3 DEF LateWaits
  <2> QED
    BY <2>1, <2>2, <2>4, ResumedOwned
<1>3. ASSUME NEW state \in WriteStates, NEW k \in Nat, Awaits(state, k) PROVE Owned'
  BY <1>3 DEF Awaits, Owned, LateWaits, Rendered, Apart, agent, renderer, transport
<1> QED
  BY <1>1, <1>2, <1>3

LEMMA NextOwned ==
    ASSUME EarlyTodos = FALSE, TimelineSound, Owned, [TimelineNext]_timelineVars
    PROVE  Owned'
<1>1. TimelineTypeOK
  BY DEF TimelineSound
<1>2. ASSUME NEW t \in Tools, ToolStart(t) \/ ToolComplete(t) PROVE Owned'
  BY <1>2, ToolOwned
<1>3. CASE FinalFlush
  <2>1. Flush("turn") /\ "turn" \in Askers /\ UNCHANGED <<items, born, begun, late>>
        /\ turn \in {"preparing", "running"} /\ turn' = "ending"
    BY <1>3 DEF FinalFlush, Askers, renderer
  <2> QED
    BY <1>1, <2>1, FlushOwned
<1>4. CASE TimerFires
  <2>1. Flush("timer") /\ "timer" \in Askers /\ UNCHANGED <<items, born, begun, late, turn>>
    BY <1>4 DEF TimerFires, Askers, agent, renderer
  <2> QED
    BY <1>1, <2>1, FlushOwned
<1>5. ASSUME NEW c \in Cards, NEW kind \in Kinds, CardBegins(c, kind) PROVE Owned'
  <2>1. Flush(c) /\ c \in Askers /\ UNCHANGED <<items, born, begun, late, turn>>
    BY <1>1, <1>5, CardBeginsIs DEF Askers, agent, renderer
  <2> QED
    BY <1>1, <2>1, FlushOwned
<1>6. ASSUME NEW i \in DOMAIN thread, MessageDeleted(i) PROVE Owned'
  BY <1>6 DEF MessageDeleted, Owned, LateWaits, Rendered, Apart, agent, renderer, transport
<1>7. CASE UNCHANGED timelineVars
  BY <1>7 DEF timelineVars, Owned, LateWaits, Rendered, Apart, agent, renderer, transport
<1>8. ASSUME NEW c \in Cards, CardPosted(c) PROVE Owned'
  BY <1>8, CardPostedOwned
<1>9. CASE Said \/ TurnBegins \/ RendererStarts \/ Dispose \/ WriteBegins \/ Write
  BY <1>9, SaidOwned, TurnBeginsOwned, RendererStartsOwned, DisposeOwned, WriteBeginsOwned, WriteOwned
<1> QED
  BY <1>2, <1>3, <1>4, <1>5, <1>6, <1>7, <1>8, <1>9 DEF TimelineNext, Said

LEMMA InitOwned == ASSUME TimelineInit PROVE Owned
<1> QED
  BY DEF TimelineInit, Owned, Rendered, Apart

-----------------------------------------------------------------------------
(* Where the messages stand.                                                *)

\* No message and no write is ahead of the block.  The anchors of a block are
\* messages of its own, no two the same; a write has the text of one block; and
\* a message is late only in a block that is over.
Anchored ==
    /\ write.epoch <= epoch
    /\ \A i \in DOMAIN thread : thread[i].epoch <= epoch
    /\ \A e \in Epochs : \A k \in DOMAIN msgIds[e] :
          msgIds[e][k] \in DOMAIN thread /\ ~thread[msgIds[e][k]].card /\ thread[msgIds[e][k]].epoch = e
    /\ \A e \in Epochs : \A j, k \in DOMAIN msgIds[e] : msgIds[e][j] = msgIds[e][k] => j = k
    /\ \A k \in DOMAIN write.chunks : Apart(write.chunks[k], {write.epoch})
    /\ write.pc = "late" => ~StillCurrent /\ \E i \in DOMAIN thread : ~thread[i].card /\ thread[i].epoch = write.epoch

\* An entry that is gone comes back with a new block only.
EpochMoves == epoch' >= epoch /\ (exists' => exists \/ epoch' > epoch)

LEMMA Moves ==
    ASSUME epoch \in Nat, (epoch' = epoch /\ (exists' => exists)) \/ epoch' = epoch + 1
    PROVE  EpochMoves
<1>1. CASE epoch' = epoch /\ (exists' => exists)
  <2>1. epoch' >= epoch
    BY <1>1
  <2> QED
    BY <1>1, <2>1 DEF EpochMoves
<1>2. CASE epoch' = epoch + 1
  <2>1. epoch' >= epoch /\ epoch' > epoch
    BY <1>2
  <2> QED
    BY <2>1 DEF EpochMoves
<1> QED
  BY <1>1, <1>2

LEMMA ResumedMoves == ASSUME TimelineTypeOK, NEW by \in Askers, Resumed(by) PROVE EpochMoves
<1>1. epoch \in Nat
  BY NumbersAre
<1>2. CASE by \in Cards /\ Sealed(by)
  <2>1. epoch' = epoch + 1
    BY <1>2, SealedIs
  <2> QED
    BY <1>1, <2>1, Moves
<1>3. CASE UNCHANGED <<exists, epoch>>
  BY <1>1, <1>3, Moves
<1> QED
  BY <1>2, <1>3, ResumedCases

LEMMA NextMoves ==
    ASSUME EarlyTodos = FALSE, TimelineSound, Owned, [TimelineNext]_timelineVars
    PROVE  EpochMoves
<1>1. TimelineTypeOK /\ epoch \in Nat
  BY NumbersAre DEF TimelineSound
<1>2. CASE Said
  <2>1. Happens /\ InTime
    BY <1>2, SaidIs
  <2>2. exists /\ epoch' = epoch
    BY <2>1, InTimeIs DEF Happens
  <2> QED
    BY <1>1, <2>2, Moves
<1>3. ASSUME NEW t \in Tools, ToolStart(t) \/ ToolComplete(t) PROVE EpochMoves
  <2>1. turn = "running" /\ Happens
    BY <1>3, AppliedIs DEF ToolStart, ToolComplete
  <2>2. exists /\ epoch' = epoch
    BY <2>1 DEF Happens, Owned
  <2> QED
    BY <1>1, <2>2, Moves
<1>4. CASE TurnBegins
  <2>1. epoch' = epoch + 1
    BY <1>4 DEF TurnBegins, Reset
  <2> QED
    BY <1>1, <2>1, Moves
<1>5. CASE RendererStarts \/ FinalFlush \/ Dispose \/ TimerFires
  <2>1. epoch' = epoch /\ (exists' => exists)
    BY <1>5 DEF RendererStarts, FinalFlush, Dispose, TimerFires, Flush, transport
  <2> QED
    BY <1>1, <2>1, Moves
<1>6. ASSUME NEW c \in Cards, CardPosted(c) PROVE EpochMoves
  <2>1. UNCHANGED transport \/ (turn = "running" /\ Render(items'))
    BY <1>1, <1>6, CardPostedIs
  <2>2. epoch' = epoch /\ (exists' => exists)
    BY <2>1 DEF Render, Owned, transport
  <2> QED
    BY <1>1, <2>2, Moves
<1>7. ASSUME NEW c \in Cards, NEW kind \in Kinds, CardBegins(c, kind) PROVE EpochMoves
  <2>1. UNCHANGED <<exists, epoch>>
    BY <1>7 DEF CardBegins, Flush
  <2> QED
    BY <1>1, <2>1, Moves
<1>8. CASE WriteBegins
  <2>1. Head(chain).by \in Askers
    BY <1>1, <1>8, WriteBeginsIs, TailIs
  <2>2. UNCHANGED <<exists, epoch>> \/ Resumed(Head(chain).by)
    BY <1>1, <1>8, WriteBeginsIs
  <2> QED
    BY <1>1, <2>1, <2>2, ResumedMoves, Moves
<1>9. CASE Write
  <2>1. write.pc # "none" /\ (Over \/ \E state \in WriteStates, k \in Nat : Awaits(state, k))
    BY <1>9, WriteStepGoes DEF WriteGoes, TimelineSound
  <2>2. CASE Over
    BY <1>1, <2>2, OverIs, WriteTyped, ResumedMoves
  <2>3. CASE UNCHANGED <<exists, epoch>>
    BY <1>1, <2>3, Moves
  <2> QED
    BY <2>1, <2>2, <2>3 DEF Awaits, transport
<1>10. ASSUME NEW i \in DOMAIN thread, MessageDeleted(i) PROVE EpochMoves
  <2>1. UNCHANGED <<exists, epoch>>
    BY <1>10 DEF MessageDeleted, transport
  <2> QED
    BY <1>1, <2>1, Moves
<1>11. CASE UNCHANGED timelineVars
  <2>1. UNCHANGED <<exists, epoch>>
    BY <1>11 DEF timelineVars, transport
  <2> QED
    BY <1>1, <2>1, Moves
<1> QED
  BY <1>2, <1>3, <1>4, <1>5, <1>6, <1>7, <1>8, <1>9, <1>10, <1>11 DEF TimelineNext, Said

LEMMA OverStaysOver ==
    ASSUME TimelineTypeOK, Anchored, EpochMoves, epoch' \in Nat, write'.epoch = write.epoch, ~StillCurrent
    PROVE  ~StillCurrent'
<1>1. epoch \in Nat /\ write.epoch \in Nat /\ write.epoch <= epoch
  BY NumbersAre DEF Anchored
<1> QED
  BY <1>1 DEF EpochMoves, StillCurrent

\* The messages are the same ones; what they say may change.
SameMessages ==
    /\ DOMAIN thread' = DOMAIN thread
    /\ \A i \in DOMAIN thread :
          /\ thread'[i].card = thread[i].card /\ thread'[i].epoch = thread[i].epoch
          /\ thread'[i].live => thread[i].live
          /\ thread[i].stray => thread'[i].stray
          /\ thread'[i].content = thread[i].content \/ Apart(thread'[i].content, {thread[i].epoch})

LEMMA AnchoredStays ==
    ASSUME TimelineSound, Anchored, EpochMoves, epoch' \in Nat, SameMessages,
           \A e \in Epochs : \A k \in DOMAIN msgIds'[e] : k \in DOMAIN msgIds[e] /\ msgIds'[e][k] = msgIds[e][k],
           \/ write' = write
           \/ /\ write'.epoch <= epoch' /\ write'.pc # "late"
              /\ \A k \in DOMAIN write'.chunks : Apart(write'.chunks[k], {write'.epoch})
    PROVE  Anchored'
<1>1. TimelineTypeOK /\ epoch \in Nat /\ write.epoch \in Nat /\ \A i \in DOMAIN thread : thread[i].epoch \in Nat
  <2>1. TimelineTypeOK
    BY DEF TimelineSound
  <2>2. \A i \in DOMAIN thread : thread[i].epoch \in Epochs
    BY <2>1, MessageTyped
  <2>3. \A e \in Epochs : e \in Nat
    BY EpochsAre
  <2> QED
    BY <2>1, <2>2, <2>3, NumbersAre
<1>2. ASSUME NEW i \in DOMAIN thread' PROVE thread'[i].epoch <= epoch'
  <2>1. i \in DOMAIN thread /\ thread'[i].epoch = thread[i].epoch
    BY DEF SameMessages
  <2>2. thread[i].epoch <= epoch /\ epoch <= epoch' /\ thread[i].epoch \in Nat
    BY <1>1, <2>1 DEF Anchored, EpochMoves
  <2> QED
    BY <1>1, <2>1, <2>2
<1>3. /\ \A e \in Epochs : \A k \in DOMAIN msgIds'[e] :
            msgIds'[e][k] \in DOMAIN thread' /\ ~thread'[msgIds'[e][k]].card /\ thread'[msgIds'[e][k]].epoch = e
      /\ \A e \in Epochs : \A j, k \in DOMAIN msgIds'[e] : msgIds'[e][j] = msgIds'[e][k] => j = k
  <2>1. ASSUME NEW e \in Epochs, NEW k \in DOMAIN msgIds'[e]
        PROVE  msgIds'[e][k] \in DOMAIN thread' /\ ~thread'[msgIds'[e][k]].card /\ thread'[msgIds'[e][k]].epoch = e
    <3>1. msgIds[e][k] \in DOMAIN thread /\ ~thread[msgIds[e][k]].card /\ thread[msgIds[e][k]].epoch = e
      BY DEF Anchored
    <3>2. msgIds'[e][k] = msgIds[e][k]
      OBVIOUS
    <3> QED
      BY <3>1, <3>2 DEF SameMessages
  <2>2. ASSUME NEW e \in Epochs, NEW j \in DOMAIN msgIds'[e], NEW k \in DOMAIN msgIds'[e],
               msgIds'[e][j] = msgIds'[e][k]
        PROVE  j = k
    BY <2>2 DEF Anchored
  <2> QED
    BY <2>1, <2>2
<1>4. write'.epoch <= epoch'
  BY <1>1 DEF Anchored, EpochMoves
<1>5. \A k \in DOMAIN write'.chunks : Apart(write'.chunks[k], {write'.epoch})
  BY DEF Anchored
<1>6. ASSUME write'.pc = "late"
      PROVE  ~StillCurrent' /\ \E i \in DOMAIN thread' : ~thread'[i].card /\ thread'[i].epoch = write'.epoch
  <2>1. write' = write
    BY <1>6
  <2>2. ~StillCurrent /\ \E i \in DOMAIN thread : ~thread[i].card /\ thread[i].epoch = write.epoch
    BY <1>6, <2>1 DEF Anchored
  <2>3. ~StillCurrent'
    BY <1>1, <2>1, <2>2, OverStaysOver
  <2> QED
    BY <2>1, <2>2, <2>3 DEF SameMessages
<1> QED
  BY <1>2, <1>3, <1>4, <1>5, <1>6 DEF Anchored

\* The messages a block has posted.
Own(e) == {i \in DOMAIN thread : ~thread[i].card /\ thread[i].epoch = e}

LEMMA ApartStays ==
    ASSUME TimelineTypeOK, BlocksKeepApart, SameMessages, write.pc = "late" => write' = write
    PROVE  BlocksKeepApart'
<1>1. Own(write.epoch)' = {i \in DOMAIN thread' : ~thread'[i].card /\ thread'[i].epoch = write'.epoch}
  BY DEF Own
<1>2. write' = write => LateMessage' = LateMessage
  <2>1. write' = write => {i \in DOMAIN thread' : ~thread'[i].card /\ thread'[i].epoch = write'.epoch}
                         = {i \in DOMAIN thread : ~thread[i].card /\ thread[i].epoch = write.epoch}
    BY DEF SameMessages
  <2> QED
    BY <2>1 DEF LateMessage
<1>3. ASSUME NEW i \in DOMAIN thread', thread'[i].live, ~thread'[i].card, ~thread'[i].stray
      PROVE  /\ \A j \in 1 .. i - 1 : thread'[j].card /\ thread'[j].epoch > thread'[i].epoch
                    => write'.pc = "late" /\ i = LateMessage'
             /\ \A k \in DOMAIN thread'[i].content :
                    thread'[i].content[k].kind = "text" => thread'[i].content[k].id = thread'[i].epoch
  <2>1. i \in DOMAIN thread /\ thread[i].live /\ ~thread[i].card /\ ~thread[i].stray
    BY <1>3 DEF SameMessages
  <2>2. \A k \in DOMAIN thread'[i].content :
            thread'[i].content[k].kind = "text" => thread'[i].content[k].id = thread'[i].epoch
    BY <2>1 DEF SameMessages, BlocksKeepApart, Apart
  <2>3. ASSUME NEW j \in 1 .. i - 1, thread'[j].card, thread'[j].epoch > thread'[i].epoch
        PROVE  write'.pc = "late" /\ i = LateMessage'
    <3>1. j \in DOMAIN thread => thread[j].card /\ thread[j].epoch > thread[i].epoch
      BY <2>1, <2>3 DEF SameMessages
    <3>2. CASE j \in DOMAIN thread
      <4>1. write.pc = "late" /\ i = LateMessage
        BY <2>1, <2>3, <3>1, <3>2 DEF BlocksKeepApart
      <4> QED
        BY <1>2, <4>1
    <3>3. j \in DOMAIN thread
      <4>1. Len(thread) \in Nat /\ DOMAIN thread = 1 .. Len(thread)
        BY MessageTyped
      <4> QED
        BY <2>1, <4>1
    <3> QED
      BY <3>2, <3>3
  <2> QED
    BY <2>2, <2>3
<1> QED
  BY <1>3 DEF BlocksKeepApart

LEMMA NothingMoves == ASSUME UNCHANGED thread PROVE SameMessages
<1> QED
  BY DEF SameMessages

LEMMA EpochIsNext == ASSUME TimelineTypeOK' PROVE epoch' \in Nat
<1>1. \A e \in Epochs : e \in Nat
  BY EpochsAre
<1> QED
  BY <1>1 DEF TimelineTypeOK

\* Where blocks are kept apart.
Parted == TimelineSound /\ Owned /\ Anchored /\ BlocksKeepApart

LEMMA QuietKeepsApart ==
    ASSUME Parted, EpochMoves, epoch' \in Nat, UNCHANGED <<thread, msgIds, write>>
    PROVE  Anchored' /\ BlocksKeepApart'
<1>1. SameMessages
  BY NothingMoves
<1>2. Anchored'
  BY <1>1, AnchoredStays DEF Parted
<1> QED
  BY <1>1, <1>2, ApartStays DEF Parted, TimelineSound

\* A write that goes on has the same text.
GoesOn == Over \/ \E state \in WriteStates \ {"late"}, k \in Nat : Awaits(state, k)

LEMMA GoesOnIs ==
    ASSUME TimelineSound, Anchored, EpochMoves, epoch' \in Nat, write.pc # "none", GoesOn
    PROVE  /\ write'.epoch <= epoch' /\ write'.pc # "late"
           /\ \A k \in DOMAIN write'.chunks : Apart(write'.chunks[k], {write'.epoch})
<1>1. CASE Over
  <2>1. write' = NoWrite
    BY <1>1, OverIs
  <2>2. write'.epoch = 0 /\ write'.chunks = <<>> /\ write'.pc = "none"
    BY <2>1 DEF NoWrite
  <2>3. DOMAIN write'.chunks = {} /\ write'.epoch <= epoch'
    BY <2>2
  <2> QED
    BY <2>2, <2>3
<1>2. ASSUME NEW state \in WriteStates \ {"late"}, NEW k \in Nat, Awaits(state, k)
      PROVE  /\ write'.epoch <= epoch' /\ write'.pc # "late"
             /\ \A i \in DOMAIN write'.chunks : Apart(write'.chunks[i], {write'.epoch})
  <2>1. write'.pc = state /\ write'.epoch = write.epoch /\ write'.chunks = write.chunks
    BY <1>2, AwaitsIs DEF TimelineSound
  <2>2. write.epoch \in Nat /\ epoch \in Nat
    BY NumbersAre DEF TimelineSound
  <2>3. write'.epoch <= epoch'
    BY <2>1, <2>2 DEF Anchored, EpochMoves
  <2> QED
    BY <2>1, <2>3 DEF Anchored
<1> QED
  BY <1>1, <1>2 DEF GoesOn

LEMMA OnwardGoesOn ==
    ASSUME NEW k \in Nat, NEW anchors, Onward(k, anchors)
    PROVE  GoesOn
<1>1. "trim" \in WriteStates \ {"late"} /\ "fetch" \in WriteStates \ {"late"} /\ "send" \in WriteStates \ {"late"}
  BY DEF WriteStates
<1>2. CASE Over
  BY <1>2 DEF GoesOn
<1>3. CASE Awaits("trim", k)
  BY <1>1, <1>3 DEF GoesOn
<1>4. CASE Awaits(IF k \in DOMAIN anchors THEN "fetch" ELSE "send", k)
  <2>1. Awaits("fetch", k) \/ Awaits("send", k)
    BY <1>4
  <2> QED
    BY <1>1, <2>1 DEF GoesOn
<1> QED
  BY <1>2, <1>3, <1>4 DEF Onward

LEMMA ThreadFetchedApart ==
    ASSUME Parted, EpochMoves, epoch' \in Nat, ThreadFetched
    PROVE  Anchored' /\ BlocksKeepApart'
<1>1. write.pc = "thread" /\ UNCHANGED <<msgIds, thread>> /\ (Over \/ Onward(1, Anchors))
  BY DEF ThreadFetched
<1>2. GoesOn
  BY <1>1, OnwardGoesOn DEF GoesOn
<1>3. SameMessages
  BY <1>1, NothingMoves
<1>4. /\ write'.epoch <= epoch' /\ write'.pc # "late"
      /\ \A k \in DOMAIN write'.chunks : Apart(write'.chunks[k], {write'.epoch})
  BY <1>1, <1>2, GoesOnIs DEF Parted
<1> QED
  BY <1>1, <1>3, <1>4, AnchoredStays, ApartStays DEF Parted, TimelineSound

LEMMA AnchorFetchedApart ==
    ASSUME Parted, EpochMoves, epoch' \in Nat, AnchorFetched
    PROVE  Anchored' /\ BlocksKeepApart'
<1>1. write.pc = "fetch" /\ UNCHANGED <<msgIds, thread>>
  BY DEF AnchorFetched
<1>2. Over \/ Onward(write.at + 1, Anchors) \/ Awaits("edit", write.at) \/ Awaits("send", write.at)
  BY DEF AnchorFetched
<1>3. write.at \in Nat /\ write.at + 1 \in Nat
  BY WriteTyped DEF Parted, TimelineSound
<1>4. GoesOn
  <2>1. "edit" \in WriteStates \ {"late"} /\ "send" \in WriteStates \ {"late"}
    BY DEF WriteStates
  <2> QED
    BY <1>2, <1>3, <2>1, OnwardGoesOn DEF GoesOn
<1>5. SameMessages
  BY <1>1, NothingMoves
<1>6. /\ write'.epoch <= epoch' /\ write'.pc # "late"
      /\ \A k \in DOMAIN write'.chunks : Apart(write'.chunks[k], {write'.epoch})
  BY <1>1, <1>4, GoesOnIs DEF Parted
<1> QED
  BY <1>1, <1>5, <1>6, AnchoredStays, ApartStays DEF Parted, TimelineSound

\* An edit gives a message the text of its own block.
LEMMA EditedApart ==
    ASSUME Parted, EpochMoves, epoch' \in Nat, Edited
    PROVE  Anchored' /\ BlocksKeepApart'
<1> DEFINE edited == [thread EXCEPT ![Anchor].content = write.chunks[write.at]]
<1>1. /\ write.pc = "edit" /\ UNCHANGED msgIds /\ (thread' = thread \/ thread' = edited)
      /\ Onward(write.at + 1, Anchors) \/ Awaits("send", write.at)
  BY DEF Edited
<1>2. write.at \in Nat /\ write.at + 1 \in Nat /\ write.epoch \in Epochs
  BY WriteTyped DEF Parted, TimelineSound
<1>3. GoesOn
  <2>1. "send" \in WriteStates \ {"late"}
    BY DEF WriteStates
  <2> QED
    BY <1>1, <1>2, <2>1, OnwardGoesOn DEF GoesOn
<1>4. /\ DOMAIN edited = DOMAIN thread
      /\ \A j \in DOMAIN thread : edited[j] =
             IF j = Anchor THEN [thread[j] EXCEPT !.content = write.chunks[write.at]] ELSE thread[j]
  BY <1>1, EditedTyped DEF Parted, TimelineSound
<1>5. Anchor \in DOMAIN thread /\ thread[Anchor].epoch = write.epoch /\ Apart(write.chunks[write.at], {write.epoch})
  <2>1. write.at \in 1 .. Len(write.chunks) /\ write.at \in DOMAIN Anchors
    BY <1>1, AtOneOf DEF Parted, TimelineSound
  <2>2. write.at \in DOMAIN write.chunks
    BY <2>1, WriteTyped DEF Parted, TimelineSound
  <2> QED
    BY <1>2, <2>1, <2>2 DEF Parted, Anchored, Anchors, Anchor
<1>6. thread' = edited => SameMessages
  <2> HIDE DEF edited
  <2>1. ASSUME thread' = edited, NEW i \in DOMAIN thread
        PROVE  /\ thread'[i].card = thread[i].card /\ thread'[i].epoch = thread[i].epoch
               /\ thread'[i].live = thread[i].live /\ thread'[i].stray = thread[i].stray
               /\ thread'[i].content = thread[i].content \/ Apart(thread'[i].content, {thread[i].epoch})
    <3>1. thread[i] \in Messages
      BY MessageTyped DEF Parted, TimelineSound
    <3>2. CASE i = Anchor
      <4>1. thread'[i] = [thread[i] EXCEPT !.content = write.chunks[write.at]]
        BY <1>4, <2>1, <3>2
      <4> QED
        BY <1>5, <3>1, <3>2, <4>1 DEF Messages
    <3>3. CASE i # Anchor
      BY <1>4, <2>1, <3>3
    <3> QED
      BY <3>2, <3>3
  <2> QED
    BY <1>4, <2>1 DEF SameMessages
<1>7. SameMessages
  <2> HIDE DEF edited
  <2> QED
    BY <1>1, <1>6, NothingMoves
<1>8. /\ write'.epoch <= epoch' /\ write'.pc # "late"
      /\ \A k \in DOMAIN write'.chunks : Apart(write'.chunks[k], {write'.epoch})
  BY <1>1, <1>3, GoesOnIs DEF Parted
<1> HIDE DEF edited
<1> QED
  BY <1>1, <1>7, <1>8, AnchoredStays, ApartStays DEF Parted, TimelineSound

\* A message that is posted is the last one.
LEMMA OneMore ==
    ASSUME TimelineTypeOK, NEW m \in Messages, thread' = Append(thread, m)
    PROVE  /\ Len(thread) \in Nat /\ DOMAIN thread = 1 .. Len(thread) /\ DOMAIN thread' = 1 .. Len(thread) + 1
           /\ \A i \in DOMAIN thread : i \in DOMAIN thread' /\ thread'[i] = thread[i]
           /\ thread'[Len(thread) + 1] = m
<1>1. thread \in Seq(Messages)
  BY DiscordTyped
<1>2. Len(thread) \in Nat /\ DOMAIN thread = 1 .. Len(thread)
  BY MessageTyped
<1>3. Len(Append(thread, m)) = Len(thread) + 1 /\ DOMAIN Append(thread, m) = 1 .. Len(thread) + 1
  BY <1>1, <1>2
<1>4. /\ \A i \in 1 .. Len(thread) : Append(thread, m)[i] = thread[i]
      /\ Append(thread, m)[Len(thread) + 1] = m
  BY <1>1, <1>2
<1> QED
  BY <1>2, <1>3, <1>4

LEMMA PostedAnchored ==
    ASSUME Parted, EpochMoves, epoch' \in Nat, NEW m \in Messages, thread' = Append(thread, m), m.epoch <= epoch,
           \A e \in Epochs : \A k \in DOMAIN msgIds'[e] :
               \/ k \in DOMAIN msgIds[e] /\ msgIds'[e][k] = msgIds[e][k]
               \/ msgIds'[e][k] = Len(thread) + 1 /\ ~m.card /\ m.epoch = e
                  /\ \A j \in DOMAIN msgIds'[e] : msgIds'[e][j] = Len(thread) + 1 => j = k,
           write'.epoch <= epoch', \A k \in DOMAIN write'.chunks : Apart(write'.chunks[k], {write'.epoch}),
           write'.pc = "late" => ~StillCurrent' /\ \E i \in DOMAIN thread' : ~thread'[i].card /\ thread'[i].epoch = write'.epoch
    PROVE  Anchored'
<1>1. TimelineTypeOK /\ epoch \in Nat
  BY NumbersAre DEF Parted, TimelineSound
<1>2. /\ Len(thread) \in Nat /\ DOMAIN thread = 1 .. Len(thread) /\ DOMAIN thread' = 1 .. Len(thread) + 1
      /\ \A i \in DOMAIN thread : i \in DOMAIN thread' /\ thread'[i] = thread[i]
      /\ thread'[Len(thread) + 1] = m
  BY <1>1, OneMore
<1>3. ASSUME NEW i \in DOMAIN thread' PROVE thread'[i].epoch <= epoch'
  <2>1. thread'[i] \in Messages /\ thread'[i].epoch <= epoch
    <3>1. CASE i \in DOMAIN thread
      BY <1>1, <1>2, <3>1, MessageTyped DEF Parted, Anchored
    <3>2. CASE i = Len(thread) + 1
      BY <1>2, <3>2
    <3> QED
      BY <1>2, <3>1, <3>2
  <2>2. thread'[i].epoch \in Nat
    <3>1. thread'[i].epoch \in Epochs
      BY <2>1 DEF Messages
    <3> QED
      BY <3>1, EpochsAre
  <2> QED
    BY <1>1, <2>1, <2>2 DEF EpochMoves
<1>4. ASSUME NEW e \in Epochs, NEW k \in DOMAIN msgIds'[e]
      PROVE  msgIds'[e][k] \in DOMAIN thread' /\ ~thread'[msgIds'[e][k]].card /\ thread'[msgIds'[e][k]].epoch = e
  <2>1. CASE k \in DOMAIN msgIds[e] /\ msgIds'[e][k] = msgIds[e][k]
    <3>1. msgIds[e][k] \in DOMAIN thread /\ ~thread[msgIds[e][k]].card /\ thread[msgIds[e][k]].epoch = e
      BY <2>1 DEF Parted, Anchored
    <3> QED
      BY <1>2, <2>1, <3>1
  <2>2. CASE msgIds'[e][k] = Len(thread) + 1 /\ ~m.card /\ m.epoch = e
    BY <1>2, <2>2
  <2> QED
    BY <2>1, <2>2
<1>5. ASSUME NEW e \in Epochs, NEW j \in DOMAIN msgIds'[e], NEW k \in DOMAIN msgIds'[e], msgIds'[e][j] = msgIds'[e][k]
      PROVE  j = k
  <2>1. CASE msgIds'[e][k] = Len(thread) + 1
    <3>1. k \in DOMAIN msgIds[e] => msgIds[e][k] # Len(thread) + 1
      <4>1. k \in DOMAIN msgIds[e] => msgIds[e][k] \in DOMAIN thread
        BY DEF Parted, Anchored
      <4> QED
        BY <1>2, <4>1
    <3> QED
      BY <1>5, <2>1, <3>1
  <2>2. CASE msgIds'[e][k] # Len(thread) + 1
    <3>1. /\ j \in DOMAIN msgIds[e] /\ msgIds'[e][j] = msgIds[e][j]
          /\ k \in DOMAIN msgIds[e] /\ msgIds'[e][k] = msgIds[e][k]
      BY <1>5, <2>2
    <3>2. msgIds[e][j] = msgIds[e][k]
      BY <1>5, <3>1
    <3> QED
      BY <3>1, <3>2 DEF Parted, Anchored
  <2> QED
    BY <2>1, <2>2
<1> QED
  BY <1>3, <1>4, <1>5 DEF Anchored

\* It stands below the others: only it can be below the card that sealed its block.
LEMMA PostedApart ==
    ASSUME Parted, NEW m \in Messages, thread' = Append(thread, m), 
           write.pc # "late" \/ (LateMessage' = LateMessage /\ write'.pc = "late"),
           m.live /\ ~m.card /\ ~m.stray =>
               /\ Apart(m.content, {m.epoch})
               /\ (m.epoch = epoch \/ (write'.pc = "late" /\ LateMessage' = Len(thread) + 1))
    PROVE  BlocksKeepApart'
<1>1. TimelineTypeOK
  BY DEF Parted, TimelineSound
<1>2. /\ Len(thread) \in Nat /\ DOMAIN thread = 1 .. Len(thread) /\ DOMAIN thread' = 1 .. Len(thread) + 1
      /\ \A i \in DOMAIN thread : i \in DOMAIN thread' /\ thread'[i] = thread[i]
      /\ thread'[Len(thread) + 1] = m
  BY <1>1, OneMore
<1>3. ASSUME NEW i \in DOMAIN thread', thread'[i].live, ~thread'[i].card, ~thread'[i].stray
      PROVE  /\ \A j \in 1 .. i - 1 : thread'[j].card /\ thread'[j].epoch > thread'[i].epoch
                    => write'.pc = "late" /\ i = LateMessage'
             /\ \A k \in DOMAIN thread'[i].content :
                    thread'[i].content[k].kind = "text" => thread'[i].content[k].id = thread'[i].epoch
  <2>1. CASE i \in DOMAIN thread
    <3>1. thread'[i] = thread[i]
      BY <1>2, <2>1
    <3>2. \A j \in 1 .. i - 1 : thread'[j] = thread[j]
      BY <1>2, <2>1
    <3>3. \A j \in 1 .. i - 1 : thread[j].card /\ thread[j].epoch > thread[i].epoch => write.pc = "late" /\ i = LateMessage
      BY <1>3, <2>1, <3>1 DEF Parted, BlocksKeepApart
    <3>4. \A j \in 1 .. i - 1 : thread'[j].card /\ thread'[j].epoch > thread'[i].epoch => write'.pc = "late" /\ i = LateMessage'
      BY <3>1, <3>2, <3>3
    <3>5. \A k \in DOMAIN thread[i].content : thread[i].content[k].kind = "text" => thread[i].content[k].id = thread[i].epoch
      BY <1>3, <2>1, <3>1 DEF Parted, BlocksKeepApart
    <3> QED
      BY <3>1, <3>4, <3>5
  <2>2. CASE i = Len(thread) + 1
    <3>1. thread'[i] = m /\ Apart(m.content, {m.epoch})
          /\ (m.epoch = epoch \/ (write'.pc = "late" /\ LateMessage' = i))
      BY <1>2, <1>3, <2>2
    <3>2. ASSUME NEW j \in 1 .. i - 1, thread'[j].epoch > m.epoch, m.epoch = epoch PROVE FALSE
      <4>1. j \in DOMAIN thread /\ thread'[j] = thread[j]
        BY <1>2, <2>2
      <4>2. thread[j].epoch <= epoch /\ thread[j].epoch \in Epochs
        BY <1>1, <4>1, MessageTyped DEF Parted, Anchored
      <4>3. thread[j].epoch \in Nat /\ epoch \in Nat
        BY <1>1, <4>2, EpochsAre, NumbersAre
      <4> QED
        BY <3>2, <4>1, <4>2, <4>3
    <3> QED
      BY <3>1, <3>2 DEF Apart
  <2> QED
    BY <1>2, <2>1, <2>2
<1> QED
  BY <1>3 DEF BlocksKeepApart

LEMMA CardPostedApart ==
    ASSUME Parted, EpochMoves, epoch' \in Nat, NEW c \in Cards, CardPosted(c)
    PROVE  Anchored' /\ BlocksKeepApart'
<1>1. TimelineTypeOK /\ UNCHANGED <<msgIds, write>>
  BY CardPostedIs DEF Parted, TimelineSound
<1>2. CASE UNCHANGED thread
  BY <1>1, <1>2, QuietKeepsApart
<1>3. CASE thread' = Append(thread, CardMessage) /\ UNCHANGED transport
  <2> DEFINE m == CardMessage
  <2>1. m \in Messages /\ m.card /\ m.epoch = epoch
    BY <1>1, CardMessageIs DEF CardMessage
  <2>2. thread' = Append(thread, m) /\ UNCHANGED <<exists, epoch>>
    BY <1>3 DEF transport
  <2> HIDE DEF m
  <2>3. /\ Len(thread) \in Nat /\ DOMAIN thread = 1 .. Len(thread) /\ DOMAIN thread' = 1 .. Len(thread) + 1
        /\ \A i \in DOMAIN thread : i \in DOMAIN thread' /\ thread'[i] = thread[i]
        /\ thread'[Len(thread) + 1] = m
    BY <1>1, <2>1, <2>2, OneMore
  <2>4. m.epoch <= epoch
    BY <1>1, <2>1, NumbersAre
  <2>5. write'.pc = "late" => ~StillCurrent' /\ \E i \in DOMAIN thread' : ~thread'[i].card /\ thread'[i].epoch = write'.epoch
    <3>1. write.pc = "late" => ~StillCurrent /\ \E i \in DOMAIN thread : ~thread[i].card /\ thread[i].epoch = write.epoch
      BY DEF Parted, Anchored
    <3> QED
      BY <1>1, <2>2, <2>3, <3>1 DEF StillCurrent
  <2>6. Anchored'
    <3>1. write'.epoch <= epoch' /\ \A k \in DOMAIN write'.chunks : Apart(write'.chunks[k], {write'.epoch})
      BY <1>1, <2>2 DEF Parted, Anchored
    <3> QED
      BY <1>1, <2>1, <2>2, <2>4, <2>5, <3>1, PostedAnchored
  <2>7. LateMessage' = LateMessage
    <3>1. {i \in DOMAIN thread' : ~thread'[i].card /\ thread'[i].epoch = write'.epoch}
          = {i \in DOMAIN thread : ~thread[i].card /\ thread[i].epoch = write.epoch}
      BY <1>1, <2>1, <2>3
    <3> QED
      BY <3>1 DEF LateMessage
  <2>8. write.pc # "late" \/ (LateMessage' = LateMessage /\ write'.pc = "late")
    BY <1>1, <2>7
  <2>9. BlocksKeepApart'
    BY <2>1, <2>2, <2>8, PostedApart
  <2> QED
    BY <2>6, <2>9
<1> QED
  BY <1>1, <1>2, <1>3, CardPostedIs

\* A write begins with what the renderer has made of this block.
LEMMA WriteBeginsApart ==
    ASSUME Parted, EpochMoves, epoch' \in Nat, WriteBegins
    PROVE  Anchored' /\ BlocksKeepApart'
<1>1. TimelineTypeOK /\ write.pc = "none" /\ UNCHANGED <<msgIds, thread>>
  BY WriteBeginsIs DEF Parted, TimelineSound
<1>2. CASE write' = write
  BY <1>1, <1>2, QuietKeepsApart
<1>3. ASSUME exists, latest # Nil, UNCHANGED epoch,
             write' = [pc |-> "thread", by |-> Head(chain).by, epoch |-> epoch, chunks |-> Chunks(latest), at |-> 1]
      PROVE  Anchored' /\ BlocksKeepApart'
  <2>1. latest = items /\ items \in Seq(Items) /\ Apart(items, {epoch})
    BY <1>1, <1>3 DEF Parted, Owned, TimelineTypeOK
  <2>2. Chunks(latest) \in Blocks({epoch})
    BY <2>1, ChunksIs
  <2>3. \A k \in DOMAIN Chunks(latest) : Apart(Chunks(latest)[k], {epoch})
    BY <2>2 DEF Blocks
  <2>4. write'.pc = "thread" /\ write'.epoch = epoch /\ write'.chunks = Chunks(latest)
    BY <1>3
  <2>5. write'.epoch <= epoch' /\ write'.pc # "late" /\ \A k \in DOMAIN write'.chunks : Apart(write'.chunks[k], {write'.epoch})
    BY <1>3, <2>3, <2>4
  <2>6. SameMessages
    BY <1>1, NothingMoves
  <2> QED
    BY <1>1, <2>5, <2>6, AnchoredStays, ApartStays DEF Parted
<1> QED
  BY <1>1, <1>2, <1>3, WriteBeginsIs

LEMMA MessageDeletedApart ==
    ASSUME Parted, EpochMoves, epoch' \in Nat, NEW i \in DOMAIN thread, MessageDeleted(i)
    PROVE  Anchored' /\ BlocksKeepApart'
<1>1. TimelineTypeOK /\ UNCHANGED <<msgIds, write>>
  BY DEF Parted, TimelineSound, MessageDeleted
<1>2. SameMessages
  <2>1. ASSUME NEW j \in DOMAIN thread
        PROVE  /\ thread'[j].card = thread[j].card /\ thread'[j].epoch = thread[j].epoch
               /\ thread'[j].live => thread[j].live
               /\ thread'[j].stray = thread[j].stray
               /\ thread'[j].content = thread[j].content
    <3>1. thread[j] \in Messages
      BY <1>1, MessageTyped
    <3>2. thread'[j] = thread[j] \/ thread'[j] = [thread[j] EXCEPT !.live = FALSE]
      BY <1>1, MessageDeletedIs
    <3> QED
      BY <3>1, <3>2 DEF Messages
  <2>2. DOMAIN thread' = DOMAIN thread
    BY <1>1, MessageDeletedIs
  <2> QED
    BY <2>1, <2>2 DEF SameMessages
<1> QED
  BY <1>1, <1>2, AnchoredStays, ApartStays DEF Parted

\* Anchors that are surplus are deleted.
LEMMA TrimmedApart ==
    ASSUME Parted, EpochMoves, epoch' \in Nat, Trimmed
    PROVE  Anchored' /\ BlocksKeepApart'
<1>1. TimelineTypeOK /\ write.pc = "trim" /\ Bounded
  BY DEF Parted, TimelineSound, Trimmed
<1>2. CASE Over /\ UNCHANGED <<msgIds, thread>>
  <2>1. GoesOn /\ SameMessages
    BY <1>2, NothingMoves DEF GoesOn
  <2>2. /\ write'.epoch <= epoch' /\ write'.pc # "late"
        /\ \A k \in DOMAIN write'.chunks : Apart(write'.chunks[k], {write'.epoch})
    BY <1>1, <2>1, GoesOnIs DEF Parted
  <2> QED
    BY <1>1, <1>2, <2>1, <2>2, AnchoredStays, ApartStays DEF Parted
<1>3. CASE /\ thread' = [thread EXCEPT ![Last(Anchors)].live = FALSE]
           /\ msgIds' = [msgIds EXCEPT ![write.epoch] = Front(Anchors)]
           /\ Onward(write.at, Front(Anchors))
  <2>1. write.at \in Nat /\ write.epoch \in Epochs /\ msgIds = [e \in Epochs |-> msgIds[e]]
    BY <1>1, WriteTyped
  <2>2. GoesOn
    BY <1>3, <2>1, OnwardGoesOn
  <2>3. SameMessages
    <3> DEFINE last == Last(Anchors)
               m == [thread[last] EXCEPT !.live = FALSE]
    <3>1. thread' = [thread EXCEPT ![last] = m] /\ (last \in DOMAIN thread => m \in Messages)
      BY <1>1, <1>3, MessageTyped
    <3> HIDE DEF m
    <3>2. DOMAIN thread' = DOMAIN thread /\ \A j \in DOMAIN thread : thread'[j] = IF j = last THEN m ELSE thread[j]
      BY <1>1, <3>1, ChangedIs
    <3>3. ASSUME NEW j \in DOMAIN thread
          PROVE  /\ thread'[j].card = thread[j].card /\ thread'[j].epoch = thread[j].epoch
                 /\ thread'[j].live => thread[j].live
                 /\ thread'[j].stray = thread[j].stray
                 /\ thread'[j].content = thread[j].content
      <4>1. thread[j] \in Messages
        BY <1>1, MessageTyped
      <4>2. thread'[j] = thread[j] \/ thread'[j] = [thread[j] EXCEPT !.live = FALSE]
        BY <3>2 DEF m
      <4> QED
        BY <4>1, <4>2 DEF Messages
    <3> QED
      BY <3>2, <3>3 DEF SameMessages
  <2>4. ASSUME NEW e \in Epochs, NEW k \in DOMAIN msgIds'[e]
        PROVE  k \in DOMAIN msgIds[e] /\ msgIds'[e][k] = msgIds[e][k]
    <3> DEFINE f == Front(Anchors)
    <3>1. /\ DOMAIN f = 1 .. Len(Anchors) - 1 /\ DOMAIN Anchors = 1 .. Len(Anchors) /\ Len(Anchors) \in Nat
          /\ \A j \in DOMAIN f : f[j] = Anchors[j]
      BY <1>1, FrontIs
    <3> HIDE DEF f
    <3>2. CASE e = write.epoch
      <4>1. msgIds'[e] = f
        BY <1>3, <2>1, <3>2 DEF f
      <4> QED
        BY <3>1, <3>2, <4>1 DEF Anchors
    <3>3. CASE e # write.epoch
      BY <1>3, <2>1, <3>3
    <3> QED
      BY <3>2, <3>3
  <2>5. /\ write'.epoch <= epoch' /\ write'.pc # "late"
        /\ \A k \in DOMAIN write'.chunks : Apart(write'.chunks[k], {write'.epoch})
    BY <1>1, <2>2, GoesOnIs DEF Parted
  <2>6. Anchored'
    BY <2>3, <2>4, <2>5, AnchoredStays DEF Parted
  <2> QED
    BY <1>1, <2>3, <2>6, ApartStays DEF Parted
<1> QED
  BY <1>2, <1>3 DEF Trimmed, Anchors

\* The late message is the last one its block has posted.
LEMMA LateIs ==
    ASSUME TimelineSound, Anchored, write.pc = "late"
    PROVE  LateMessage \in DOMAIN thread /\ thread[LateMessage].epoch = write.epoch
<1> DEFINE S == {i \in DOMAIN thread : ~thread[i].card /\ thread[i].epoch = write.epoch}
<1>1. Len(thread) \in Nat /\ DOMAIN thread = 1 .. Len(thread)
  BY MessageTyped DEF TimelineSound
<1>2. S \in SUBSET Nat /\ S # {} /\ \A i \in S : i <= Len(thread)
  BY <1>1 DEF Anchored
<1>3. LateMessage = Max(S)
  BY DEF LateMessage
<1>4. \A i \in S : i \in DOMAIN thread /\ thread[i].epoch = write.epoch
  OBVIOUS
<1> HIDE DEF S
<1>5. Max(S) \in S
  BY <1>1, <1>2, MaxIs
<1> QED
  BY <1>3, <1>4, <1>5

\* What arrives late is deleted, or known to be left behind.
LEMMA LateDeletedApart ==
    ASSUME Parted, EpochMoves, epoch' \in Nat, LateDeleted
    PROVE  Anchored' /\ BlocksKeepApart'
<1> DEFINE last == LateMessage
           a == [thread[last] EXCEPT !.live = FALSE]
           b == [thread[last] EXCEPT !.stray = TRUE]
<1>1. /\ TimelineTypeOK /\ write.pc = "late" /\ Over /\ UNCHANGED msgIds
      /\ thread' = [thread EXCEPT ![last] = a] \/ thread' = [thread EXCEPT ![last] = b]
  BY DEF LateDeleted, Parted, TimelineSound
<1>2. last \in DOMAIN thread
  BY <1>1, LateIs DEF Parted
<1>3. a \in Messages /\ b \in Messages
  BY <1>1, <1>2, MessageTyped
<1>4. PICK m : (m = a \/ m = b) /\ m \in Messages /\ thread' = [thread EXCEPT ![last] = m]
  <2> HIDE DEF a, b
  <2> QED
    BY <1>1, <1>3
<1> HIDE DEF last, a, b
<1>5. DOMAIN thread' = DOMAIN thread /\ \A j \in DOMAIN thread : thread'[j] = IF j = last THEN m ELSE thread[j]
  BY <1>1, <1>4, ChangedIs
<1>6. ASSUME NEW j \in DOMAIN thread
      PROVE  /\ thread'[j].card = thread[j].card /\ thread'[j].epoch = thread[j].epoch
             /\ thread'[j].live => thread[j].live
             /\ thread[j].stray => thread'[j].stray
             /\ thread'[j].content = thread[j].content
             /\ j = last => ~thread'[j].live \/ thread'[j].stray
  <2>1. thread[j] \in Messages
    BY <1>1, MessageTyped
  <2>2. CASE j = last
    <3>1. thread'[j] = a \/ thread'[j] = b
      BY <1>4, <1>5, <2>2
    <3> QED
      BY <2>1, <2>2, <3>1 DEF Messages, a, b
  <2>3. CASE j # last
    BY <1>5, <2>3
  <2> QED
    BY <2>2, <2>3
<1>7. SameMessages
  BY <1>5, <1>6 DEF SameMessages
<1>8. /\ write'.epoch <= epoch' /\ write'.pc # "late"
      /\ \A k \in DOMAIN write'.chunks : Apart(write'.chunks[k], {write'.epoch})
  <2>1. GoesOn
    BY <1>1 DEF GoesOn
  <2> QED
    BY <1>1, <2>1, GoesOnIs DEF Parted
<1>9. Anchored'
  BY <1>1, <1>7, <1>8, AnchoredStays DEF Parted
<1>10. ASSUME NEW i \in DOMAIN thread', thread'[i].live, ~thread'[i].card, ~thread'[i].stray
       PROVE  /\ \A j \in 1 .. i - 1 : thread'[j].card /\ thread'[j].epoch > thread'[i].epoch
                     => write'.pc = "late" /\ i = LateMessage'
              /\ \A k \in DOMAIN thread'[i].content :
                     thread'[i].content[k].kind = "text" => thread'[i].content[k].id = thread'[i].epoch
  <2>1. /\ i \in DOMAIN thread /\ i # last /\ thread[i].live /\ ~thread[i].card /\ ~thread[i].stray
        /\ thread'[i].epoch = thread[i].epoch /\ thread'[i].content = thread[i].content
    BY <1>5, <1>6, <1>10
  <2>2. i # LateMessage
    BY <2>1 DEF last
  <2>3. ASSUME NEW j \in 1 .. i - 1, thread'[j].card, thread'[j].epoch > thread'[i].epoch PROVE FALSE
    <3>1. j \in DOMAIN thread
      <4>1. Len(thread) \in Nat /\ DOMAIN thread = 1 .. Len(thread)
        BY <1>1, MessageTyped
      <4> QED
        BY <2>1, <4>1
    <3>2. thread[j].card /\ thread[j].epoch > thread[i].epoch
      BY <1>6, <2>1, <2>3, <3>1
    <3> QED
      BY <2>1, <2>2, <3>2 DEF Parted, BlocksKeepApart
  <2>4. \A k \in DOMAIN thread[i].content : thread[i].content[k].kind = "text" => thread[i].content[k].id = thread[i].epoch
    BY <2>1 DEF Parted, BlocksKeepApart
  <2> QED
    BY <2>1, <2>3, <2>4
<1> QED
  BY <1>9, <1>10 DEF BlocksKeepApart

\* A message arrives in its own block, or late.
LEMMA MessageSentApart ==
    ASSUME Parted, EpochMoves, epoch' \in Nat, MessageSent
    PROVE  Anchored' /\ BlocksKeepApart'
<1> DEFINE anchors == [k \in DOMAIN Anchors \cup {write.at} |-> IF k = write.at THEN Len(thread) + 1 ELSE Anchors[k]]
           new(stray) == [card |-> FALSE, epoch |-> write.epoch, content |-> write.chunks[write.at],
                          live |-> TRUE, stray |-> stray]
<1>1. TimelineTypeOK /\ Bounded /\ write.pc = "send"
  BY DEF MessageSent, Parted, TimelineSound
<1>2. \A stray \in BOOLEAN : new(stray) \in Messages /\ Posted(stray) = Append(thread, new(stray))
  BY <1>1, PostedIs
<1>3. /\ write.at \in Nat /\ write.at + 1 \in Nat /\ write.epoch \in Epochs /\ write.epoch \in Nat /\ epoch \in Nat
      /\ write.epoch <= epoch /\ msgIds = [e \in Epochs |-> msgIds[e]]
  BY <1>1, WriteTyped, NumbersAre DEF Parted, Anchored
<1>4. Apart(write.chunks[write.at], {write.epoch})
  <2>1. write.at \in DOMAIN write.chunks
    BY <1>1, WriteTyped DEF Bounded
  <2> QED
    BY <2>1 DEF Parted, Anchored
<1>5. \A stray \in BOOLEAN : /\ new(stray).epoch = write.epoch /\ ~new(stray).card /\ new(stray).stray = stray
                             /\ new(stray).content = write.chunks[write.at]
  OBVIOUS
<1>6. /\ DOMAIN anchors = DOMAIN Anchors \cup {write.at}
      /\ \A k \in DOMAIN anchors : anchors[k] = IF k = write.at THEN Len(thread) + 1 ELSE Anchors[k]
  OBVIOUS
<1> HIDE DEF new, anchors
<1>7. CASE /\ StillCurrent /\ thread' = Posted(FALSE)
           /\ msgIds' = [msgIds EXCEPT ![write.epoch] = anchors] /\ Onward(write.at + 1, anchors)
  <2> DEFINE m == new(FALSE)
  <2>1. m \in Messages /\ thread' = Append(thread, m) /\ m.epoch = write.epoch /\ ~m.card /\ m.content = write.chunks[write.at]
    BY <1>2, <1>5, <1>7
  <2> HIDE DEF m
  <2>2. m.epoch = epoch
    BY <1>7, <2>1 DEF StillCurrent
  <2>3. ASSUME NEW e \in Epochs, NEW k \in DOMAIN msgIds'[e]
        PROVE  \/ k \in DOMAIN msgIds[e] /\ msgIds'[e][k] = msgIds[e][k]
               \/ msgIds'[e][k] = Len(thread) + 1 /\ ~m.card /\ m.epoch = e
                  /\ \A j \in DOMAIN msgIds'[e] : msgIds'[e][j] = Len(thread) + 1 => j = k
    <3>1. CASE e # write.epoch
      BY <1>3, <1>7, <3>1
    <3>2. CASE e = write.epoch
      <4>1. msgIds'[e] = anchors /\ msgIds[e] = Anchors
        BY <1>3, <1>7, <3>2 DEF Anchors
      <4>2. CASE k # write.at
        BY <1>6, <4>1, <4>2
      <4>3. CASE k = write.at
        <5>1. ASSUME NEW j \in DOMAIN anchors, anchors[j] = Len(thread) + 1, j # write.at PROVE FALSE
          <6>1. j \in DOMAIN Anchors /\ Anchors[j] = Len(thread) + 1
            BY <1>6, <5>1
          <6>2. Anchors[j] \in DOMAIN thread
            BY <3>2, <4>1, <6>1 DEF Parted, Anchored
          <6>3. Len(thread) \in Nat /\ DOMAIN thread = 1 .. Len(thread)
            BY <1>1, MessageTyped
          <6> QED
            BY <6>1, <6>2, <6>3
        <5>2. anchors[k] = Len(thread) + 1
          BY <1>6, <4>1, <4>3
        <5> QED
          BY <2>1, <3>2, <4>1, <4>3, <5>1, <5>2
      <4> QED
        BY <4>2, <4>3
    <3> QED
      BY <3>1, <3>2
  <2>4. /\ write'.epoch <= epoch' /\ write'.pc # "late"
        /\ \A k \in DOMAIN write'.chunks : Apart(write'.chunks[k], {write'.epoch})
    <3>1. GoesOn
      BY <1>3, <1>7, OnwardGoesOn
    <3> QED
      BY <1>1, <3>1, GoesOnIs DEF Parted
  <2>5. m.epoch <= epoch
    BY <1>3, <2>2
  <2>6. Anchored'
    BY <2>1, <2>3, <2>4, <2>5, PostedAnchored
  <2>7. BlocksKeepApart'
    BY <1>1, <1>4, <2>1, <2>2, PostedApart
  <2> QED
    BY <2>6, <2>7
<1>8. CASE ~StillCurrent /\ thread' = Posted(FALSE) /\ UNCHANGED msgIds /\ Awaits("late", write.at)
  <2> DEFINE m == new(FALSE)
  <2>1. m \in Messages /\ thread' = Append(thread, m) /\ m.epoch = write.epoch /\ ~m.card /\ m.content = write.chunks[write.at]
    BY <1>2, <1>5, <1>8
  <2> HIDE DEF m
  <2>2. write'.pc = "late" /\ write'.epoch = write.epoch /\ write'.chunks = write.chunks /\ UNCHANGED <<exists, epoch>>
    <3>1. "late" \in WriteStates
      BY DEF WriteStates
    <3> QED
      BY <1>1, <1>3, <1>8, <3>1, AwaitsIs DEF transport
  <2>3. /\ Len(thread) \in Nat /\ DOMAIN thread = 1 .. Len(thread) /\ DOMAIN thread' = 1 .. Len(thread) + 1
        /\ \A i \in DOMAIN thread : i \in DOMAIN thread' /\ thread'[i] = thread[i]
        /\ thread'[Len(thread) + 1] = m
    BY <1>1, <2>1, OneMore
  <2>4. ~StillCurrent' /\ \E i \in DOMAIN thread' : ~thread'[i].card /\ thread'[i].epoch = write'.epoch
    <3>1. Len(thread) + 1 \in DOMAIN thread'
      BY <2>3
    <3> QED
      BY <1>8, <2>1, <2>2, <2>3, <3>1 DEF StillCurrent
  <2>5. write'.epoch <= epoch' /\ \A k \in DOMAIN write'.chunks : Apart(write'.chunks[k], {write'.epoch})
    BY <1>3, <2>2 DEF Parted, Anchored
  <2>6. Anchored'
    <3>1. m.epoch <= epoch
      BY <1>3, <2>1
    <3> QED
      BY <1>8, <2>1, <2>4, <2>5, <3>1, PostedAnchored
  <2>7. LateMessage' = Len(thread) + 1
    <3> DEFINE S == {i \in DOMAIN thread' : ~thread'[i].card /\ thread'[i].epoch = write'.epoch}
               n == Len(thread) + 1
    <3>1. S \in SUBSET Nat /\ n \in S /\ n \in Nat /\ \A i \in S : i <= n
      BY <2>1, <2>2, <2>3
    <3>2. LateMessage' = Max(S)
      BY DEF LateMessage
    <3> HIDE DEF S, n
    <3>3. Max(S) \in S /\ \A y \in S : y <= Max(S)
      BY <3>1, MaxIs
    <3>4. Max(S) = n
      <4>1. Max(S) \in Nat /\ Max(S) <= n /\ n <= Max(S)
        BY <3>1, <3>3
      <4> QED
        BY <3>1, <4>1
    <3> QED
      BY <3>2, <3>4 DEF n
  <2>8. BlocksKeepApart'
    BY <1>1, <1>4, <2>1, <2>2, <2>7, PostedApart
  <2> QED
    BY <2>6, <2>8
<1>9. CASE Over /\ UNCHANGED msgIds /\ (thread' = thread \/ thread' = Posted(TRUE))
  <2>1. /\ write'.epoch <= epoch' /\ write'.pc # "late"
        /\ \A k \in DOMAIN write'.chunks : Apart(write'.chunks[k], {write'.epoch})
    BY <1>1, <1>9, GoesOnIs DEF Parted, GoesOn
  <2>2. CASE thread' = thread
    BY <1>1, <1>9, <2>1, <2>2, NothingMoves, AnchoredStays, ApartStays DEF Parted
  <2>3. CASE thread' = Posted(TRUE)
    <3> DEFINE m == new(TRUE)
    <3>1. m \in Messages /\ thread' = Append(thread, m) /\ m.epoch = write.epoch /\ m.stray
      BY <1>2, <1>5, <2>3
    <3> HIDE DEF m
    <3>2. m.epoch <= epoch
      BY <1>3, <3>1
    <3>3. Anchored'
      BY <1>9, <2>1, <3>1, <3>2, PostedAnchored
    <3>4. BlocksKeepApart'
      BY <1>1, <3>1, PostedApart
    <3> QED
      BY <3>3, <3>4
  <2> QED
    BY <1>9, <2>2, <2>3
<1> QED
  BY <1>1, <1>7, <1>8, <1>9 DEF MessageSent, anchors

LEMMA NextParted ==
    ASSUME EarlyTodos = FALSE, Parted, [TimelineNext]_timelineVars
    PROVE  Parted'
<1>1. TimelineSound' /\ Owned'
  BY NextIsSound, NextOwned DEF Parted
<1>2. epoch' \in Nat
  BY <1>1, EpochIsNext DEF TimelineSound
<1>3. EpochMoves
  BY NextMoves DEF Parted
<1>4. TimelineTypeOK
  BY DEF Parted, TimelineSound
<1>5. Anchored' /\ BlocksKeepApart'
  <2>1. CASE UNCHANGED <<thread, msgIds, write>>
    BY <1>2, <1>3, <2>1, QuietKeepsApart
  <2>2. ASSUME NEW c \in Cards, CardPosted(c) PROVE Anchored' /\ BlocksKeepApart'
    BY <1>2, <1>3, <2>2, CardPostedApart
  <2>3. CASE WriteBegins
    BY <1>2, <1>3, <2>3, WriteBeginsApart
  <2>4. CASE Write
    BY <1>2, <1>3, <2>4, ThreadFetchedApart, AnchorFetchedApart, EditedApart, MessageSentApart, LateDeletedApart,
       TrimmedApart DEF Write
  <2>5. ASSUME NEW i \in DOMAIN thread, MessageDeleted(i) PROVE Anchored' /\ BlocksKeepApart'
    BY <1>2, <1>3, <2>5, MessageDeletedApart
  <2>6. CASE Said
    <3>1. Happens
      BY <2>6, SaidIs DEF Parted
    <3> QED
      BY <2>1, <3>1 DEF Happens, discord
  <2>7. ASSUME NEW t \in Tools, ToolStart(t) \/ ToolComplete(t) PROVE Anchored' /\ BlocksKeepApart'
    <3>1. Happens
      BY <2>7, AppliedIs DEF ToolStart, ToolComplete
    <3> QED
      BY <2>1, <3>1 DEF Happens, discord
  <2>8. CASE TurnBegins \/ RendererStarts \/ FinalFlush \/ Dispose \/ TimerFires \/ UNCHANGED timelineVars
    <3>1. UNCHANGED discord
      BY <2>8 DEF TurnBegins, RendererStarts, FinalFlush, Dispose, TimerFires, timelineVars
    <3> QED
      BY <2>1, <3>1 DEF discord
  <2>9. ASSUME NEW c \in Cards, NEW kind \in Kinds, CardBegins(c, kind) PROVE Anchored' /\ BlocksKeepApart'
    <3>1. UNCHANGED discord
      BY <1>4, <2>9, CardBeginsIs
    <3> QED
      BY <2>1, <3>1 DEF discord
  <2> QED
    BY <2>2, <2>3, <2>4, <2>5, <2>6, <2>7, <2>8, <2>9 DEF TimelineNext, Said
<1> QED
  BY <1>1, <1>5 DEF Parted

LEMMA InitParted == ASSUME TimelineInit PROVE Parted
<1>1. thread = <<>> /\ write = NoWrite /\ epoch = 0 /\ \A e \in Epochs : msgIds[e] = <<>>
  BY DEF TimelineInit
<1>2. write.epoch = 0 /\ write.chunks = <<>> /\ write.pc = "none"
  BY <1>1 DEF NoWrite
<1>3. DOMAIN thread = {} /\ DOMAIN write.chunks = {} /\ \A e \in Epochs : DOMAIN msgIds[e] = {}
  BY <1>1, <1>2
<1>4. Anchored
  BY <1>1, <1>2, <1>3 DEF Anchored
<1>5. BlocksKeepApart
  BY <1>3 DEF BlocksKeepApart
<1> QED
  BY <1>4, <1>5, InitIsSound, InitOwned DEF Parted

LEMMA PartedAlways == EarlyTodos = FALSE => (TimelineSpec => []Parted)
<1> SUFFICES ASSUME EarlyTodos = FALSE PROVE TimelineSpec => []Parted
  OBVIOUS
<1>1. TimelineInit => Parted
  BY InitParted
<1>2. Parted /\ [TimelineNext]_timelineVars => Parted'
  BY NextParted
<1> HIDE DEF Parted
<1> QED
  BY <1>1, <1>2, PTL DEF TimelineSpec

\* No message of a block stands below the card that sealed it, or shows text of
\* another block, if no todo refresh lands before the new turn has its renderer:
\* a write that answers late finds its block over, and what it has sent is the
\* last of its block, deleted next or known to be left behind.
THEOREM BlocksStayApart == EarlyTodos = FALSE => (TimelineSpec => []BlocksKeepApart)
<1> SUFFICES ASSUME EarlyTodos = FALSE PROVE TimelineSpec => []BlocksKeepApart
  OBVIOUS
<1>1. TimelineSpec => []Parted
  BY PartedAlways
<1>2. Parted => BlocksKeepApart
  BY DEF Parted
<1> HIDE DEF Parted, BlocksKeepApart
<1> QED
  BY <1>1, <1>2, PTL

-----------------------------------------------------------------------------
(* What is on show.                                                         *)

Shown(messages, e) ==
    {i \in DOMAIN messages : ~messages[i].card /\ messages[i].epoch = e /\ messages[i].live /\ ~messages[i].stray}

\* Whatever this block shows is at one of its anchors, and none of them was left behind.
Tended(messages, anchors) ==
    /\ Shown(messages, epoch) \subseteq Range(anchors)
    /\ \A k \in DOMAIN anchors : ~messages[anchors[k]].stray

\* The messages ahead of this one are as they shall be.
WrittenTo(messages, anchors, k) ==
    \A j \in DOMAIN write.chunks : j < k =>
        j <= Len(anchors) /\ messages[anchors[j]].live /\ messages[anchors[j]].content = write.chunks[j]

Writing == write.pc # "none" /\ write.epoch = epoch

\* A write of this block has what was rendered, unless that has changed since,
\* and is done up to where it is; without a write the block is on show.
Showing ==
    /\ exists => Tended(thread, msgIds[epoch])
    /\ write.pc = "send" /\ write.at \in DOMAIN Anchors => ~thread[Anchor].live
    /\ exists /\ Writing /\ ~late => write.chunks = Chunks(Rendered)
    /\ exists /\ Writing /\ epoch \notin blip => WrittenTo(thread, msgIds[epoch], write.at)
    /\ exists /\ ~Writing /\ ~late /\ epoch \notin blip => Shows(thread, msgIds[epoch], epoch, Rendered)

LEMMA RenderedTyped == ASSUME TimelineTypeOK PROVE Rendered \in Seq(Items) /\ Chunks(Rendered) \in Seq(Seq(Items))
<1>1. Rendered \in Seq(Items)
  BY DEF Rendered, TimelineTypeOK
<1> QED
  BY <1>1, ChunksTyped

LEMMA AnchorsTyped ==
    ASSUME TimelineTypeOK
    PROVE  msgIds[epoch] \in Seq(Nat) /\ DOMAIN msgIds[epoch] = 1 .. Len(msgIds[epoch]) /\ Len(msgIds[epoch]) \in Nat
<1>1. msgIds[epoch] \in Seq(Nat)
  BY DEF TimelineTypeOK
<1> QED
  BY <1>1

\* What a block shows stays if its messages do.
SameBlock ==
    /\ msgIds'[epoch] = msgIds[epoch]
    /\ Shown(thread', epoch) = Shown(thread, epoch)
    /\ \A k \in DOMAIN msgIds[epoch] : thread'[msgIds[epoch][k]] = thread[msgIds[epoch][k]]

LEMMA SameBlockShows ==
    ASSUME TimelineTypeOK, SameBlock
    PROVE  /\ Shows(thread, msgIds[epoch], epoch, Rendered) => Shows(thread', msgIds'[epoch], epoch, Rendered)
           /\ Tended(thread, msgIds[epoch]) => Tended(thread', msgIds'[epoch])
           /\ \A k : WrittenTo(thread, msgIds[epoch], k) => WrittenTo(thread', msgIds'[epoch], k)
<1> DEFINE a == msgIds[epoch]
           chunks == Chunks(Rendered)
<1>1. a \in Seq(Nat) /\ DOMAIN a = 1 .. Len(a) /\ Len(a) \in Nat
  BY AnchorsTyped
<1>2. chunks \in Seq(Seq(Items)) /\ DOMAIN chunks = 1 .. Len(chunks) /\ Len(chunks) \in Nat
  <2>1. chunks \in Seq(Seq(Items))
    BY RenderedTyped
  <2> HIDE DEF chunks
  <2> QED
    BY <2>1
<1>3. ASSUME Shows(thread, a, epoch, Rendered) PROVE Shows(thread', a, epoch, Rendered)
  <2>1. Len(a) = Len(chunks) /\ Shown(thread, epoch) = Range(a) /\ \A k \in DOMAIN chunks : thread[a[k]].content = chunks[k]
    BY <1>3 DEF Shows, Shown
  <2>2. Shown(thread', epoch) = Range(a)
    BY <2>1 DEF SameBlock
  <2>3. \A k \in DOMAIN chunks : thread'[a[k]].content = chunks[k]
    <3>1. ASSUME NEW k \in DOMAIN chunks PROVE k \in DOMAIN a
      <4> HIDE DEF a, chunks
      <4> QED
        BY <1>1, <1>2, <2>1
    <3> QED
      BY <2>1, <3>1 DEF SameBlock
  <2> QED
    BY <2>1, <2>2, <2>3 DEF Shows, Shown
<1>4. ASSUME Tended(thread, a) PROVE Tended(thread', a)
  BY <1>4 DEF Tended, SameBlock
<1>5. ASSUME NEW k, WrittenTo(thread, a, k) PROVE WrittenTo(thread', a, k)
  <2>1. ASSUME NEW j \in DOMAIN write.chunks, j < k
        PROVE  j <= Len(a) /\ thread'[a[j]].live /\ thread'[a[j]].content = write.chunks[j]
    <3>1. j <= Len(a) /\ thread[a[j]].live /\ thread[a[j]].content = write.chunks[j]
      BY <1>5, <2>1 DEF WrittenTo
    <3>2. j \in DOMAIN a
      <4>1. j \in Nat \ {0}
        BY WriteTyped
      <4> HIDE DEF a
      <4> QED
        BY <1>1, <3>1, <4>1
    <3> QED
      BY <3>1, <3>2 DEF SameBlock
  <2> QED
    BY <2>1 DEF WrittenTo
<1> QED
  BY <1>3, <1>4, <1>5 DEF SameBlock

\* A block is on show when all of its messages are written and it has no more.
LEMMA WrittenShows ==
    ASSUME TimelineTypeOK, NEW messages, NEW anchors \in Seq(Nat), NEW k \in Nat, Tended(messages, anchors),
           \A j \in DOMAIN anchors : anchors[j] \in DOMAIN messages /\ ~messages[anchors[j]].card
                                     /\ messages[anchors[j]].epoch = epoch,
           WrittenTo(messages, anchors, k), k > Len(write.chunks), Len(anchors) <= Len(write.chunks),
           write.chunks = Chunks(Rendered)
    PROVE  Shows(messages, anchors, epoch, Rendered)
<1> DEFINE chunks == write.chunks
<1>1. chunks \in Seq(Seq(Items)) /\ DOMAIN chunks = 1 .. Len(chunks) /\ Len(chunks) \in Nat
  BY WriteTyped
<1>2. Len(anchors) \in Nat /\ DOMAIN anchors = 1 .. Len(anchors)
  OBVIOUS
<1>3. \A j \in DOMAIN chunks : j <= Len(anchors) /\ messages[anchors[j]].live /\ messages[anchors[j]].content = chunks[j]
  BY <1>1 DEF WrittenTo
<1>4. Len(anchors) = Len(chunks)
  <2>1. Len(chunks) # 0 => Len(chunks) \in DOMAIN chunks
    BY <1>1
  <2> HIDE DEF chunks
  <2>2. Len(chunks) # 0 => Len(chunks) <= Len(anchors)
    BY <1>3, <2>1
  <2>3. Len(anchors) <= Len(chunks)
    BY DEF chunks
  <2>4. \A m, n \in Nat : (m # 0 => m <= n) /\ n <= m => n = m
    OBVIOUS
  <2>5. Len(anchors) \in Nat /\ Len(chunks) \in Nat
    BY <1>1, <1>2
  <2> QED
    BY <2>2, <2>3, <2>4, <2>5
<1>5. Range(anchors) \subseteq Shown(messages, epoch)
  <2>1. ASSUME NEW j \in DOMAIN anchors PROVE anchors[j] \in Shown(messages, epoch)
    <3>1. messages[anchors[j]].live
      BY <1>1, <1>2, <1>3, <1>4
    <3> QED
      BY <3>1 DEF Tended, Shown
  <2> QED
    BY <2>1 DEF Range
<1> QED
  BY <1>3, <1>4, <1>5 DEF Shows, Shown, Tended

\* What a step of a write leaves on show.
WriteShows ==
    /\ exists => Tended(thread', msgIds'[epoch])
    /\ write'.pc = "send" /\ write'.at \in DOMAIN Anchors' => ~thread'[Anchor'].live
    /\ \/ /\ Over
          /\ exists /\ ~late /\ epoch \notin blip' => Shows(thread', msgIds'[epoch], epoch, Rendered)
       \/ /\ \E state \in WriteStates, k \in Nat : Awaits(state, k)
          /\ exists /\ Writing /\ epoch \notin blip' => WrittenTo(thread', msgIds'[epoch], write'.at)
          /\ exists /\ ~Writing /\ ~late /\ epoch \notin blip' => Shows(thread', msgIds'[epoch], epoch, Rendered)

LEMMA PartedIs ==
    ASSUME Parted
    PROVE  TimelineSound /\ TimelineTypeOK /\ Bounded /\ Anchored /\ epoch \in Epochs /\ epoch \in Nat
<1>1. TimelineTypeOK
  BY DEF Parted, TimelineSound
<1>2. epoch \in Nat
  BY <1>1, NumbersAre
<1> QED
  BY <1>1, <1>2 DEF Parted, TimelineSound, TimelineTypeOK

\* Nobody waits any more where a write is over.
LEMMA OverSends == ASSUME Over PROVE write'.pc # "send"
<1> QED
  BY OverIs

LEMMA OnwardShows ==
    ASSUME Parted, Anchored', Showing, write.pc # "none", StillCurrent, NEW k \in Nat \ {0}, NEW anchors \in Seq(Nat),
           msgIds'[epoch] = anchors, Onward(k, anchors), Tended(thread', anchors),
           epoch \notin blip' => WrittenTo(thread', anchors, k)
    PROVE  WriteShows
<1>1. exists /\ Writing /\ write.epoch = epoch
  BY DEF StillCurrent, Writing
<1>2. TimelineTypeOK /\ epoch \in Epochs
  BY PartedIs
<1>3. \A j \in DOMAIN anchors : anchors[j] \in DOMAIN thread' /\ ~thread'[anchors[j]].card /\ thread'[anchors[j]].epoch = epoch
  BY <1>2 DEF Anchored
<1>4. CASE k > Len(write.chunks) /\ Len(anchors) <= Len(write.chunks) /\ Over
  <2>1. ASSUME ~late, epoch \notin blip' PROVE Shows(thread', anchors, epoch, Rendered)
    <3>1. write.chunks = Chunks(Rendered) /\ WrittenTo(thread', anchors, k)
      BY <1>1, <2>1 DEF Showing
    <3> QED
      BY <1>2, <1>3, <1>4, <3>1, WrittenShows
  <2> QED
    BY <1>4, <2>1, OverSends DEF WriteShows
<1>5. ASSUME NEW state \in WriteStates, Awaits(state, k), state = "send" => k \notin DOMAIN anchors
      PROVE  WriteShows
  <2>1. write'.pc = state /\ write'.at = k /\ write'.epoch = write.epoch
    BY <1>2, <1>5, AwaitsIs
  <2>2. Anchors' = anchors
    BY <1>1, <2>1 DEF Anchors
  <2> QED
    BY <1>1, <1>5, <2>1, <2>2 DEF WriteShows
<1>6. CASE k > Len(write.chunks) /\ Awaits("trim", k)
  BY <1>5, <1>6 DEF WriteStates
<1>7. CASE Awaits(IF k \in DOMAIN anchors THEN "fetch" ELSE "send", k)
  <2>1. "fetch" \in WriteStates /\ "send" \in WriteStates
    BY DEF WriteStates
  <2>2. CASE k \in DOMAIN anchors
    BY <1>5, <1>7, <2>1, <2>2
  <2>3. CASE k \notin DOMAIN anchors
    BY <1>5, <1>7, <2>1, <2>3
  <2> QED
    BY <2>2, <2>3
<1> QED
  BY <1>4, <1>6, <1>7 DEF Onward

\* A write that Discord failed shows nothing.
LEMMA FailedShows ==
    ASSUME StillCurrent, Over, epoch \in blip', Tended(thread', msgIds'[epoch])
    PROVE  WriteShows
<1> QED
  BY OverSends DEF WriteShows

\* A write that goes on at the same message.
LEMMA SameShows ==
    ASSUME Parted, Showing, write.pc # "none", UNCHANGED <<msgIds, thread>>, blip \subseteq blip',
           NEW state \in WriteStates, Awaits(state, write.at), state = "send" => ~thread[Anchor].live
    PROVE  WriteShows
<1>1. TimelineTypeOK /\ write.at \in Nat
  BY PartedIs, WriteTyped
<1>2. write'.pc = state /\ write'.at = write.at /\ write'.epoch = write.epoch
  BY <1>1, AwaitsIs
<1>3. state = "send" => ~thread'[Anchor'].live
  BY <1>2 DEF Anchor, Anchors
<1> QED
  BY <1>1, <1>2, <1>3 DEF WriteShows, Showing

\* A write of a block that is over leaves this one alone.
LEMMA OtherShows ==
    ASSUME Parted, Showing, ~StillCurrent, exists => SameBlock, blip \subseteq blip',
           Over \/ \E state \in WriteStates, k \in Nat : Awaits(state, k),
           write'.pc = "send" /\ write'.at \in DOMAIN Anchors' => ~thread'[Anchor'].live
    PROVE  WriteShows
<1>1. TimelineTypeOK
  BY PartedIs
<1>2. exists => ~Writing
  BY DEF StillCurrent, Writing
<1>3. exists => Tended(thread', msgIds'[epoch])
  BY <1>1, SameBlockShows DEF Showing
<1>4. exists /\ ~late /\ epoch \notin blip' => Shows(thread', msgIds'[epoch], epoch, Rendered)
  BY <1>1, <1>2, SameBlockShows DEF Showing
<1> QED
  BY <1>2, <1>3, <1>4 DEF WriteShows

\* A loop that goes on in a block that is over.
LEMMA OnwardElsewhere ==
    ASSUME Parted, Showing, write.pc # "none", ~StillCurrent, exists => SameBlock, blip \subseteq blip',
           NEW k \in Nat, NEW anchors, Onward(k, anchors)
    PROVE  WriteShows
<1>1. Over \/ Awaits("trim", k)
  BY DEF Onward
<1>2. CASE Over
  BY <1>2, OtherShows, OverSends
<1>3. CASE Awaits("trim", k)
  <2>1. "trim" \in WriteStates /\ TimelineTypeOK
    BY PartedIs DEF WriteStates
  <2>2. write'.pc = "trim"
    BY <1>3, <2>1, AwaitsIs
  <2> QED
    BY <1>3, <2>1, <2>2, OtherShows
<1> QED
  BY <1>1, <1>2, <1>3

LEMMA SameThread == ASSUME UNCHANGED <<msgIds, thread>> PROVE SameBlock
<1> QED
  BY DEF SameBlock, Shown

\* What is done to the messages of another block.
LEMMA ElsewhereIs ==
    ASSUME Parted, write.epoch # epoch, DOMAIN thread \subseteq DOMAIN thread', msgIds'[epoch] = msgIds[epoch],
           \A i \in DOMAIN thread : thread'[i] = thread[i] \/ (thread[i].epoch = write.epoch /\ thread'[i].epoch = write.epoch),
           \A i \in DOMAIN thread' : i \in DOMAIN thread \/ thread'[i].epoch = write.epoch
    PROVE  SameBlock
<1>1. \A k \in DOMAIN msgIds[epoch] : msgIds[epoch][k] \in DOMAIN thread /\ thread[msgIds[epoch][k]].epoch = epoch
  BY PartedIs DEF Anchored
<1>2. \A k \in DOMAIN msgIds[epoch] : thread'[msgIds[epoch][k]] = thread[msgIds[epoch][k]]
  BY <1>1
<1>3. Shown(thread', epoch) = Shown(thread, epoch)
  BY DEF Shown
<1> QED
  BY <1>2, <1>3 DEF SameBlock

LEMMA BlipGrows == ASSUME Works \/ Fails PROVE blip \subseteq blip' /\ (Fails => write.epoch \in blip')
<1> QED
  BY DEF Works, Fails

LEMMA ThreadFetchedShows == ASSUME Parted, Anchored', Showing, ThreadFetched PROVE WriteShows
<1>1. /\ write.pc = "thread" /\ UNCHANGED <<msgIds, thread>> /\ (Works \/ Fails)
      /\ \/ Works /\ (IF StillCurrent THEN Onward(1, Anchors) ELSE Over)
         \/ Fails /\ Over
  BY DEF ThreadFetched
<1>2. TimelineTypeOK
  BY PartedIs
<1>3. CASE StillCurrent
  <2>1. exists /\ write.epoch = epoch /\ Tended(thread', msgIds'[epoch])
    BY <1>1, <1>3 DEF StillCurrent, Showing
  <2>2. CASE Fails /\ Over
    BY <1>1, <1>3, <2>1, <2>2, BlipGrows, FailedShows
  <2>3. CASE Onward(1, Anchors)
    <3>1. Anchors \in Seq(Nat) /\ msgIds'[epoch] = Anchors
      BY <1>1, <1>2, <2>1, WriteTyped DEF Anchors
    <3>2. WrittenTo(thread', Anchors, 1)
      BY <1>2, WriteTyped DEF WrittenTo
    <3> QED
      BY <1>1, <1>3, <2>1, <2>3, <3>1, <3>2, OnwardShows
  <2> QED
    BY <1>1, <1>3, <2>2, <2>3
<1>4. CASE ~StillCurrent
  <2>1. Over /\ blip \subseteq blip' /\ SameBlock
    BY <1>1, <1>4, BlipGrows, SameThread
  <2> QED
    BY <1>4, <2>1, OtherShows, OverSends
<1> QED
  BY <1>3, <1>4

LEMMA AnchorFetchedShows == ASSUME Parted, Anchored', Showing, AnchorFetched PROVE WriteShows
<1>1. /\ write.pc = "fetch" /\ UNCHANGED <<msgIds, thread>> /\ (Works \/ Fails)
      /\ \/ Works /\ (IF StillCurrent THEN Awaits("edit", write.at) ELSE Over)
         \/ ~thread[Anchor].live /\ Works /\ Awaits("send", write.at)
         \/ Fails /\ Onward(write.at + 1, Anchors)
  BY DEF AnchorFetched
<1>2. TimelineTypeOK /\ Bounded /\ blip \subseteq blip'
  BY <1>1, PartedIs, BlipGrows
<1>3. "edit" \in WriteStates /\ "send" \in WriteStates
  BY DEF WriteStates
<1>4. CASE Awaits("edit", write.at) \/ (~thread[Anchor].live /\ Awaits("send", write.at))
  BY <1>1, <1>2, <1>3, <1>4, SameShows
<1>5. CASE Over /\ ~StillCurrent
  BY <1>1, <1>2, <1>5, SameThread, OtherShows, OverSends
<1>6. CASE Fails /\ Onward(write.at + 1, Anchors)
  <2>1. write.at + 1 \in Nat \ {0} /\ Anchors \in Seq(Nat)
    BY <1>1, <1>2, AtOneOf
  <2>2. CASE StillCurrent
    <3>1. exists /\ write.epoch = epoch /\ Tended(thread', Anchors) /\ msgIds'[epoch] = Anchors
      BY <1>1, <2>2 DEF StillCurrent, Showing, Anchors
    <3>2. epoch \in blip'
      BY <1>6, <3>1, BlipGrows
    <3> QED
      BY <1>1, <1>6, <2>1, <2>2, <3>1, <3>2, OnwardShows
  <2>3. CASE ~StillCurrent
    BY <1>1, <1>2, <1>6, <2>1, <2>3, SameThread, OnwardElsewhere
  <2> QED
    BY <2>2, <2>3
<1> QED
  BY <1>1, <1>4, <1>5, <1>6

\* An edit changes what its anchor says, and nothing else.
LEMMA EditedIs ==
    ASSUME Parted, write.pc = "edit", thread' = [thread EXCEPT ![Anchor].content = write.chunks[write.at]]
    PROVE  /\ DOMAIN thread' = DOMAIN thread /\ Anchor \in DOMAIN thread /\ thread[Anchor].epoch = write.epoch
           /\ thread'[Anchor].content = write.chunks[write.at]
           /\ \A j \in DOMAIN thread :
                 /\ thread'[j].card = thread[j].card /\ thread'[j].epoch = thread[j].epoch
                 /\ thread'[j].live = thread[j].live /\ thread'[j].stray = thread[j].stray
                 /\ j # Anchor => thread'[j] = thread[j]
<1>1. TimelineTypeOK /\ Bounded
  BY PartedIs
<1>2. /\ DOMAIN thread' = DOMAIN thread
      /\ \A j \in DOMAIN thread : thread'[j] =
             IF j = Anchor THEN [thread[j] EXCEPT !.content = write.chunks[write.at]] ELSE thread[j]
  BY <1>1, EditedTyped
<1>3. Anchor \in DOMAIN thread /\ thread[Anchor].epoch = write.epoch
  <2>1. write.at \in 1 .. Len(Anchors) /\ write.epoch \in Epochs
    BY <1>1, WriteTyped DEF Bounded
  <2>2. DOMAIN Anchors = 1 .. Len(Anchors)
    BY <1>1, WriteTyped
  <2> QED
    BY <2>1, <2>2, PartedIs DEF Anchored, Anchors, Anchor
<1>4. ASSUME NEW j \in DOMAIN thread
      PROVE  /\ thread'[j].card = thread[j].card /\ thread'[j].epoch = thread[j].epoch
             /\ thread'[j].live = thread[j].live /\ thread'[j].stray = thread[j].stray
             /\ j # Anchor => thread'[j] = thread[j]
             /\ j = Anchor => thread'[j].content = write.chunks[write.at]
  <2>1. thread[j] \in Messages
    BY <1>1, MessageTyped
  <2>2. CASE j = Anchor
    <3>1. thread'[j] = [thread[j] EXCEPT !.content = write.chunks[write.at]]
      BY <1>2, <2>2
    <3> QED
      BY <2>1, <2>2, <3>1 DEF Messages
  <2>3. CASE j # Anchor
    BY <1>2, <2>3
  <2> QED
    BY <2>2, <2>3
<1> QED
  BY <1>2, <1>3, <1>4

\* Messages that stay where they are keep a block tended.
LEMMA TendedStays ==
    ASSUME Anchored, epoch \in Epochs, Tended(thread, msgIds[epoch]), DOMAIN thread' = DOMAIN thread,
           \A j \in DOMAIN thread :
              /\ thread'[j].card = thread[j].card /\ thread'[j].epoch = thread[j].epoch
              /\ thread'[j].live = thread[j].live /\ thread'[j].stray = thread[j].stray
    PROVE  Tended(thread', msgIds[epoch])
<1>1. Shown(thread', epoch) = Shown(thread, epoch)
  BY DEF Shown
<1>2. \A k \in DOMAIN msgIds[epoch] : msgIds[epoch][k] \in DOMAIN thread
  BY DEF Anchored
<1> QED
  BY <1>1, <1>2 DEF Tended

LEMMA EditedShows == ASSUME Parted, Anchored', Showing, Edited PROVE WriteShows
<1> DEFINE edited == [thread EXCEPT ![Anchor].content = write.chunks[write.at]]
<1>1. /\ write.pc = "edit" /\ UNCHANGED msgIds /\ (Works \/ Fails)
      /\ \/ thread[Anchor].live /\ Works /\ thread' = edited /\ Onward(write.at + 1, Anchors)
         \/ ~thread[Anchor].live /\ Works /\ UNCHANGED thread /\ Awaits("send", write.at)
         \/ Fails /\ (thread' = thread \/ thread' = edited) /\ Onward(write.at + 1, Anchors)
  BY DEF Edited
<1>2. TimelineTypeOK /\ Bounded /\ Anchored /\ epoch \in Epochs /\ blip \subseteq blip'
  BY <1>1, PartedIs, BlipGrows
<1>3. /\ write.at \in Nat \ {0} /\ write.at + 1 \in Nat \ {0} /\ Anchors \in Seq(Nat) /\ write.at \in DOMAIN Anchors
      /\ DOMAIN Anchors = 1 .. Len(Anchors) /\ Len(Anchors) \in Nat
  BY <1>1, <1>2, AtOneOf, WriteTyped
<1>4. thread' = edited =>
          /\ DOMAIN thread' = DOMAIN thread /\ Anchor \in DOMAIN thread /\ thread[Anchor].epoch = write.epoch
          /\ thread'[Anchor].content = write.chunks[write.at]
          /\ \A j \in DOMAIN thread :
                /\ thread'[j].card = thread[j].card /\ thread'[j].epoch = thread[j].epoch
                /\ thread'[j].live = thread[j].live /\ thread'[j].stray = thread[j].stray
                /\ j # Anchor => thread'[j] = thread[j]
  BY <1>1, EditedIs
<1> HIDE DEF edited
<1>5. CASE ~thread[Anchor].live /\ UNCHANGED thread /\ Awaits("send", write.at)
  <2>1. "send" \in WriteStates
    BY DEF WriteStates
  <2> QED
    BY <1>1, <1>2, <1>5, <2>1, SameShows
<1>6. CASE (thread' = thread \/ thread' = edited) /\ Onward(write.at + 1, Anchors) /\ ~StillCurrent
  <2>1. exists => SameBlock
    <3>1. CASE thread' = thread
      BY <1>1, <3>1, SameThread
    <3>2. CASE thread' = edited
      <4>1. exists => write.epoch # epoch
        BY <1>6 DEF StillCurrent
      <4>2. \A i \in DOMAIN thread :
               thread'[i] = thread[i] \/ (thread[i].epoch = write.epoch /\ thread'[i].epoch = write.epoch)
        BY <1>4, <3>2
      <4>3. DOMAIN thread' = DOMAIN thread /\ msgIds'[epoch] = msgIds[epoch]
        BY <1>1, <1>4, <3>2
      <4> QED
        BY <4>1, <4>2, <4>3, ElsewhereIs
    <3> QED
      BY <1>6, <3>1, <3>2
  <2> QED
    BY <1>1, <1>2, <1>3, <1>6, <2>1, OnwardElsewhere
<1>7. CASE /\ (thread[Anchor].live /\ thread' = edited) \/ (Fails /\ (thread' = thread \/ thread' = edited))
           /\ Onward(write.at + 1, Anchors) /\ StillCurrent
  <2>1. exists /\ Writing /\ write.epoch = epoch /\ Anchors = msgIds[epoch] /\ msgIds'[epoch] = Anchors
    BY <1>1, <1>7 DEF StillCurrent, Writing, Anchors
  <2>2. Tended(thread', Anchors)
    <3>1. Tended(thread, Anchors)
      BY <2>1 DEF Showing
    <3>2. CASE thread' = edited
      BY <1>2, <1>4, <2>1, <3>1, <3>2, TendedStays
    <3> QED
      BY <1>7, <3>1, <3>2
  <2>3. ASSUME epoch \notin blip' PROVE WrittenTo(thread', Anchors, write.at + 1)
    <3>1. thread[Anchor].live /\ thread' = edited
      BY <1>7, <2>1, <2>3, BlipGrows
    <3>2. WrittenTo(thread, Anchors, write.at)
      BY <1>2, <2>1, <2>3 DEF Showing
    <3>3. ASSUME NEW j \in DOMAIN write.chunks, j < write.at + 1
          PROVE  j <= Len(Anchors) /\ thread'[Anchors[j]].live /\ thread'[Anchors[j]].content = write.chunks[j]
      <4>1. j \in Nat \ {0}
        BY <1>2, WriteTyped
      <4>2. CASE j = write.at
        BY <1>3, <1>4, <3>1, <4>2 DEF Anchor
      <4>3. CASE j < write.at
        <5>1. j <= Len(Anchors) /\ thread[Anchors[j]].live /\ thread[Anchors[j]].content = write.chunks[j]
          BY <3>2, <4>3 DEF WrittenTo
        <5>2. j \in DOMAIN Anchors /\ j # write.at
          BY <1>3, <4>1, <4>3, <5>1
        <5>3. Anchors[j] \in DOMAIN thread /\ Anchors[j] # Anchor
          BY <1>2, <1>3, <2>1, <5>2 DEF Anchored, Anchor
        <5> QED
          BY <1>4, <3>1, <5>1, <5>3
      <4> QED
        BY <1>3, <3>3, <4>1, <4>2, <4>3
    <3> QED
      BY <3>3 DEF WrittenTo
  <2> QED
    BY <1>1, <1>3, <1>7, <2>1, <2>2, <2>3, OnwardShows
<1> QED
  BY <1>1, <1>5, <1>6, <1>7

\* Surplus anchors go from the end: what is written stays.
LEMMA TrimmedShows == ASSUME Parted, Anchored', Showing, Trimmed PROVE WriteShows
<1> DEFINE last == Last(Anchors)
           f == Front(Anchors)
<1>1. /\ write.pc = "trim" /\ (Works \/ Fails)
      /\ \/ /\ Works /\ thread' = [thread EXCEPT ![last].live = FALSE]
            /\ msgIds' = [msgIds EXCEPT ![write.epoch] = f] /\ Onward(write.at, f)
         \/ Fails /\ Over /\ UNCHANGED <<msgIds, thread>>
  BY DEF Trimmed, Anchors
<1>2. TimelineTypeOK /\ Bounded /\ Anchored /\ epoch \in Epochs /\ blip \subseteq blip'
  BY <1>1, PartedIs, BlipGrows
<1>3. CASE Over /\ Fails /\ UNCHANGED <<msgIds, thread>>
  <2>1. CASE StillCurrent
    <3>1. write.epoch = epoch /\ Tended(thread', msgIds'[epoch])
      BY <1>3, <2>1 DEF StillCurrent, Showing
    <3> QED
      BY <1>3, <2>1, <3>1, BlipGrows, FailedShows
  <2>2. CASE ~StillCurrent
    BY <1>2, <1>3, <2>2, SameThread, OtherShows, OverSends
  <2> QED
    BY <2>1, <2>2
<1>4. CASE /\ Works /\ thread' = [thread EXCEPT ![last].live = FALSE]
           /\ msgIds' = [msgIds EXCEPT ![write.epoch] = f] /\ Onward(write.at, f)
  <2>1. /\ f \in Seq(Nat) /\ Len(f) = Len(Anchors) - 1
        /\ DOMAIN f = 1 .. Len(Anchors) - 1 /\ DOMAIN Anchors = 1 .. Len(Anchors)
        /\ \A k \in DOMAIN f : f[k] = Anchors[k]
        /\ last = Anchors[Len(Anchors)] /\ Len(Anchors) \in Nat \ {0}
    BY <1>1, <1>2, FrontIs
  <2>2. /\ write.at \in Nat \ {0} /\ write.epoch \in Epochs /\ msgIds = [e \in Epochs |-> msgIds[e]]
        /\ write.at > Len(write.chunks) /\ Len(Anchors) > Len(write.chunks) /\ Len(write.chunks) \in Nat
        /\ DOMAIN write.chunks = 1 .. Len(write.chunks)
    BY <1>1, <1>2, WriteTyped DEF Bounded
  <2>3. last \in DOMAIN thread /\ thread[last].epoch = write.epoch
    BY <1>2, <2>1, <2>2 DEF Anchored, Anchors
  <2> HIDE DEF last, f
  <2>4. /\ DOMAIN thread' = DOMAIN thread
        /\ \A j \in DOMAIN thread : /\ thread'[j].card = thread[j].card /\ thread'[j].epoch = thread[j].epoch
                                    /\ thread'[j].stray = thread[j].stray
                                    /\ j # last => thread'[j] = thread[j]
                                    /\ j = last => ~thread'[j].live
    <3> DEFINE m == [thread[last] EXCEPT !.live = FALSE]
    <3>1. thread' = [thread EXCEPT ![last] = m] /\ m \in Messages
      BY <1>2, <1>4, <2>3, MessageTyped
    <3> HIDE DEF m
    <3>2. DOMAIN thread' = DOMAIN thread /\ \A j \in DOMAIN thread : thread'[j] = IF j = last THEN m ELSE thread[j]
      BY <1>2, <3>1, ChangedIs
    <3>3. thread[last] \in Messages
      BY <1>2, <2>3, MessageTyped
    <3>4. /\ m.card = thread[last].card /\ m.epoch = thread[last].epoch
          /\ m.stray = thread[last].stray /\ ~m.live
      BY <3>3 DEF m, Messages
    <3> QED
      BY <3>2, <3>4
  <2>5. CASE StillCurrent
    <3>1. exists /\ Writing /\ write.epoch = epoch /\ Anchors = msgIds[epoch] /\ msgIds'[epoch] = f
      BY <1>1, <1>4, <2>2, <2>5 DEF StillCurrent, Writing, Anchors
    <3>2. Tended(thread, Anchors)
      BY <3>1 DEF Showing
    <3>3. \A k \in DOMAIN f : k \in DOMAIN Anchors /\ f[k] = Anchors[k] /\ f[k] \in DOMAIN thread /\ f[k] # last
      <4>1. ASSUME NEW k \in DOMAIN f
            PROVE  k \in DOMAIN Anchors /\ f[k] = Anchors[k] /\ f[k] \in DOMAIN thread /\ f[k] # last
        <5>1. k \in DOMAIN Anchors /\ f[k] = Anchors[k] /\ k # Len(Anchors) /\ Len(Anchors) \in DOMAIN Anchors
          BY <2>1
        <5> QED
          BY <1>2, <2>1, <3>1, <5>1 DEF Anchored
      <4> QED
        BY <4>1
    <3>4. Tended(thread', f)
      <4>1. ASSUME NEW i \in Shown(thread', epoch) PROVE i \in Range(f)
        <5>1. i \in DOMAIN thread /\ i # last /\ i \in Shown(thread, epoch)
          BY <2>4 DEF Shown
        <5>2. PICK k \in DOMAIN Anchors : i = Anchors[k]
          BY <3>2, <5>1 DEF Tended, Range
        <5>3. k # Len(Anchors)
          BY <2>1, <5>1, <5>2
        <5>4. k \in DOMAIN f /\ f[k] = i
          BY <2>1, <5>2, <5>3
        <5> QED
          BY <5>4 DEF Range
      <4>2. \A k \in DOMAIN f : ~thread'[f[k]].stray
        BY <2>4, <3>2, <3>3 DEF Tended
      <4> QED
        BY <4>1, <4>2 DEF Tended
    <3>5. ASSUME epoch \notin blip' PROVE WrittenTo(thread', f, write.at)
      <4>1. WrittenTo(thread, Anchors, write.at)
        BY <1>2, <3>1, <3>5 DEF Showing
      <4>2. ASSUME NEW j \in DOMAIN write.chunks, j < write.at
            PROVE  j <= Len(f) /\ thread'[f[j]].live /\ thread'[f[j]].content = write.chunks[j]
        <5>1. thread[Anchors[j]].live /\ thread[Anchors[j]].content = write.chunks[j]
          BY <4>1, <4>2 DEF WrittenTo
        <5>2. j \in DOMAIN f /\ j <= Len(f)
          BY <2>1, <2>2
        <5> QED
          BY <2>4, <3>3, <5>1, <5>2
      <4> QED
        BY <4>2 DEF WrittenTo
    <3> QED
      BY <1>1, <1>4, <2>1, <2>2, <2>5, <3>1, <3>4, <3>5, OnwardShows
  <2>6. CASE ~StillCurrent
    <3>1. exists => SameBlock
      <4>1. exists => write.epoch # epoch
        BY <2>6 DEF StillCurrent
      <4>2. \A i \in DOMAIN thread :
               thread'[i] = thread[i] \/ (thread[i].epoch = write.epoch /\ thread'[i].epoch = write.epoch)
        BY <2>3, <2>4
      <4>3. DOMAIN thread' = DOMAIN thread /\ (write.epoch # epoch => msgIds'[epoch] = msgIds[epoch])
        BY <1>2, <1>4, <2>2, <2>4
      <4> QED
        BY <4>1, <4>2, <4>3, ElsewhereIs
    <3> QED
      BY <1>1, <1>2, <1>4, <2>2, <2>6, <3>1, OnwardElsewhere
  <2> QED
    BY <2>5, <2>6
<1> QED
  BY <1>1, <1>3, <1>4

\* A message that is sent takes its place among the anchors.
LEMMA MessageSentShows == ASSUME Parted, Anchored', Showing, MessageSent PROVE WriteShows
<1> DEFINE anchors == [k \in DOMAIN Anchors \cup {write.at} |-> IF k = write.at THEN Len(thread) + 1 ELSE Anchors[k]]
           new(stray) == [card |-> FALSE, epoch |-> write.epoch, content |-> write.chunks[write.at],
                          live |-> TRUE, stray |-> stray]
<1>1. TimelineTypeOK /\ Bounded /\ Anchored /\ epoch \in Epochs /\ write.pc = "send" /\ (Works \/ Fails)
  BY PartedIs DEF MessageSent
<1>2. \A stray \in BOOLEAN : new(stray) \in Messages /\ Posted(stray) = Append(thread, new(stray))
  BY <1>1, PostedIs
<1>3. \A stray \in BOOLEAN : /\ new(stray).epoch = write.epoch /\ ~new(stray).card /\ new(stray).stray = stray
                             /\ new(stray).live /\ new(stray).content = write.chunks[write.at]
  OBVIOUS
<1>4. /\ DOMAIN anchors = DOMAIN Anchors \cup {write.at} /\ anchors \in Seq(Nat)
      /\ \A k \in DOMAIN anchors : anchors[k] = IF k = write.at THEN Len(thread) + 1 ELSE Anchors[k]
  BY <1>1, AnchorSet
<1>5. /\ write.at \in Nat /\ write.at + 1 \in Nat \ {0} /\ write.epoch \in Epochs /\ msgIds = [e \in Epochs |-> msgIds[e]]
      /\ DOMAIN Anchors = 1 .. Len(Anchors) /\ Len(Anchors) \in Nat
  BY <1>1, WriteTyped
<1>6. blip \subseteq blip'
  BY <1>1, BlipGrows
<1>7. Len(thread) \in Nat /\ DOMAIN thread = 1 .. Len(thread)
  BY <1>1, MessageTyped
<1> HIDE DEF new, anchors
<1>8. CASE StillCurrent /\ thread' = Posted(FALSE)
           /\ msgIds' = [msgIds EXCEPT ![write.epoch] = anchors] /\ Onward(write.at + 1, anchors)
  <2> DEFINE m == new(FALSE)
             n == Len(thread) + 1
  <2>1. m \in Messages /\ thread' = Append(thread, m) /\ m.epoch = write.epoch /\ ~m.card /\ ~m.stray /\ m.live
        /\ m.content = write.chunks[write.at]
    BY <1>2, <1>3, <1>8
  <2> HIDE DEF m
  <2>2. DOMAIN thread' = 1 .. Len(thread) + 1 /\ (\A i \in DOMAIN thread : i \in DOMAIN thread' /\ thread'[i] = thread[i])
        /\ thread'[n] = m
    BY <1>1, <2>1, OneMore
  <2>3. exists /\ Writing /\ write.epoch = epoch /\ Anchors = msgIds[epoch] /\ msgIds'[epoch] = anchors
    BY <1>1, <1>5, <1>8 DEF StillCurrent, Writing, Anchors
  <2>4. Tended(thread, Anchors)
    BY <2>3 DEF Showing
  <2>5. \A k \in DOMAIN Anchors : Anchors[k] \in DOMAIN thread
    BY <1>1, <2>3 DEF Anchored
  <2>6. ASSUME NEW i \in Shown(thread', epoch) PROVE i \in Range(anchors)
    <3>1. CASE i = n
      <4>1. write.at \in DOMAIN anchors /\ anchors[write.at] = n
        BY <1>4
      <4> QED
        BY <3>1, <4>1 DEF Range
    <3>2. CASE i # n
      <4>1. i \in DOMAIN thread /\ i \in Shown(thread, epoch) /\ thread[i].live
        BY <1>7, <2>2, <3>2 DEF Shown
      <4>2. PICK k \in DOMAIN Anchors : i = Anchors[k]
        BY <2>4, <4>1 DEF Tended, Range
      <4>3. k # write.at
        BY <1>1, <4>1, <4>2 DEF Showing, Anchor
      <4>4. k \in DOMAIN anchors /\ anchors[k] = i
        BY <1>4, <4>2, <4>3
      <4> QED
        BY <4>4 DEF Range
    <3> QED
      BY <3>1, <3>2
  <2>7. ASSUME NEW k \in DOMAIN anchors PROVE ~thread'[anchors[k]].stray
    <3>1. CASE k = write.at
      BY <1>4, <2>1, <2>2, <3>1
    <3>2. CASE k # write.at
      <4>1. k \in DOMAIN Anchors /\ anchors[k] = Anchors[k]
        BY <1>4, <3>2
      <4> QED
        BY <2>2, <2>4, <2>5, <4>1 DEF Tended
    <3> QED
      BY <3>1, <3>2
  <2>8. Tended(thread', anchors)
    BY <2>6, <2>7 DEF Tended
  <2>9. ASSUME epoch \notin blip' PROVE WrittenTo(thread', anchors, write.at + 1)
    <3>1. WrittenTo(thread, Anchors, write.at)
      BY <1>6, <2>3, <2>9 DEF Showing
    <3>2. ASSUME NEW j \in DOMAIN write.chunks, j < write.at + 1
          PROVE  j <= Len(anchors) /\ thread'[anchors[j]].live /\ thread'[anchors[j]].content = write.chunks[j]
      <4>1. j \in Nat \ {0}
        BY <1>1, WriteTyped
      <4>2. \A k \in DOMAIN anchors : k <= Len(anchors)
        <5>1. anchors \in Seq(Nat)
          BY <1>4
        <5>2. DOMAIN anchors = 1 .. Len(anchors)
          BY <5>1
        <5>3. Len(anchors) \in Nat
          BY <5>1
        <5> QED
          BY <5>2, <5>3
      <4>3. CASE j = write.at
        <5>1. j \in DOMAIN anchors /\ anchors[j] = n
          BY <1>4, <4>3
        <5> QED
          BY <2>1, <2>2, <4>2, <4>3, <5>1
      <4>4. CASE j < write.at
        <5>1. j <= Len(Anchors) /\ thread[Anchors[j]].live /\ thread[Anchors[j]].content = write.chunks[j]
          BY <3>1, <4>4 DEF WrittenTo
        <5>2. j \in DOMAIN Anchors /\ j # write.at
          BY <1>5, <4>1, <4>4, <5>1
        <5>3. j \in DOMAIN anchors /\ anchors[j] = Anchors[j]
          BY <1>4, <5>2
        <5> QED
          BY <2>2, <2>5, <4>2, <5>1, <5>2, <5>3
      <4> QED
        BY <1>5, <3>2, <4>1, <4>3, <4>4
    <3> QED
      BY <3>2 DEF WrittenTo
  <2> QED
    BY <1>1, <1>4, <1>5, <1>8, <2>3, <2>8, <2>9, OnwardShows
<1>9. ASSUME NEW stray \in BOOLEAN, thread' = Posted(stray), UNCHANGED msgIds, write.epoch # epoch PROVE SameBlock
  <2> DEFINE m == new(stray)
  <2>1. m \in Messages /\ thread' = Append(thread, m) /\ m.epoch = write.epoch
    BY <1>2, <1>3, <1>9
  <2> HIDE DEF m
  <2>2. DOMAIN thread' = 1 .. Len(thread) + 1 /\ (\A i \in DOMAIN thread : i \in DOMAIN thread' /\ thread'[i] = thread[i])
        /\ thread'[Len(thread) + 1] = m
    BY <1>1, <2>1, OneMore
  <2>3. \A i \in DOMAIN thread' : i \in DOMAIN thread \/ thread'[i].epoch = write.epoch
    BY <1>7, <2>1, <2>2
  <2>4. DOMAIN thread \subseteq DOMAIN thread' /\ msgIds'[epoch] = msgIds[epoch]
    BY <1>9, <2>2
  <2> QED
    BY <1>9, <2>2, <2>3, <2>4, ElsewhereIs
<1>10. CASE ~StillCurrent /\ thread' = Posted(FALSE) /\ UNCHANGED msgIds /\ Awaits("late", write.at)
  <2>1. exists => SameBlock
    BY <1>9, <1>10 DEF StillCurrent
  <2>2. "late" \in WriteStates
    BY DEF WriteStates
  <2>3. write'.pc = "late"
    BY <1>1, <1>5, <1>10, <2>2, AwaitsIs
  <2> QED
    BY <1>5, <1>6, <1>10, <2>1, <2>2, <2>3, OtherShows
<1>11. CASE Fails /\ (thread' = thread \/ thread' = Posted(TRUE)) /\ UNCHANGED msgIds /\ Over
  <2>1. CASE ~StillCurrent
    <3>1. exists => SameBlock
      <4>1. CASE thread' = thread
        BY <1>11, <4>1, SameThread
      <4>2. CASE thread' = Posted(TRUE)
        BY <1>9, <1>11, <2>1, <4>2 DEF StillCurrent
      <4> QED
        BY <1>11, <4>1, <4>2
    <3> QED
      BY <1>6, <1>11, <2>1, <3>1, OtherShows, OverSends
  <2>2. CASE StillCurrent
    <3>1. exists /\ epoch \in blip' /\ Tended(thread, msgIds[epoch]) /\ msgIds'[epoch] = msgIds[epoch]
      BY <1>11, <2>2, BlipGrows DEF StillCurrent, Showing
    <3>2. Tended(thread', msgIds'[epoch])
      <4>1. CASE thread' = Posted(TRUE)
        <5> DEFINE m == new(TRUE)
        <5>1. m \in Messages /\ thread' = Append(thread, m) /\ m.stray
          BY <1>2, <1>3, <4>1
        <5> HIDE DEF m
        <5>2. DOMAIN thread' = 1 .. Len(thread) + 1 /\ (\A i \in DOMAIN thread : i \in DOMAIN thread' /\ thread'[i] = thread[i])
              /\ thread'[Len(thread) + 1] = m
          BY <1>1, <5>1, OneMore
        <5>3. Shown(thread', epoch) \subseteq Shown(thread, epoch)
          BY <1>7, <5>1, <5>2 DEF Shown
        <5>4. \A k \in DOMAIN msgIds[epoch] : msgIds[epoch][k] \in DOMAIN thread
          BY <1>1 DEF Anchored
        <5> QED
          BY <3>1, <5>2, <5>3, <5>4 DEF Tended
      <4> QED
        BY <1>11, <3>1, <4>1
    <3> QED
      BY <1>11, <2>2, <3>1, <3>2, FailedShows
  <2> QED
    BY <2>1, <2>2
<1> QED
  BY <1>8, <1>10, <1>11 DEF MessageSent, anchors

\* What is late is of a block that is over.
LEMMA LateDeletedShows == ASSUME Parted, Anchored', Showing, LateDeleted PROVE WriteShows
<1> DEFINE last == LateMessage
           a == [thread[last] EXCEPT !.live = FALSE]
           b == [thread[last] EXCEPT !.stray = TRUE]
<1>1. /\ TimelineTypeOK /\ TimelineSound /\ Anchored /\ write.pc = "late" /\ Over /\ UNCHANGED msgIds
      /\ Works \/ Fails
      /\ thread' = [thread EXCEPT ![last] = a] \/ thread' = [thread EXCEPT ![last] = b]
  BY PartedIs DEF LateDeleted
<1>2. last \in DOMAIN thread /\ thread[last].epoch = write.epoch
  BY <1>1, LateIs
<1>3. thread[last] \in Messages /\ a \in Messages /\ b \in Messages
  BY <1>1, <1>2, MessageTyped
<1>4. a.epoch = thread[last].epoch /\ b.epoch = thread[last].epoch
  BY <1>3 DEF Messages
<1>5. PICK m : m \in Messages /\ thread' = [thread EXCEPT ![last] = m] /\ m.epoch = thread[last].epoch
  <2> HIDE DEF a, b
  <2> QED
    BY <1>1, <1>3, <1>4
<1> HIDE DEF last, a, b
<1>6. DOMAIN thread' = DOMAIN thread /\ \A j \in DOMAIN thread : thread'[j] = IF j = last THEN m ELSE thread[j]
  BY <1>1, <1>5, ChangedIs
<1>7. ~StillCurrent
  BY <1>1 DEF Anchored
<1>8. exists => SameBlock
  <2>1. exists => write.epoch # epoch
    BY <1>7 DEF StillCurrent
  <2>2. \A i \in DOMAIN thread :
           thread'[i] = thread[i] \/ (thread[i].epoch = write.epoch /\ thread'[i].epoch = write.epoch)
    BY <1>2, <1>5, <1>6
  <2>3. DOMAIN thread' = DOMAIN thread /\ msgIds'[epoch] = msgIds[epoch]
    BY <1>1, <1>6
  <2> QED
    BY <2>1, <2>2, <2>3, ElsewhereIs
<1> QED
  BY <1>1, <1>7, <1>8, BlipGrows, OtherShows, OverSends

LEMMA WriteStepShows == ASSUME Parted, Anchored', Showing, Write PROVE WriteShows
<1> QED
  BY ThreadFetchedShows, AnchorFetchedShows, EditedShows, MessageSentShows, LateDeletedShows, TrimmedShows DEF Write

-----------------------------------------------------------------------------
(* Every step keeps it on show.                                             *)

\* A new block has shown nothing yet.
LEMMA FreshBlock ==
    ASSUME TimelineTypeOK', Anchored', epoch \in Nat, epoch' = epoch + 1, Rendered' = <<>>,
           \A i \in DOMAIN thread' : thread'[i].epoch <= epoch, write'.pc = "none" \/ write'.epoch <= epoch,
           write'.pc = "send" /\ write'.at \in DOMAIN Anchors' => ~thread'[Anchor'].live
    PROVE  Showing'
<1> DEFINE a == msgIds'[epoch']
<1>1. ~(epoch' <= epoch) /\ epoch' \in Epochs
  BY DEF TimelineTypeOK
<1>2. \A i \in DOMAIN thread' : thread'[i].epoch # epoch'
  BY <1>1
<1>3. DOMAIN a = {}
  BY <1>1, <1>2 DEF Anchored
<1>4. a \in Seq(Nat)
  BY <1>1 DEF TimelineTypeOK
<1>5. Len(a) = 0
  <2> HIDE DEF a
  <2> QED
    BY <1>3, <1>4
<1>6. Shown(thread', epoch') = {} /\ Range(a) = {}
  BY <1>2, <1>3 DEF Shown, Range
<1>7. Len(<<>>) = 0 /\ DOMAIN <<>> = {}
  OBVIOUS
<1>8. Shows(thread', a, epoch', <<>>)
  BY <1>3, <1>5, <1>6, <1>7, NothingToShow DEF Shows, Shown
<1>9. Tended(thread, msgIds[epoch])'
  BY <1>3, <1>6 DEF Tended
<1>10. ~Writing'
  BY <1>1 DEF Writing
<1> QED
  BY <1>8, <1>9, <1>10 DEF Showing

\* What may change while a block stays on show.
LEMMA BlockStays ==
    ASSUME TimelineTypeOK, Showing, UNCHANGED <<exists, epoch, late, write>>, Rendered' = Rendered,
           blip \subseteq blip', exists => SameBlock,
           write'.pc = "send" /\ write'.at \in DOMAIN Anchors' => ~thread'[Anchor'].live
    PROVE  Showing'
<1>1. Writing' = Writing
  BY DEF Writing
<1>2. exists => Tended(thread, msgIds[epoch])'
  <2>1. exists => Tended(thread', msgIds'[epoch])
    BY SameBlockShows DEF Showing
  <2> QED
    BY <2>1 DEF Tended
<1>3. exists /\ Writing /\ epoch \notin blip' => WrittenTo(thread, msgIds[epoch], write.at)'
  <2>1. exists /\ Writing /\ epoch \notin blip' => WrittenTo(thread', msgIds'[epoch], write.at)
    BY SameBlockShows DEF Showing
  <2> QED
    BY <2>1 DEF WrittenTo
<1>4. exists /\ ~Writing /\ ~late /\ epoch \notin blip' => Shows(thread', msgIds'[epoch'], epoch', Rendered')
  BY SameBlockShows DEF Showing
<1>5. exists /\ Writing /\ ~late => write'.chunks = Chunks(Rendered')
  BY DEF Showing
<1> QED
  BY <1>1, <1>2, <1>3, <1>4, <1>5 DEF Showing

\* Something new is not yet on show.
LEMMA LateShows ==
    ASSUME Showing, exists, late' = TRUE, UNCHANGED <<epoch, discord, blip>>
    PROVE  Showing'
<1>1. UNCHANGED <<msgIds, write, thread>> /\ Writing' = Writing
  BY DEF discord, Writing
<1>2. Tended(thread, msgIds[epoch])'
  BY <1>1 DEF Showing, Tended
<1>3. Writing /\ epoch \notin blip' => WrittenTo(thread, msgIds[epoch], write.at)'
  BY <1>1 DEF Showing, WrittenTo
<1>4. write'.pc = "send" /\ write'.at \in DOMAIN Anchors' => ~thread'[Anchor'].live
  BY <1>1 DEF Showing, Anchors, Anchor
<1> QED
  BY <1>1, <1>2, <1>3, <1>4 DEF Showing

\* Whoever goes on has seen the block on show, or leaves it behind.
LEMMA ResumedShows ==
    ASSUME Parted, TimelineTypeOK', Anchored', NEW by \in Askers, Resumed(by), write'.pc = "none",
           \A i \in DOMAIN thread' : thread'[i].epoch <= epoch,
           exists => Tended(thread', msgIds'[epoch]),
           exists /\ ~late /\ epoch \notin blip' => Shows(thread', msgIds'[epoch], epoch, Rendered)
    PROVE  Showing'
<1>1. CASE UNCHANGED <<renderer, exists, epoch, late>>
  <2>1. UNCHANGED <<exists, epoch, late>> /\ Rendered' = Rendered
    BY <1>1 DEF renderer, Rendered
  <2>2. exists' => Tended(thread, msgIds[epoch])'
    BY <2>1 DEF Tended
  <2>3. ~Writing'
    BY DEF Writing
  <2> QED
    BY <2>1, <2>2, <2>3 DEF Showing
<1>2. CASE by \in Cards /\ Sealed(by)
  <2>1. epoch \in Nat
    BY PartedIs
  <2>2. epoch' = epoch + 1 /\ items' = <<>>
    BY <1>2, SealedIs
  <2>3. Rendered' = <<>>
    BY <2>2 DEF Rendered
  <2> QED
    BY <2>1, <2>2, <2>3, FreshBlock
<1> QED
  BY <1>1, <1>2, ResumedCases

\* A write touches no message that is ahead of the block.
LEMMA WritesBehind ==
    ASSUME Parted, Write
    PROVE  \A i \in DOMAIN thread' : thread'[i].epoch <= epoch
<1>1. TimelineTypeOK /\ Bounded /\ Anchored /\ TimelineSound /\ epoch \in Epochs
  BY PartedIs
<1>2. write.epoch <= epoch /\ \A i \in DOMAIN thread : thread[i].epoch <= epoch
  BY <1>1 DEF Anchored
<1>3. CASE UNCHANGED thread
  BY <1>2, <1>3
<1>4. ASSUME write.pc = "edit", thread' = [thread EXCEPT ![Anchor].content = write.chunks[write.at]]
      PROVE  \A i \in DOMAIN thread' : thread'[i].epoch <= epoch
  BY <1>2, <1>4, EditedIs
<1>5. ASSUME write.pc = "send", NEW stray \in BOOLEAN, thread' = Posted(stray)
      PROVE  \A i \in DOMAIN thread' : thread'[i].epoch <= epoch
  <2> DEFINE m == [card |-> FALSE, epoch |-> write.epoch, content |-> write.chunks[write.at], live |-> TRUE, stray |-> stray]
  <2>1. m \in Messages /\ thread' = Append(thread, m)
    BY <1>1, <1>5, PostedIs
  <2>2. m.epoch = write.epoch
    OBVIOUS
  <2> HIDE DEF m
  <2>3. /\ Len(thread) \in Nat /\ DOMAIN thread = 1 .. Len(thread) /\ DOMAIN thread' = 1 .. Len(thread) + 1
        /\ \A i \in DOMAIN thread : i \in DOMAIN thread' /\ thread'[i] = thread[i]
        /\ thread'[Len(thread) + 1] = m
    BY <1>1, <2>1, OneMore
  <2> QED
    BY <1>2, <2>2, <2>3
<1>6. ASSUME NEW x, NEW m, m = [thread[x] EXCEPT !.live = FALSE] \/ m = [thread[x] EXCEPT !.stray = TRUE],
             thread' = [thread EXCEPT ![x] = m]
      PROVE  \A i \in DOMAIN thread' : thread'[i].epoch <= epoch
  <2>1. ASSUME NEW i \in DOMAIN thread' PROVE thread'[i].epoch <= epoch
    <3>1. i \in DOMAIN thread /\ thread[i] \in Messages
      BY <1>1, <1>6, MessageTyped
    <3>2. thread'[i] = IF i = x THEN m ELSE thread[i]
      BY <1>6, <3>1
    <3>3. i = x => m.epoch = thread[i].epoch
      BY <1>6, <3>1 DEF Messages
    <3> QED
      BY <1>2, <3>1, <3>2, <3>3
  <2> QED
    BY <2>1
<1>7. CASE Trimmed
  BY <1>3, <1>6, <1>7 DEF Trimmed
<1>8. CASE LateDeleted
  BY <1>3, <1>6, <1>8 DEF LateDeleted
<1>9. CASE MessageSent
  BY <1>3, <1>5, <1>9 DEF MessageSent
<1>10. CASE Edited
  BY <1>3, <1>4, <1>10 DEF Edited
<1>11. CASE ThreadFetched \/ AnchorFetched
  BY <1>3, <1>11 DEF ThreadFetched, AnchorFetched
<1> QED
  BY <1>7, <1>8, <1>9, <1>10, <1>11 DEF Write

LEMMA CardPostedShows == ASSUME Parted, Showing, NEW c \in Cards, CardPosted(c) PROVE Showing'
<1>1. TimelineTypeOK /\ Anchored /\ epoch \in Epochs /\ UNCHANGED <<born, msgIds, write, blip>>
  BY PartedIs, CardPostedIs
<1>2. CASE turn = "running" /\ Render(items') /\ UNCHANGED thread /\ faults' = faults + 1
  <2>1. exists /\ late' = TRUE /\ UNCHANGED epoch
    BY <1>2 DEF Parted, Owned, Render
  <2>2. UNCHANGED <<msgIds, write, thread>> /\ Writing' = Writing
    BY <1>1, <1>2, <2>1 DEF Writing
  <2>3. Tended(thread, msgIds[epoch])'
    BY <2>1, <2>2 DEF Showing, Tended
  <2>4. Writing /\ epoch \notin blip' => WrittenTo(thread, msgIds[epoch], write.at)'
    BY <1>1, <2>1, <2>2 DEF Showing, WrittenTo
  <2>5. write'.pc = "send" /\ write'.at \in DOMAIN Anchors' => ~thread'[Anchor'].live
    BY <2>2 DEF Showing, Anchors, Anchor
  <2> QED
    BY <1>1, <2>1, <2>2, <2>3, <2>4, <2>5 DEF Showing
<1>3. CASE UNCHANGED <<items, transport, late, thread>>
  <2>1. UNCHANGED <<exists, epoch>> /\ Rendered' = Rendered /\ SameBlock
    BY <1>1, <1>3, SameThread DEF transport, Rendered
  <2>2. write'.pc = "send" /\ write'.at \in DOMAIN Anchors' => ~thread'[Anchor'].live
    BY <1>1, <1>3 DEF Showing, Anchors, Anchor
  <2> QED
    BY <1>1, <1>3, <2>1, <2>2, BlockStays
<1>4. CASE thread' = Append(thread, CardMessage) /\ UNCHANGED <<items, transport, late>>
  <2> DEFINE m == CardMessage
  <2>1. m \in Messages /\ m.card
    BY <1>1, CardMessageIs DEF CardMessage
  <2>2. thread' = Append(thread, m) /\ UNCHANGED <<exists, epoch>> /\ Rendered' = Rendered
    BY <1>1, <1>4 DEF transport, Rendered
  <2> HIDE DEF m
  <2>3. /\ Len(thread) \in Nat /\ DOMAIN thread = 1 .. Len(thread) /\ DOMAIN thread' = 1 .. Len(thread) + 1
        /\ \A i \in DOMAIN thread : i \in DOMAIN thread' /\ thread'[i] = thread[i]
        /\ thread'[Len(thread) + 1] = m
    BY <1>1, <2>1, <2>2, OneMore
  <2>4. \A e \in Epochs : \A k \in DOMAIN msgIds[e] : msgIds[e][k] \in DOMAIN thread
    BY <1>1 DEF Anchored
  <2>5. SameBlock
    <3>1. Shown(thread', epoch) = Shown(thread, epoch)
      BY <2>1, <2>3 DEF Shown
    <3>2. \A k \in DOMAIN msgIds[epoch] : thread'[msgIds[epoch][k]] = thread[msgIds[epoch][k]]
      BY <1>1, <2>3, <2>4
    <3> QED
      BY <1>1, <3>1, <3>2 DEF SameBlock
  <2>6. write'.pc = "send" /\ write'.at \in DOMAIN Anchors' => ~thread'[Anchor'].live
    <3>1. ASSUME write.at \in DOMAIN Anchors PROVE thread'[Anchor] = thread[Anchor]
      BY <1>1, <2>3, <2>4, <3>1, WriteTyped DEF Anchors, Anchor
    <3> QED
      BY <1>1, <3>1 DEF Showing, Anchors, Anchor
  <2> QED
    BY <1>1, <1>4, <2>2, <2>5, <2>6, BlockStays
<1> QED
  BY <1>1, <1>2, <1>3, <1>4, CardPostedIs

\* A message that somebody deletes is missed in its block.
LEMMA MessageDeletedShows ==
    ASSUME Parted, Showing, NEW i \in DOMAIN thread, MessageDeleted(i)
    PROVE  Showing'
<1>1. TimelineTypeOK /\ Anchored /\ epoch \in Epochs /\ UNCHANGED <<msgIds, write>> /\ blip' = blip \cup {thread[i].epoch}
  BY PartedIs DEF MessageDeleted
<1>2. UNCHANGED <<exists, epoch, late>> /\ Rendered' = Rendered
  BY DEF MessageDeleted, renderer, transport, Rendered
<1>3. /\ DOMAIN thread' = DOMAIN thread
      /\ \A j \in DOMAIN thread : /\ thread'[j].card = thread[j].card /\ thread'[j].epoch = thread[j].epoch
                                  /\ thread'[j].stray = thread[j].stray /\ (thread'[j].live => thread[j].live)
                                  /\ j # i => thread'[j] = thread[j]
  <2>1. ASSUME NEW j \in DOMAIN thread
        PROVE  /\ thread'[j].card = thread[j].card /\ thread'[j].epoch = thread[j].epoch
               /\ thread'[j].stray = thread[j].stray /\ (thread'[j].live => thread[j].live)
               /\ j # i => thread'[j] = thread[j]
    <3>1. thread[j] \in Messages
      BY <1>1, MessageTyped
    <3>2. thread'[j] = IF j = i THEN [thread[j] EXCEPT !.live = FALSE] ELSE thread[j]
      BY <1>1, MessageDeletedIs
    <3>3. CASE j = i
      <4>1. thread'[j] = [thread[j] EXCEPT !.live = FALSE]
        BY <3>2, <3>3
      <4> QED
        BY <3>1, <3>3, <4>1 DEF Messages
    <3>4. CASE j # i
      BY <3>2, <3>4
    <3> QED
      BY <3>3, <3>4
  <2>2. DOMAIN thread' = DOMAIN thread
    BY <1>1, MessageDeletedIs
  <2> QED
    BY <2>1, <2>2
<1>4. write'.pc = "send" /\ write'.at \in DOMAIN Anchors' => ~thread'[Anchor'].live
  <2>1. ASSUME write.pc = "send", write.at \in DOMAIN Anchors PROVE ~thread'[Anchor].live
    <3>1. Anchor \in DOMAIN thread /\ ~thread[Anchor].live
      BY <1>1, <2>1, WriteTyped DEF Anchored, Anchors, Anchor, Showing
    <3> QED
      BY <1>3, <3>1
  <2> QED
    BY <1>1, <2>1 DEF Anchors, Anchor
<1>5. CASE thread[i].epoch # epoch
  <2>1. \A k \in DOMAIN msgIds[epoch] : thread'[msgIds[epoch][k]] = thread[msgIds[epoch][k]]
    BY <1>1, <1>3, <1>5 DEF Anchored
  <2>2. Shown(thread', epoch) = Shown(thread, epoch)
    BY <1>3, <1>5 DEF Shown
  <2>3. SameBlock
    BY <1>1, <2>1, <2>2 DEF SameBlock
  <2> QED
    BY <1>1, <1>2, <1>4, <2>3, BlockStays
<1>6. CASE thread[i].epoch = epoch
  <2>1. epoch' \in blip'
    BY <1>1, <1>2, <1>6
  <2>2. exists => Tended(thread', msgIds'[epoch])
    <3>1. Shown(thread', epoch) \subseteq Shown(thread, epoch)
      BY <1>3 DEF Shown
    <3>2. \A k \in DOMAIN msgIds[epoch] : msgIds[epoch][k] \in DOMAIN thread
      BY <1>1 DEF Anchored
    <3> QED
      BY <1>1, <1>3, <3>1, <3>2 DEF Showing, Tended
  <2>3. exists' => Tended(thread, msgIds[epoch])'
    BY <1>2, <2>2 DEF Tended
  <2>4. exists' /\ Writing' /\ ~late' => write'.chunks = Chunks(Rendered')
    BY <1>1, <1>2 DEF Showing, Writing
  <2> QED
    BY <1>4, <2>1, <2>3, <2>4 DEF Showing
<1> QED
  BY <1>5, <1>6

LEMMA WriteBeginsShows ==
    ASSUME Parted, Anchored', TimelineTypeOK', Showing, WriteBegins
    PROVE  Showing'
<1>1. TimelineTypeOK /\ Anchored /\ write.pc = "none" /\ UNCHANGED <<msgIds, thread>>
  BY PartedIs, WriteBeginsIs
<1>2. CASE /\ exists /\ latest # Nil /\ UNCHANGED <<renderer, exists, epoch>>
           /\ write' = [pc |-> "thread", by |-> Head(chain).by, epoch |-> epoch, chunks |-> Chunks(latest), at |-> 1]
  <2>1. latest = Rendered /\ Rendered' = Rendered
    BY <1>2 DEF Parted, Owned, Rendered, renderer
  <2>2. write'.pc = "thread" /\ write'.epoch = epoch' /\ write'.chunks = Chunks(Rendered') /\ write'.at = 1
    BY <1>2, <2>1
  <2>3. DOMAIN write'.chunks \subseteq Nat \ {0}
    <3>1. write' \in Writes
      <4>1. write' \in [pc : {"none", "thread", "fetch", "edit", "send", "late", "trim"}, by : Askers,
                        epoch : Epochs, chunks : Seq(Seq(Items)), at : Nat]
        BY DEF TimelineTypeOK
      <4> QED
        BY <4>1 DEF Writes, WriteStates
    <3>2. write'.chunks \in Seq(Seq(Items))
      BY <3>1 DEF Writes
    <3> QED
      BY <3>2
  <2>4. WrittenTo(thread, msgIds[epoch], write.at)'
    BY <2>2, <2>3 DEF WrittenTo
  <2>5. Tended(thread, msgIds[epoch])'
    BY <1>1, <1>2 DEF Showing, Tended
  <2>6. Writing'
    BY <2>2 DEF Writing
  <2> QED
    BY <2>2, <2>4, <2>5, <2>6 DEF Showing
<1>3. CASE Resumed(Head(chain).by) /\ UNCHANGED <<write, blip>>
  <2>1. Head(chain).by \in Askers
    BY <1>1, WriteBeginsIs, TailIs
  <2>2. \A i \in DOMAIN thread' : thread'[i].epoch <= epoch
    BY <1>1 DEF Anchored
  <2>3. ~Writing
    BY <1>1 DEF Writing
  <2>4. exists => Tended(thread', msgIds'[epoch])
    BY <1>1 DEF Showing
  <2>5. exists /\ ~late /\ epoch \notin blip' => Shows(thread', msgIds'[epoch], epoch, Rendered)
    BY <1>1, <1>3, <2>3 DEF Showing
  <2> QED
    BY <1>1, <1>3, <2>1, <2>2, <2>4, <2>5, ResumedShows
<1> QED
  BY <1>1, <1>2, <1>3, WriteBeginsIs

LEMMA WriteKeepsShowing ==
    ASSUME Parted, Anchored', TimelineTypeOK', Showing, Write
    PROVE  Showing'
<1>1. WriteShows
  BY WriteStepShows
<1>2. TimelineTypeOK /\ Bounded /\ write.pc # "none"
  <2>1. TimelineTypeOK /\ Bounded
    BY PartedIs
  <2> QED
    BY <2>1, WriteStepGoes DEF WriteGoes
<1>3. CASE Over /\ (exists /\ ~late /\ epoch \notin blip' => Shows(thread', msgIds'[epoch], epoch, Rendered))
  <2>1. write'.pc = "none" /\ Resumed(write.by) /\ write.by \in Askers
    BY <1>2, <1>3, OverIs, WriteTyped
  <2>2. exists => Tended(thread', msgIds'[epoch])
    BY <1>1 DEF WriteShows
  <2> QED
    BY <1>3, <2>1, <2>2, WritesBehind, ResumedShows
<1>4. ASSUME NEW state \in WriteStates, NEW k \in Nat, Awaits(state, k),
             exists /\ Writing /\ epoch \notin blip' => WrittenTo(thread', msgIds'[epoch], write'.at),
             exists /\ ~Writing /\ ~late /\ epoch \notin blip' => Shows(thread', msgIds'[epoch], epoch, Rendered)
      PROVE  Showing'
  <2>1. write'.pc = state /\ write'.epoch = write.epoch /\ write'.chunks = write.chunks
    BY <1>2, <1>4, AwaitsIs
  <2>2. UNCHANGED <<exists, epoch, late>> /\ Rendered' = Rendered
    BY <1>4 DEF Awaits, transport, renderer, Rendered
  <2>3. Writing' = Writing
    BY <1>2, <2>1, <2>2 DEF Writing, WriteStates
  <2>4. exists' => Tended(thread, msgIds[epoch])'
    <3>1. exists => Tended(thread', msgIds'[epoch])
      BY <1>1 DEF WriteShows
    <3> QED
      BY <2>2, <3>1 DEF Tended
  <2>5. exists' /\ Writing' /\ epoch' \notin blip' => WrittenTo(thread, msgIds[epoch], write.at)'
    <3>1. exists /\ Writing /\ epoch \notin blip' => WrittenTo(thread', msgIds'[epoch], write'.at)
      BY <1>4
    <3> QED
      BY <2>1, <2>2, <2>3, <3>1 DEF WrittenTo
  <2>6. exists' /\ Writing' /\ ~late' => write'.chunks = Chunks(Rendered')
    BY <2>1, <2>2, <2>3 DEF Showing
  <2>7. write'.pc = "send" /\ write'.at \in DOMAIN Anchors' => ~thread'[Anchor'].live
    BY <1>1 DEF WriteShows
  <2> QED
    BY <1>4, <2>2, <2>3, <2>4, <2>5, <2>6, <2>7 DEF Showing
<1> QED
  BY <1>1, <1>3, <1>4 DEF WriteShows

LEMMA NextShowing ==
    ASSUME EarlyTodos = FALSE, Parted, Showing, [TimelineNext]_timelineVars
    PROVE  Showing'
<1>1. Parted'
  BY NextParted
<1>2. Anchored' /\ TimelineTypeOK'
  BY <1>1 DEF Parted, TimelineSound
<1>3. TimelineTypeOK /\ Anchored /\ TimelineSound /\ Owned /\ epoch \in Nat
  BY PartedIs DEF Parted
<1>4. CASE Said
  <2>1. Happens /\ InTime
    BY <1>3, <1>4, SaidIs
  <2>2. exists
    BY <1>3, <2>1, InTimeIs
  <2> QED
    BY <2>1, <2>2, LateShows DEF Happens
<1>5. ASSUME NEW t \in Tools, ToolStart(t) \/ ToolComplete(t) PROVE Showing'
  <2>1. Happens /\ turn = "running"
    BY <1>5, AppliedIs DEF ToolStart, ToolComplete
  <2>2. exists
    BY <1>3, <2>1 DEF Owned
  <2> QED
    BY <2>1, <2>2, LateShows DEF Happens
<1>6. CASE TurnBegins
  <2>1. epoch' = epoch + 1 /\ UNCHANGED <<born, thread, write, msgIds>>
    BY <1>6 DEF TurnBegins, Reset, renderer, discord
  <2>2. born <= epoch /\ born \in Nat
    BY <1>3, NumbersAre DEF Owned
  <2>3. born' # epoch'
    BY <1>3, <2>1, <2>2
  <2>4. Rendered' = <<>>
    BY <2>3 DEF Rendered
  <2>5. (\A i \in DOMAIN thread' : thread'[i].epoch <= epoch) /\ write'.epoch <= epoch
    BY <1>3, <2>1 DEF Anchored
  <2>6. write'.pc = "send" /\ write'.at \in DOMAIN Anchors' => ~thread'[Anchor'].live
    BY <2>1 DEF Showing, Anchors, Anchor
  <2> QED
    BY <1>2, <1>3, <2>1, <2>4, <2>5, <2>6, FreshBlock
<1>7. ASSUME UNCHANGED <<exists, epoch, late, discord, blip>>, Rendered' = Rendered PROVE Showing'
  <2>1. UNCHANGED <<write, thread, msgIds>> /\ SameBlock
    BY <1>7, SameThread DEF discord
  <2>2. write'.pc = "send" /\ write'.at \in DOMAIN Anchors' => ~thread'[Anchor'].live
    BY <2>1 DEF Showing, Anchors, Anchor
  <2> QED
    BY <1>3, <1>7, <2>1, <2>2, BlockStays
<1>8. CASE RendererStarts
  <2>1. UNCHANGED <<exists, epoch, late, discord, blip>>
    BY <1>8 DEF RendererStarts, transport
  <2>2. Rendered = <<>> /\ Rendered' = <<>>
    BY <1>3, <1>8 DEF RendererStarts, Owned, Rendered
  <2> QED
    BY <1>7, <2>1, <2>2
<1>9. CASE FinalFlush \/ TimerFires \/ UNCHANGED timelineVars
  <2>1. UNCHANGED <<exists, epoch, late, discord, blip, renderer>>
    BY <1>9 DEF FinalFlush, TimerFires, Flush, timelineVars, transport
  <2>2. Rendered' = Rendered
    BY <2>1 DEF Rendered, renderer
  <2> QED
    BY <1>7, <2>1, <2>2
<1>10. ASSUME NEW c \in Cards, NEW kind \in Kinds, CardBegins(c, kind) PROVE Showing'
  <2>1. UNCHANGED <<exists, epoch, late, discord, blip, renderer>>
    BY <1>10 DEF CardBegins, Flush
  <2>2. Rendered' = Rendered
    BY <2>1 DEF Rendered, renderer
  <2> QED
    BY <1>7, <2>1, <2>2
<1>11. CASE Dispose
  <2>1. ~exists' /\ UNCHANGED discord
    BY <1>11 DEF Dispose
  <2>2. UNCHANGED <<write, thread, msgIds>>
    BY <2>1 DEF discord
  <2>3. write'.pc = "send" /\ write'.at \in DOMAIN Anchors' => ~thread'[Anchor'].live
    BY <2>2 DEF Showing, Anchors, Anchor
  <2> QED
    BY <2>1, <2>3 DEF Showing
<1>12. ASSUME NEW c \in Cards, CardPosted(c) PROVE Showing'
  BY <1>12, CardPostedShows
<1>13. CASE WriteBegins
  BY <1>2, <1>13, WriteBeginsShows
<1>14. CASE Write
  BY <1>2, <1>14, WriteKeepsShowing
<1>15. ASSUME NEW i \in DOMAIN thread, MessageDeleted(i) PROVE Showing'
  BY <1>15, MessageDeletedShows
<1> QED
  BY <1>4, <1>5, <1>6, <1>8, <1>9, <1>10, <1>11, <1>12, <1>13, <1>14, <1>15 DEF TimelineNext, Said

LEMMA InitShowing == ASSUME TimelineInit PROVE Showing
<1>1. exists = FALSE /\ write = NoWrite
  BY DEF TimelineInit
<1>2. write.pc = "none"
  BY <1>1 DEF NoWrite
<1> QED
  BY <1>1, <1>2 DEF Showing

\* Who waited for a flush goes on when its write is over, or when there was
\* nothing to write.
LEMMA WhoFlushes ==
    ASSUME TimelineSound, TimelineNext, Flushed
    PROVE  \/ WriteBegins /\ Resumed(Head(chain).by) /\ UNCHANGED <<write, blip>>
           \/ Write /\ Over
<1>1. TimelineTypeOK
  BY DEF TimelineSound
<1>2. ASSUME turn' = turn \/ turn # "ending", \A c \in Cards : card[c].at = "flushing" => card'[c].at # "posting" PROVE FALSE
  BY <1>2 DEF Flushed
<1>3. ASSUME UNCHANGED <<turn, card>> PROVE FALSE
  BY <1>2, <1>3
<1>4. CASE Said
  BY <1>3, <1>4, SaidIs DEF Happens
<1>5. ASSUME NEW t \in Tools, ToolStart(t) \/ ToolComplete(t) PROVE FALSE
  BY <1>3, <1>5, AppliedIs DEF ToolStart, ToolComplete, Happens
<1>6. CASE TurnBegins \/ RendererStarts \/ FinalFlush
  <2>1. UNCHANGED card /\ turn # "ending"
    BY <1>6 DEF TurnBegins, RendererStarts, FinalFlush
  <2> QED
    BY <1>2, <2>1
<1>7. CASE Dispose
  <2>1. UNCHANGED card /\ turn' = "ended"
    BY <1>7 DEF Dispose
  <2> QED
    BY <2>1 DEF Flushed
<1>8. CASE TimerFires
  BY <1>3, <1>8 DEF TimerFires, agent
<1>9. ASSUME NEW c \in Cards, CardPosted(c) PROVE FALSE
  BY <1>1, <1>2, <1>9, CardPostedIs DEF agent
<1>10. ASSUME NEW c \in Cards, NEW kind \in Kinds, CardBegins(c, kind) PROVE FALSE
  <2>1. turn' = turn /\ card'[c].at = "flushing" /\ card[c].at = "none" /\ \A d \in Cards : d # c => card'[d] = card[d]
    BY <1>1, <1>10, CardBeginsIs DEF agent
  <2> QED
    BY <1>2, <2>1
<1>11. CASE WriteBegins
  <2>1. ~UNCHANGED <<turn, card>>
    BY <1>3
  <2> QED
    BY <1>1, <1>11, <2>1, WriteBeginsIs
<1>12. CASE Write
  <2>1. ~UNCHANGED <<turn, card>>
    BY <1>3
  <2>2. Over \/ \E state \in WriteStates, k \in Nat : Awaits(state, k)
    BY <1>12, WriteStepGoes DEF WriteGoes, TimelineSound
  <2> QED
    BY <1>12, <2>1, <2>2 DEF Awaits, agent
<1>13. ASSUME NEW i \in DOMAIN thread, MessageDeleted(i) PROVE FALSE
  BY <1>3, <1>13 DEF MessageDeleted, agent
<1> QED
  BY <1>4, <1>5, <1>6, <1>7, <1>8, <1>9, <1>10, <1>11, <1>12, <1>13 DEF TimelineNext, Said

LEMMA ShowingAlways == EarlyTodos = FALSE => (TimelineSpec => [](Parted /\ Showing))
<1> SUFFICES ASSUME EarlyTodos = FALSE PROVE TimelineSpec => [](Parted /\ Showing)
  OBVIOUS
<1>1. TimelineInit => Showing
  BY InitShowing
<1>2. Parted /\ Showing /\ [TimelineNext]_timelineVars => Showing'
  BY NextShowing
<1>3. TimelineSpec => []Parted
  BY PartedAlways
<1> HIDE DEF Parted, Showing
<1> QED
  BY <1>1, <1>2, <1>3, PTL DEF TimelineSpec

\* Whatever was rendered is on show when nothing is left to write, and in a
\* block that is sealed or whose turn is over, unless Discord failed its last
\* write: a write is done, up to where it is, with what was rendered; what
\* changes meanwhile is late and to be flushed; and a write of a block that is
\* over touches none of this one's messages.
THEOREM FinalStateIsFlushed == EarlyTodos = FALSE => (TimelineSpec => OutputAppears)
<1> SUFFICES ASSUME EarlyTodos = FALSE PROVE TimelineSpec => OutputAppears
  OBVIOUS
<1> DEFINE Still == exists /\ ~armed /\ chain = <<>> /\ write = NoWrite
                       => epoch \in blip \/ Shows(thread, msgIds[epoch], epoch, Rendered)
           Sealing == Flushed /\ exists /\ ~late
                         => epoch \in blip' \/ Shows(thread', msgIds'[epoch], epoch, Rendered)
<1>1. Parted /\ Showing => Still
  <2> SUFFICES ASSUME Parted, Showing, exists, ~armed, chain = <<>>, write = NoWrite, epoch \notin blip
               PROVE  Shows(thread, msgIds[epoch], epoch, Rendered)
    OBVIOUS
  <2>1. ~late
    <3>1. DOMAIN chain = {}
      OBVIOUS
    <3> QED
      BY <3>1 DEF Parted, Owned, LateWaits
  <2>2. write.pc = "none"
    BY DEF NoWrite
  <2> QED
    BY <2>1, <2>2 DEF Showing, Writing
<1>2. Parted /\ Showing /\ [TimelineNext]_timelineVars => [Sealing]_timelineVars
  <2> SUFFICES ASSUME Parted, Showing, TimelineNext, Flushed, exists, ~late, epoch \notin blip'
               PROVE  Shows(thread', msgIds'[epoch], epoch, Rendered)
    OBVIOUS
  <2>1. TimelineTypeOK /\ TimelineSound
    BY PartedIs
  <2>2. CASE WriteBegins /\ UNCHANGED <<write, blip>>
    BY <2>1, <2>2, WriteBeginsIs DEF Showing, Writing
  <2>3. CASE Write /\ Over
    <3>1. Anchored' /\ WriteShows
      <4>1. Parted'
        BY NextParted
      <4>2. Anchored'
        BY <4>1 DEF Parted
      <4> QED
        BY <2>3, <4>2, WriteStepShows
    <3>2. ~(\E state \in WriteStates, k \in Nat : Awaits(state, k))
      <4>1. write.pc # "none" /\ write'.pc = "none"
        BY <2>1, <2>3, OverIs, WriteStepGoes DEF TimelineSound, WriteGoes
      <4>2. ASSUME NEW state \in WriteStates, NEW k \in Nat, Awaits(state, k) PROVE FALSE
        BY <2>1, <4>1, <4>2, AwaitsIs DEF WriteStates
      <4> QED
        BY <4>2
    <3> QED
      BY <3>1, <3>2 DEF WriteShows
  <2> QED
    BY <2>1, <2>2, <2>3, WhoFlushes
<1> HIDE DEF Parted, Showing, Still, Sealing
<1>3. TimelineSpec => [](Parted /\ Showing)
  BY ShowingAlways
<1>4. TimelineSpec => []Still
  BY <1>1, <1>3, PTL
<1>5. TimelineSpec => [][Sealing]_timelineVars
  BY <1>2, <1>3, PTL DEF TimelineSpec
<1> QED
  BY <1>4, <1>5, PTL DEF OutputAppears, Still, Sealing

=============================================================================
