---------------------------- MODULE SessionTurns ------------------------------
(***************************************************************************)
(* The turns of one session: messages and `/queue`d prompts of its thread  *)
(* (src/app.ts), the actor that hands them to the runtime and waits for    *)
(* `session.idle` (src/copilot/session-actor.ts), and `/stop`, `/end`, the *)
(* watchdog and a shutdown, any of which may fall into any await.  A       *)
(* message during a turn steers it; a queued prompt waits for its end.     *)
(*                                                                         *)
(* The runtime is external: it reads the prompts in the order they were    *)
(* written, works on those it has as one busy period, and tells the end of *)
(* the period, once, with an idle event that may arrive late.  It may also *)
(* never end one.                                                          *)
(***************************************************************************)
EXTENDS Integers, Sequences, FiniteSets, Functions

CONSTANTS
    Prompts,        \* what the operator types, as messages or with /queue
    QUEUE_MAX,
    None,
    MaxStops        \* bound: /stop commands

ASSUME TurnsAssumption == None \notin Prompts /\ {QUEUE_MAX, MaxStops} \subseteq Nat

VARIABLES
    phase,          \* of the app: "ready", "shuttingDown"
    mapped,         \* the session is in the app's map
    queue, running, \* ... of the session
    currentAbort,   \* the prompt whose AbortController the session holds
    aborted,        \* prompts whose controller has fired
    replying,       \* cmdQueue calls waiting for their reply before they drain
    pc,             \* where each prompt is
    lifecycle, aborting,    \* ... of the actor
    waiters,        \* turns whose idle waiter is still armed
    timer,          \* of the turn: "off", "armed", "fired", "faulting"
    wire,           \* prompts on their way to the runtime
    busy,           \* prompts the runtime is working on
    idles,          \* idle events on their way from it
    turns, steers,  \* prompts that have been written to the runtime, and as what
    stopped,        \* prompts /stop or /end found queued or not yet sent
    strays,         \* steers that came too late for the turn they were for
    left,           \* queued prompts whose /queue could not reply
    stops

appVars == <<phase, mapped, queue, running, currentAbort, aborted, replying>>
actorVars == <<lifecycle, aborting, waiters, timer>>
runtimeVars == <<wire, busy, idles>>
ghosts == <<turns, steers, stopped, strays, left, stops>>
vars == <<appVars, pc, actorVars, runtimeVars, ghosts>>

TypeOK ==
    /\ phase \in {"ready", "shuttingDown"} /\ {mapped, running, aborting} \subseteq BOOLEAN
    /\ Range(queue) \subseteq Prompts /\ Len(queue) <= QUEUE_MAX
    /\ currentAbort \in Prompts \cup {None}
    /\ replying \subseteq Prompts
    /\ pc \in [Prompts -> {"new", "queued", "preparing", "sending", "ending", "flushing",
                           "card", "steering", "done"}]
    /\ \A p \in Prompts : pc[p] = "queued" <=> p \in Range(queue)
    /\ lifecycle \in {"active", "closing", "closed", "faulted"}
    /\ timer \in {"off", "armed", "fired", "faulting"}
    /\ Range(wire) \subseteq Prompts /\ idles \in 0..Cardinality(Prompts)
    /\ aborted \cup waiters \cup busy \cup stopped \cup left \subseteq Prompts
    /\ turns \cup steers \subseteq Prompts /\ strays \subseteq steers
    /\ stops \in 0..MaxStops

------------------------------------------------------------------------------
(* runTurn of the app, and what starts it.                                  *)

\* What runTurn makes of a prompt: a turn, a steer, or nothing.
Begun(claimed) ==
    IF lifecycle = "faulted" THEN "done"
    ELSE IF ~claimed THEN "preparing"
    ELSE IF lifecycle = "active" /\ ~aborting THEN "card"
    ELSE "done"

RunTurn(p, pcs, claimed) ==
    /\ pc' = [pcs EXCEPT ![p] = Begun(claimed)]
    /\ running' = (claimed \/ Begun(claimed) = "preparing")
    /\ currentAbort' = IF Begun(claimed) = "preparing" THEN p ELSE currentAbort

\* (Mutant: whether a turn is running is not asked.)
DrainQueueAlways(pcs, claimed) ==
    IF phase # "ready" \/ ~mapped \/ queue = <<>>
    THEN pc' = pcs /\ running' = claimed /\ UNCHANGED <<queue, currentAbort>>
    ELSE queue' = Tail(queue) /\ RunTurn(Head(queue), pcs, claimed)

\* drainQueue: one prompt, with no await between the guard and the claim.
DrainQueue(pcs, claimed) ==
    IF phase # "ready" \/ ~mapped \/ claimed \/ queue = <<>>
    THEN pc' = pcs /\ running' = claimed /\ UNCHANGED <<queue, currentAbort>>
    ELSE queue' = Tail(queue) /\ RunTurn(Head(queue), pcs, claimed)

\* onMessage, and the first prompt of /new.
Message(p) ==
    /\ pc[p] = "new" /\ mapped /\ phase = "ready"
    /\ RunTurn(p, pc, running)
    /\ UNCHANGED <<phase, mapped, queue, aborted, replying, actorVars, runtimeVars, ghosts>>

\* cmdQueue; with nothing to wait for it replies first, and then drains.
Queue(p) ==
    /\ pc[p] = "new" /\ mapped /\ phase = "ready"
    /\ Len(queue) < QUEUE_MAX
    /\ queue' = Append(queue, p)
    /\ pc' = [pc EXCEPT ![p] = "queued"]
    /\ replying' = IF running THEN replying ELSE replying \cup {p}
    /\ UNCHANGED <<phase, mapped, running, currentAbort, aborted, actorVars, runtimeVars, ghosts>>

\* A reply that fails leaves the prompt in the queue and drains nothing.
Replied(p, ok) ==
    /\ p \in replying
    /\ replying' = replying \ {p}
    /\ IF ok THEN DrainQueue(pc, running) /\ UNCHANGED left
       ELSE left' = left \cup {p} /\ UNCHANGED <<pc, running, queue, currentAbort>>
    /\ UNCHANGED <<phase, mapped, aborted, actorVars, runtimeVars, turns, steers, stopped,
                   strays, stops>>

Drop == [p \in Prompts |-> IF pc[p] = "queued" THEN "done" ELSE pc[p]]

\* /queue clear:true
Clear ==
    /\ mapped /\ phase = "ready" /\ queue # <<>>
    /\ queue' = <<>> /\ pc' = Drop
    /\ UNCHANGED <<phase, mapped, running, currentAbort, aborted, replying, actorVars,
                   runtimeVars, ghosts>>

------------------------------------------------------------------------------
(* A turn: the attachments, the prompt, its end.                            *)

\* send: a new turn ends whatever was being aborted.
SendPrompt(p) ==
    /\ aborting' = FALSE
    /\ wire' = Append(wire, p)
    /\ turns' = turns \cup {p}

\* (Mutant: /stop during the download is not asked about.)
PreparedRegardless(p, usable) ==
    /\ pc[p] = "preparing"
    /\ currentAbort' = None
    /\ IF usable /\ lifecycle = "active"
       THEN /\ pc' = [pc EXCEPT ![p] = "sending"]
            /\ waiters' = waiters \cup {p}
            /\ SendPrompt(p)
       ELSE /\ pc' = [pc EXCEPT ![p] = "flushing"]
            /\ UNCHANGED <<waiters, aborting, wire, turns>>
    /\ UNCHANGED <<phase, mapped, queue, running, aborted, replying, lifecycle, timer,
                   busy, idles, steers, stopped, strays, left, stops>>

\* sendUnlessAborted: the download is over; the idle waiter is armed before the
\* prompt is sent.
Prepared(p, usable) ==
    /\ pc[p] = "preparing"
    /\ currentAbort' = None
    /\ IF p \notin aborted /\ usable /\ lifecycle = "active"
       THEN /\ pc' = [pc EXCEPT ![p] = "sending"]
            /\ waiters' = waiters \cup {p}
            /\ SendPrompt(p)
       ELSE /\ pc' = [pc EXCEPT ![p] = "flushing"]
            /\ UNCHANGED <<waiters, aborting, wire, turns>>
    /\ UNCHANGED <<phase, mapped, queue, running, aborted, replying, lifecycle, timer,
                   busy, idles, steers, stopped, strays, left, stops>>

\* The runtime has answered: the watchdog starts.
Sent(p) ==
    /\ pc[p] = "sending" /\ p \notin Range(wire)
    /\ pc' = [pc EXCEPT ![p] = "ending"]
    /\ timer' = "armed"
    /\ UNCHANGED <<appVars, lifecycle, aborting, waiters, runtimeVars, ghosts>>

\* ... or refuses the prompt.
Refused(p) ==
    /\ pc[p] \in {"sending", "steering"} /\ wire # <<>> /\ Head(wire) = p
    /\ wire' = Tail(wire)
    /\ pc' = [pc EXCEPT ![p] = IF @ = "sending" THEN "flushing" ELSE "done"]
    /\ waiters' = waiters \ {p}
    /\ UNCHANGED <<appVars, lifecycle, aborting, timer, busy, idles, ghosts>>

\* awaitTurnEnd settles once.
Done(p) ==
    /\ pc' = [pc EXCEPT ![p] = "flushing"]
    /\ timer' = "off"

TurnDone(p) ==
    /\ pc[p] = "ending" /\ p \notin waiters
    /\ Done(p)
    /\ UNCHANGED <<appVars, lifecycle, aborting, waiters, runtimeVars, ghosts>>

\* The finally of the app's runTurn is over; one queued prompt follows.
TurnOver(p) ==
    /\ pc[p] = "flushing"
    /\ DrainQueue([pc EXCEPT ![p] = "done"], FALSE)
    /\ UNCHANGED <<phase, mapped, aborted, replying, actorVars, runtimeVars, ghosts>>

------------------------------------------------------------------------------
(* A steer.  It looks at the actor before its card, and not after it.       *)

SteerSent(p) ==
    /\ pc[p] = "card"
    /\ IF lifecycle = "closed"
       THEN pc' = [pc EXCEPT ![p] = "done"] /\ UNCHANGED <<wire, steers>>
       ELSE /\ pc' = [pc EXCEPT ![p] = "steering"]
            /\ wire' = Append(wire, p)
            /\ steers' = steers \cup {p}
    /\ UNCHANGED <<appVars, actorVars, busy, idles, turns, stopped, strays, left, stops>>

\* (Mutant: the clock is stopped and not started again.)
RefreshWatchdogOff == IF timer = "faulting" THEN timer ELSE "off"

\* The clock of the turn, if there is one, starts again.
RefreshWatchdog == IF timer = "fired" THEN "armed" ELSE timer

Steered(p) ==
    /\ pc[p] = "steering" /\ p \notin Range(wire)
    /\ pc' = [pc EXCEPT ![p] = "done"]
    /\ timer' = RefreshWatchdog
    /\ UNCHANGED <<appVars, lifecycle, aborting, waiters, runtimeVars, ghosts>>

------------------------------------------------------------------------------
(* Whatever ends a turn early.                                              *)

\* (Mutant: whoever aborts does not wait for the runtime.)
AbortWaiters == waiters' = {}

\* stop of the actor aborts, and leaves the end of the turn to the runtime.
Abort == UNCHANGED waiters

\* /stop: the queue first, then what is not sent yet, then the runtime.  Like
\* /end it acts after the await of its deferred reply.
Stop ==
    /\ stops < MaxStops /\ mapped
    /\ stops' = stops + 1
    /\ queue' = <<>> /\ pc' = Drop
    /\ aborted' = aborted \cup ({currentAbort} \ {None})
    /\ stopped' = stopped \cup Range(queue) \cup {p \in Prompts : pc[p] = "preparing"}
    /\ aborting' = TRUE
    /\ Abort
    /\ UNCHANGED <<phase, mapped, running, currentAbort, replying, lifecycle, timer,
                   runtimeVars, turns, steers, strays, left>>

\* A turn past its time is aborted ...
Watchdog ==
    /\ timer = "armed"
    /\ timer' = "fired"
    /\ aborting' = TRUE
    /\ Abort
    /\ UNCHANGED <<appVars, pc, lifecycle, runtimeVars, ghosts>>

\* ... and one that outlives its abort faults the actor.
HardTimer ==
    /\ timer = "fired"
    /\ timer' = "faulting"
    /\ IF lifecycle = "active"
       THEN lifecycle' = "faulted" /\ aborting' = TRUE
       ELSE UNCHANGED <<lifecycle, aborting>>
    /\ UNCHANGED <<appVars, pc, waiters, runtimeVars, ghosts>>

\* The wait for the faulted runtime's end is bounded.
Faulted(p) ==
    /\ pc[p] = "ending" /\ timer = "faulting"
    /\ Done(p)
    /\ UNCHANGED <<appVars, lifecycle, aborting, waiters, runtimeVars, ghosts>>

\* disconnect, for /end and the teardown.
Disconnect ==
    /\ aborted' = aborted \cup ({currentAbort} \ {None})
    /\ IF lifecycle = "active"
       THEN lifecycle' = "closing" /\ aborting' = TRUE
       ELSE UNCHANGED <<lifecycle, aborting>>

End ==
    /\ mapped
    /\ queue' = <<>> /\ pc' = Drop
    /\ Disconnect
    /\ stopped' = stopped \cup Range(queue) \cup {p \in Prompts : pc[p] = "preparing"}
    /\ UNCHANGED <<phase, mapped, running, currentAbort, replying, waiters, timer,
                   runtimeVars, turns, steers, strays, left, stops>>

\* The runtime is gone, and with it what it was working on, or it may be live.  An
\* answer that comes too late for whoever asked leaves the session in the map.
Disconnected(ok) ==
    /\ lifecycle = "closing"
    /\ waiters' = {}
    /\ IF ok THEN /\ lifecycle' = "closed" /\ mapped' \in BOOLEAN
                  /\ wire' = <<>> /\ busy' = {} /\ idles' = 0
       ELSE lifecycle' = "faulted" /\ UNCHANGED <<mapped, runtimeVars>>
    /\ UNCHANGED <<phase, queue, running, currentAbort, aborted, replying, pc, aborting, timer,
                   ghosts>>

\* stop of the app: no new input, and no queue for a finishing turn to drain.
Shutdown ==
    /\ phase = "ready"
    /\ phase' = "shuttingDown"
    /\ queue' = <<>> /\ pc' = Drop
    /\ UNCHANGED <<mapped, running, currentAbort, aborted, replying, actorVars, runtimeVars,
                   ghosts>>

\* teardownResources reaches the session.
TearDown ==
    /\ phase = "shuttingDown" /\ mapped /\ lifecycle = "active"
    /\ Disconnect
    /\ UNCHANGED <<phase, mapped, queue, running, currentAbort, replying, pc, waiters, timer,
                   runtimeVars, ghosts>>

------------------------------------------------------------------------------
(* The runtime.                                                             *)

Receive ==
    /\ wire # <<>>
    /\ wire' = Tail(wire)
    /\ busy' = busy \cup {Head(wire)}
    /\ strays' = IF busy = {} /\ pc[Head(wire)] = "steering" THEN strays \cup {Head(wire)}
                 ELSE strays
    /\ UNCHANGED <<appVars, pc, actorVars, idles, turns, steers, stopped, left, stops>>

Finish ==
    /\ busy # {}
    /\ busy' = {}
    /\ idles' = idles + 1
    /\ UNCHANGED <<appVars, pc, actorVars, wire, ghosts>>

\* session.idle
Idle ==
    /\ idles > 0
    /\ idles' = idles - 1
    /\ aborting' = FALSE
    /\ waiters' = {}
    /\ UNCHANGED <<appVars, pc, lifecycle, timer, wire, busy, ghosts>>

------------------------------------------------------------------------------

Init ==
    /\ phase = "ready" /\ mapped = TRUE
    /\ queue = <<>> /\ running = FALSE /\ currentAbort = None
    /\ aborted = {} /\ replying = {}
    /\ pc = [p \in Prompts |-> "new"]
    /\ lifecycle = "active" /\ aborting = FALSE /\ waiters = {} /\ timer = "off"
    /\ wire = <<>> /\ busy = {} /\ idles = 0
    /\ turns = {} /\ steers = {} /\ stopped = {} /\ strays = {} /\ left = {} /\ stops = 0

Input(p) == Message(p) \/ Queue(p) \/ \E ok \in BOOLEAN : Replied(p, ok)

TurnStep(p) ==
    \/ \E usable \in BOOLEAN : Prepared(p, usable)
    \/ Sent(p) \/ TurnDone(p) \/ Faulted(p) \/ TurnOver(p)

SteerStep(p) == SteerSent(p) \/ Steered(p)

Next ==
    \/ \E p \in Prompts : Input(p) \/ TurnStep(p) \/ SteerStep(p) \/ Refused(p)
    \/ Clear \/ Stop \/ End \/ Shutdown \/ TearDown
    \/ Watchdog \/ HardTimer \/ \E ok \in BOOLEAN : Disconnected(ok)
    \/ Receive \/ Finish \/ Idle

Spec == Init /\ [][Next]_vars

\* The runtime answers what it is sent, downloads and flushes end, and timers
\* fire.  That it ever finishes a turn is not assumed.
FairSpec ==
    /\ Spec
    /\ \A p \in Prompts : WF_vars(TurnStep(p))
    /\ WF_vars(Receive) /\ WF_vars(Watchdog) /\ WF_vars(HardTimer)

------------------------------------------------------------------------------
(* Properties.                                                              *)

\* While the runtime works on the prompt of a turn, that turn is waiting for it:
\* nobody takes the session for free, and no end is fabricated.  A steer that
\* missed its turn is the exception, as it starts a busy period of its own.
TurnsAreWatched ==
    lifecycle = "active" /\ strays = {} =>
        \A p \in busy \cap turns : pc[p] \in {"sending", "ending"}

\* Stop means stop: what `/stop` or `/end` found in the queue or still
\* downloading never reaches the runtime, whichever await it was in.
StopQuiets == stopped \cap (turns \cup steers) = {}

\* A queued prompt becomes a turn of its own, never a steer of somebody else's;
\* and it is not left in the queue of an idle session, unless its /queue could
\* not even reply.
QueueServed ==
    /\ [](queue # <<>> /\ ~running /\ lifecycle = "active" =>
            replying # {} \/ Range(queue) \subseteq left)
    /\ [][\A p \in Prompts :
            pc[p] = "queued" /\ pc'[p] # "queued" => pc'[p] \in {"preparing", "done"}]_vars

\* A turn that has begun ends, even when the runtime never goes idle.
TurnEnds == running ~> ~running
=============================================================================
