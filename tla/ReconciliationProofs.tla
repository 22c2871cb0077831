-------------------------- MODULE ReconciliationProofs --------------------------
(***************************************************************************)
(* What Reconciliation promises for any threads and any number of `/end`   *)
(* commands: a thread never has two runtimes, what an `/end` has taken     *)
(* away stays away, and a disabled channel stays empty.  The argument is   *)
(* one thread's at a time: a step changes what is known of the thread it   *)
(* is about and leaves that of every other thread alone (StepOfOne).       *)
(***************************************************************************)
EXTENDS Reconciliation, TLAPS

-----------------------------------------------------------------------------
(* The invariant.                                                           *)

\* `/new` is at work on t.
NewOf(t) == new # None /\ new.stage \notin {"parent", "thread"} /\ new.thread = t

AttemptOn(t) == attempt # None /\ attempt.thread = t

ClaimedBy(e, t) == ends[e] # None /\ ends[e].thread = t

\* What the phases say of the process.
Phased ==
    /\ phase = "down" => live = {} /\ barrier = {} /\ attempt = None
    /\ phase \in {"down", "reconciling"} => new = None /\ \A e \in Enders : ends[e] = None

\* A session has its active record and its worktree; who is owed has a record and a
\* worktree; who was ended has neither; and every one of them was opened once.
Housed(t) ==
    /\ t \in live => Holds(t, "active") /\ t \in tree /\ t \notin barrier
    /\ t \in barrier => HasRecord(t) /\ t \in tree
    /\ t \in ended => ~HasRecord(t) /\ t \notin tree
    /\ HasRecord(t) \/ NewOf(t) \/ t \in ended => t \in opened
    /\ \A e \in Enders : ClaimedBy(e, t) => t \in opened

\* The startup pass comes to a record before anything else has.
Due(t) ==
    phase = "reconciling" /\ t \in todo =>
        HasRecord(t) /\ t \notin live /\ t \notin barrier /\ ~AttemptOn(t)

\* While a record is attempted it stays as the attempt found it.
Attempted(t) ==
    AttemptOn(t) =>
        /\ Holds(t, "active") /\ Rec(t) = attempt.rec /\ t \notin live
        /\ attempt.stage \notin {"barrier", "discard"} => t \notin barrier
        /\ attempt.stage \in {"capture", "create"} => t \in tree

\* What an `/end` has asked for stays so until it answers.
Closed(t) ==
    \A e \in Enders : ClaimedBy(e, t) =>
        /\ ends[e].stage # "joining" => ~AttemptOn(t)
        /\ ends[e].stage \in {"closing", "reclaiming"} => t \notin barrier /\ ~NewOf(t)
        /\ ends[e].stage = "reclaiming" => t \notin live

\* What `/new` has made of its thread so far.
Made(t) ==
    NewOf(t) =>
        /\ t \notin live /\ t \notin ended
        /\ new.stage \in {"tree", "capture"} => ~HasRecord(t)
        /\ new.stage \in {"create", "retire", "retire-abort"} => Holds(t, "creating")
        /\ new.stage = "abort" => ~HasRecord(t) \/ Holds(t, "creating")
        /\ new.stage \in {"capture", "create"} => t \in tree
        /\ new.stage \notin {"retire", "retire-abort"} => t \notin barrier

\* DisabledChannelEmpty, of one thread.
Shut(t) == ~enabled => t \notin live /\ ~Holds(t, "active") /\ ~Holds(t, "creating")

Own(t) == Housed(t) /\ Due(t) /\ Attempted(t) /\ Closed(t) /\ Made(t) /\ Shut(t)

Inv == TypeOK /\ Phased /\ \A t \in Threads : Own(t)

\* A step that is about t leaves every other thread's things alone.
Frame(t) ==
    /\ enabled' = enabled
    /\ phase' = "reconciling" => phase = "reconciling"
    /\ \A u \in Threads \ {t} :
          /\ store'.sessions[u] = store.sessions[u]
          /\ u \in tree' <=> u \in tree
          /\ u \in live' <=> u \in live
          /\ u \in barrier' <=> u \in barrier
          /\ u \in ended' <=> u \in ended
          /\ u \in opened' <=> u \in opened
          /\ u \in todo' => u \in todo
          /\ AttemptOn(u)' => AttemptOn(u) /\ attempt' = attempt
          /\ NewOf(u)' => NewOf(u) /\ new' = new
          /\ \A e \in Enders : ClaimedBy(e, u)' => ClaimedBy(e, u) /\ ends'[e] = ends[e]

LEMMA StepOfOne ==
    ASSUME Inv, NEW t \in Threads, TypeOK', Phased', Frame(t), Own(t)' PROVE Inv'
<1> SUFFICES ASSUME NEW u \in Threads \ {t} PROVE Own(u)'
    BY DEF Inv
<1>1. /\ Own(u) /\ enabled' = enabled
      /\ phase' = "reconciling" => phase = "reconciling"
      /\ store'.sessions[u] = store.sessions[u]
      /\ u \in tree' <=> u \in tree
      /\ u \in live' <=> u \in live
      /\ u \in barrier' <=> u \in barrier
      /\ u \in ended' <=> u \in ended
      /\ u \in opened' <=> u \in opened
      /\ u \in todo' => u \in todo
      /\ AttemptOn(u)' => AttemptOn(u) /\ attempt' = attempt
      /\ NewOf(u)' => NewOf(u) /\ new' = new
      /\ \A e \in Enders : ClaimedBy(e, u)' => ClaimedBy(e, u) /\ ends'[e] = ends[e]
    BY DEF Inv, Frame
<1>2. Housed(u)' BY <1>1 DEF Own, Housed, Holds, HasRecord, Rec
<1>3. Due(u)' BY <1>1 DEF Own, Due, HasRecord, Rec
<1>4. Attempted(u)' BY <1>1 DEF Own, Attempted, Holds, HasRecord, Rec
<1>5. Closed(u)' BY <1>1 DEF Own, Closed
<1>6. Made(u)' BY <1>1 DEF Own, Made, Holds, HasRecord, Rec
<1>7. Shut(u)' BY <1>1 DEF Own, Shut, Holds, HasRecord, Rec
<1> QED BY <1>2, <1>3, <1>4, <1>5, <1>6, <1>7 DEF Own

-----------------------------------------------------------------------------
(* What the operators of the model do.                                      *)

Vias == {"startup", "access-retry"}
AttemptStages == {"barrier", "classify", "rebuild", "undo", "capture", "create", "discard"}
EndStages == {"closing", "joining", "barrier", "reclaiming"}
NewStages == {"tree", "capture", "create", "retire", "retire-abort", "abort"}

\* The record of t becomes r, and nobody else's changes.
Records(t, r) ==
    /\ store' \in StoreValue
    /\ store'.sessions[t] = r
    /\ \A u \in Threads \ {t} : store'.sessions[u] = store.sessions[u]

LEMMA UnsavedIs ==
    ASSUME store \in StoreValue, Unsaved, NEW t \in Threads
    PROVE  Records(t, Rec(t)) /\ reason' = reason
BY DEF Unsaved, Records, Rec

LEMMA SetStateIs ==
    ASSUME store \in StoreValue, NEW t \in Threads, HasRecord(t), NEW state \in States,
           store' = SetState(store, t, state)
    PROVE  /\ Records(t, [Rec(t) EXCEPT !.state = state])
           /\ [Rec(t) EXCEPT !.state = state] \in Record
           /\ [Rec(t) EXCEPT !.state = state].state = state
<1>1. store.sessions \in [Threads -> Record \cup {None}] /\ Rec(t) \in Record
    BY DEF StoreValue, HasRecord, Rec
<1>2. [Rec(t) EXCEPT !.state = state] \in Record /\ [Rec(t) EXCEPT !.state = state].state = state
    BY <1>1 DEF Record
<1>3. store' = [store EXCEPT !.sessions = [store.sessions EXCEPT ![t] = [Rec(t) EXCEPT !.state = state]]]
    BY <1>1 DEF SetState, StoreValue, Rec
<1>4. store'.sessions = [store.sessions EXCEPT ![t] = [Rec(t) EXCEPT !.state = state]]
      /\ store' \in StoreValue
    BY <1>1, <1>2, <1>3 DEF StoreValue
<1> QED BY <1>1, <1>2, <1>4 DEF Records

LEMMA RemoveIs ==
    ASSUME store \in StoreValue, NEW t \in Threads, store' = Remove(store, t)
    PROVE  Records(t, None)
<1>1. store.sessions \in [Threads -> Record \cup {None}]
    BY DEF StoreValue
<1>2. store'.sessions = [store.sessions EXCEPT ![t] = None] /\ store' \in StoreValue
    BY <1>1 DEF Remove, StoreValue
<1> QED BY <1>1, <1>2 DEF Records

LEMMA FreshRecordIs ==
    ASSUME NEW t, NEW gen \in Nat \ {0}
    PROVE  /\ FreshRecord(t, gen) \in Record /\ FreshRecord(t, gen).state = "creating"
           /\ FreshRecord(t, gen).gen = gen
           /\ [FreshRecord(t, gen) EXCEPT !.state = "creating"] = FreshRecord(t, gen)
           /\ [FreshRecord(t, gen) EXCEPT !.state = "active"] \in Record
<1>1. (CHOOSE s \in Sids : TRUE) \in Sids /\ (CHOOSE b \in Binds : TRUE) \in Binds
    BY ReconciliationAssumption
<1> QED BY <1>1 DEF FreshRecord, Record, States

LEMMA ReserveIs ==
    ASSUME store \in StoreValue, NEW t \in Threads, NEW gen \in Nat \ {0},
           store' = Reserve(store, t, FreshRecord(t, gen))
    PROVE  Records(t, FreshRecord(t, gen)) /\ FreshRecord(t, gen) \in Record
           /\ FreshRecord(t, gen).state = "creating"
<1> DEFINE r == FreshRecord(t, gen)
<1>1. /\ r \in Record /\ r.state = "creating" /\ r.gen = gen
      /\ [r EXCEPT !.state = "creating"] = r
    BY FreshRecordIs
<1> HIDE DEF r
<1>2. store.sessions \in [Threads -> Record \cup {None}] /\ store.high \in Nat /\ gen \in Nat
    BY DEF StoreValue
<1>3. Larger(store.high, r.gen) \in Nat BY <1>1, <1>2 DEF Larger
<1>4. store'.sessions = [store.sessions EXCEPT ![t] = r] /\ store' \in StoreValue
    BY <1>1, <1>2, <1>3 DEF Reserve, WithPrimary, StoreValue, r
<1> QED BY <1>1, <1>2, <1>4 DEF Records, r

\* A terminal transition is written, or what there is stays.
LEMMA TerminalIs ==
    ASSUME TypeOK, NEW t \in Threads, NEW via, NEW state \in States, NEW why \in Reasons,
           Terminal(t, via, state, why)
    PROVE  /\ reason' \in [Threads -> Reasons]
           /\ phase' \in {phase, "stopping"}
           /\ \/ Records(t, Rec(t))
              \/ /\ HasRecord(t)
                 /\ \E r \in Record : Records(t, r) /\ r.state = state
<1>1. store \in StoreValue /\ reason \in [Threads -> Reasons] BY DEF TypeOK
<1>2. CASE HasRecord(t) /\ Save(SetState(store, t, state), t, why) /\ UNCHANGED phase
    <2>1. store' = SetState(store, t, state) /\ reason' \in [Threads -> Reasons]
        BY <1>1, <1>2 DEF Save
    <2> QED BY <1>1, <1>2, <2>1, SetStateIs
<1>3. CASE Unsaved /\ phase' = IF via = "startup" THEN "stopping" ELSE phase
    BY <1>1, <1>3, UnsavedIs
<1> QED BY <1>2, <1>3 DEF Terminal

LEMMA GotoIs ==
    ASSUME TypeOK, attempt # None, NEW stage \in AttemptStages, Goto(stage)
    PROVE  /\ attempt' \in Attempt /\ attempt'.thread = attempt.thread
           /\ attempt'.rec = attempt.rec /\ attempt'.stage = stage
BY DEF TypeOK, Attempt, Goto, AttemptStages

LEMMA EndGotoIs ==
    ASSUME TypeOK, NEW e \in Enders, ends[e] # None, NEW stage \in EndStages, EndGoto(e, stage)
    PROVE  /\ ends' \in [Enders -> End \cup {None}]
           /\ ends'[e].thread = ends[e].thread /\ ends'[e].stage = stage
           /\ \A f \in Enders \ {e} : ends'[f] = ends[f]
<1>1. ends \in [Enders -> End \cup {None}] /\ ends[e] \in End BY DEF TypeOK
<1>2. [ends[e] EXCEPT !.stage = stage] \in End BY <1>1 DEF End, EndStages
<1>3. ends' = [ends EXCEPT ![e] = [ends[e] EXCEPT !.stage = stage]] BY <1>1 DEF EndGoto
<1> QED BY <1>1, <1>2, <1>3 DEF End

LEMMA EndOverIs ==
    ASSUME TypeOK, NEW e \in Enders, EndOver(e)
    PROVE  /\ ends' \in [Enders -> End \cup {None}] /\ ends'[e] = None
           /\ \A f \in Enders \ {e} : ends'[f] = ends[f]
BY DEF TypeOK, EndOver

\* Once `/new` has a thread, its stages are those of that thread.
LEMMA NewIs ==
    ASSUME TypeOK, new # None, new.stage \notin {"parent", "thread"}
    PROVE  new \in [stage : NewStages, thread : Threads, gen : Nat \ {0}]
BY DEF TypeOK, New, NewStages

LEMMA NewGotoIs ==
    ASSUME TypeOK, new # None, new.stage \notin {"parent", "thread"},
           NEW stage \in NewStages, NewGoto(stage)
    PROVE  /\ new' \in New /\ new'.stage = stage
           /\ new'.thread = new.thread /\ new'.gen = new.gen
<1>1. new \in [stage : NewStages, thread : Threads, gen : Nat \ {0}] BY NewIs
<1>2. new' \in [stage : NewStages, thread : Threads, gen : Nat \ {0}] BY <1>1 DEF NewGoto
<1> QED BY <1>1, <1>2 DEF NewGoto, New, NewStages

-----------------------------------------------------------------------------
(* The attempts on one record.                                              *)

SameBut(t, A, B) == A \ {t} = B \ {t}

\* An attempt may be made on t: it has a record that nobody else is at work on.
Engaged(t) ==
    /\ phase # "down" /\ HasRecord(t) /\ t \notin live /\ ~NewOf(t)
    /\ \A u \in Threads : AttemptOn(u) => u = t
    /\ \A e \in Enders : ClaimedBy(e, t) => ends[e].stage = "joining"

\* What a step of such an attempt may do; the record is r from then on.
Answered(t, r) ==
    /\ Engine
    /\ Records(t, r) /\ r \in Record /\ reason' \in [Threads -> Reasons]
    /\ r.state \in {"active", "creating"} => Rec(t).state \in {"active", "creating"}
    /\ phase' \in {phase, "stopping"}
    /\ todo' \subseteq todo /\ (t \in todo' => phase # "reconciling")
    /\ wake' \in {"off", "set", "running"}
    /\ SameBut(t, tree, tree') /\ SameBut(t, live, live') /\ SameBut(t, barrier, barrier')
    /\ attempt' \in Attempt \cup {None}
    /\ t \in live' => r.state = "active" /\ t \in tree' /\ t \notin barrier'
    /\ t \in barrier' => t \in tree'
    /\ attempt' # None =>
          /\ attempt'.thread = t /\ r.state = "active" /\ r = attempt'.rec /\ t \notin live'
          /\ attempt'.stage \notin {"barrier", "discard"} => t \notin barrier'
          /\ attempt'.stage \in {"capture", "create"} => t \in tree'

LEMMA AnsweredKeeps ==
    ASSUME Inv, NEW t \in Threads, NEW r, Engaged(t), Answered(t, r) PROVE Inv'
<1>1. /\ TypeOK /\ Phased /\ Own(t) /\ Engine /\ Records(t, r) /\ r \in Record /\ r # None
    BY ReconciliationAssumption DEF Inv, Answered
<1>2. /\ UNCHANGED <<enabled, opened, ends, new, ended, crashes, typed>>
      /\ store' \in StoreValue /\ store'.sessions[t] = r
    BY <1>1 DEF Engine, bounds, Records
<1>3. TypeOK'
    <2>1. tree' \subseteq Threads /\ live' \subseteq Threads /\ barrier' \subseteq Threads
        BY <1>1 DEF TypeOK, Answered, SameBut
    <2>2. /\ phase' \in {"down", "reconciling", "ready", "stopping"} /\ todo' \subseteq Threads
          /\ reason' \in [Threads -> Reasons] /\ wake' \in {"off", "set", "running"}
          /\ attempt' \in Attempt \cup {None}
        BY <1>1 DEF TypeOK, Answered
    <2> QED BY <1>1, <1>2, <2>1, <2>2 DEF TypeOK
<1>4. Phased'
    <2>1. phase' # "down" /\ (phase' = "reconciling" => phase = "reconciling")
        BY DEF Answered, Engaged
    <2> QED BY <1>1, <1>2, <2>1 DEF Phased
<1>5. Frame(t)
    <2>1. enabled' = enabled /\ (phase' = "reconciling" => phase = "reconciling")
        BY <1>2 DEF Answered
    <2>2. ASSUME NEW u \in Threads \ {t}
          PROVE  /\ store'.sessions[u] = store.sessions[u]
                 /\ u \in tree' <=> u \in tree
                 /\ u \in live' <=> u \in live
                 /\ u \in barrier' <=> u \in barrier
                 /\ u \in todo' => u \in todo
                 /\ ~AttemptOn(u)'
        BY <1>1 DEF Records, Answered, SameBut, AttemptOn
    <2> QED BY <1>2, <2>1, <2>2 DEF Frame, NewOf, ClaimedBy
<1>6. Own(t)'
    <2>1. ~NewOf(t)' BY <1>2 DEF Engaged, NewOf
    <2>2. \A e \in Enders : ClaimedBy(e, t)' => ClaimedBy(e, t) /\ ends'[e].stage = "joining"
        BY <1>2 DEF Engaged, ClaimedBy
    <2>3. t \notin ended' /\ t \in opened' /\ HasRecord(t)'
        BY <1>1, <1>2 DEF Engaged, Own, Housed, HasRecord, Rec
    <2>4. Housed(t)'
        BY <1>2, <2>1, <2>2, <2>3 DEF Housed, Answered, Holds, HasRecord, Rec
    <2>5. Due(t)' BY DEF Due, Answered
    <2>6. Attempted(t)' BY <1>2, <2>3 DEF Attempted, Answered, AttemptOn, Holds, Rec
    <2>7. Closed(t)' BY <2>2 DEF Closed
    <2>8. Made(t)' BY <2>1 DEF Made
    <2>9. Shut(t)'
        BY <1>1, <1>2 DEF Own, Shut, Engaged, Answered, Holds, HasRecord, Rec
    <2> QED BY <2>4, <2>5, <2>6, <2>7, <2>8, <2>9 DEF Own
<1> QED BY <1>3, <1>4, <1>5, <1>6, StepOfOne

\* The thread of an attempt has an active record, is not a session, and neither
\* `/new` nor a claim that goes on is at it.
LEMMA OnAttempt ==
    ASSUME Inv, attempt # None
    PROVE  LET t == attempt.thread IN
           /\ t \in Threads /\ TypeOK /\ Own(t) /\ Engaged(t) /\ attempt \in Attempt
           /\ Holds(t, "active") /\ Rec(t) = attempt.rec /\ Rec(t) \in Record
           /\ t \in todo => phase # "reconciling"
           /\ attempt.stage \notin {"barrier", "discard"} => t \notin barrier
           /\ attempt.stage \in {"capture", "create"} => t \in tree
<1> DEFINE t == attempt.thread
<1>1. TypeOK /\ Phased /\ attempt \in Attempt /\ t \in Threads BY DEF Inv, TypeOK, Attempt
<1>2. Own(t) /\ AttemptOn(t) BY <1>1 DEF Inv, AttemptOn
<1>3. /\ Holds(t, "active") /\ Rec(t) = attempt.rec /\ t \notin live
      /\ attempt.stage \notin {"barrier", "discard"} => t \notin barrier
      /\ attempt.stage \in {"capture", "create"} => t \in tree
    BY <1>2 DEF Own, Attempted
<1>4. Rec(t) \in Record BY <1>1, <1>3 DEF TypeOK, StoreValue, Holds, HasRecord, Rec
<1>5. ~NewOf(t)
    <2>1. SUFFICES ASSUME NewOf(t) PROVE FALSE OBVIOUS
    <2>2. new.stage \in NewStages BY <1>1, <2>1, NewIs DEF NewOf
    <2> QED BY <1>2, <1>3, <2>1, <2>2 DEF Own, Made, Holds, NewStages
<1>6. \A e \in Enders : ClaimedBy(e, t) => ends[e].stage = "joining"
    BY <1>2 DEF Own, Closed
<1>7. Engaged(t) BY <1>1, <1>3, <1>5, <1>6 DEF Engaged, Phased, AttemptOn, Holds
<1>8. t \in todo => phase # "reconciling" BY <1>2 DEF Own, Due
<1> QED BY <1>1, <1>2, <1>3, <1>4, <1>7, <1>8

\* An attempt that is over has left the record alone or has decided it.
LEMMA OverKeeps ==
    ASSUME Inv, NEW t \in Threads, Engaged(t), Engine, Over, wake' = wake, live' = live,
           todo' \subseteq todo, t \in todo' => phase # "reconciling",
           SameBut(t, tree, tree'), SameBut(t, barrier, barrier'), t \in barrier' => t \in tree',
           \/ Unsaved /\ UNCHANGED phase
           \/ \E via \in Vias, state \in States, why \in Reasons :
                 /\ Terminal(t, via, state, why)
                 /\ state \in {"active", "creating"} => Holds(t, "active")
    PROVE  Inv'
<1>1. TypeOK /\ t \notin live' /\ Rec(t) \in Record /\ wake \in {"off", "set", "running"}
    BY DEF Inv, TypeOK, Engaged, StoreValue, HasRecord, Rec
<1>2. PICK r \in Record :
          /\ Records(t, r) /\ reason' \in [Threads -> Reasons] /\ phase' \in {phase, "stopping"}
          /\ r.state \in {"active", "creating"} => Rec(t).state \in {"active", "creating"}
    <2>1. CASE Unsaved /\ UNCHANGED phase
        <3>1. Records(t, Rec(t)) /\ reason' = reason BY <1>1, <2>1, UnsavedIs DEF TypeOK
        <3> QED BY <1>1, <2>1, <3>1 DEF TypeOK
    <2>2. CASE \E via \in Vias, state \in States, why \in Reasons :
                 /\ Terminal(t, via, state, why)
                 /\ state \in {"active", "creating"} => Holds(t, "active")
        <3>1. PICK via \in Vias, state \in States, why \in Reasons :
                 /\ Terminal(t, via, state, why)
                 /\ state \in {"active", "creating"} => Holds(t, "active")
            BY <2>2
        <3>2. /\ reason' \in [Threads -> Reasons] /\ phase' \in {phase, "stopping"}
              /\ \/ Records(t, Rec(t))
                 \/ \E r \in Record : Records(t, r) /\ r.state = state
            BY <1>1, <3>1, TerminalIs
        <3> QED BY <1>1, <3>1, <3>2 DEF Holds
    <2> QED BY <2>1, <2>2
<1>3. Answered(t, r) BY <1>1, <1>2 DEF Answered, Over, SameBut
<1> QED BY <1>3, AnsweredKeeps

\* A record is decided at once, or its thread is to be classified.
LEMMA ConsiderKeeps ==
    ASSUME Inv, NEW t \in Threads, Engaged(t), NEW via \in Vias, Consider(Rec(t), t, via),
           Engine, wake' = wake, live' = live, tree' = tree,
           todo' \subseteq todo, t \in todo' => phase # "reconciling",
           SameBut(t, barrier, barrier'), t \notin barrier'
    PROVE  Inv'
<1>1. TypeOK /\ t \notin live' /\ Rec(t) \in Record /\ wake \in {"off", "set", "running"}
    BY DEF Inv, TypeOK, Engaged, StoreValue, HasRecord, Rec
<1>2. CASE Rec(t).state = "active" /\ BindingOk
    <2>1. /\ attempt' = [thread |-> t, via |-> via, rec |-> Rec(t), stage |-> "classify"]
          /\ Unsaved /\ UNCHANGED phase
        BY <1>2 DEF Consider
    <2>2. /\ attempt' \in Attempt /\ attempt'.thread = t /\ attempt'.rec = Rec(t)
          /\ attempt'.stage = "classify"
        BY <1>1, <2>1 DEF Attempt, Vias
    <2>3. Records(t, Rec(t)) /\ reason' \in [Threads -> Reasons]
        BY <1>1, <2>1, UnsavedIs DEF TypeOK
    <2>4. Answered(t, Rec(t)) BY <1>1, <1>2, <2>1, <2>2, <2>3 DEF Answered, SameBut
    <2> QED BY <2>4, AnsweredKeeps
<1>3. CASE ~(Rec(t).state = "active" /\ BindingOk)
    <2>1. /\ Over
          /\ \/ Terminal(t, via, "blocked", "unreachable")
             \/ Terminal(t, via, "orphaned", "interrupted")
             \/ Unsaved /\ UNCHANGED phase
        BY <1>3 DEF Consider
    <2>2. SameBut(t, tree, tree') /\ "blocked" \in States /\ "orphaned" \in States
          /\ "unreachable" \in Reasons /\ "interrupted" \in Reasons
        BY DEF SameBut, States, Reasons
    <2>3. \/ Unsaved /\ UNCHANGED phase
          \/ \E v \in Vias, state \in States, why \in Reasons :
                 /\ Terminal(t, v, state, why)
                 /\ state \in {"active", "creating"} => Holds(t, "active")
        BY <2>1, <2>2
    <2> QED BY <2>1, <2>2, <2>3, OverKeeps
<1> QED BY <1>2, <1>3

LEMMA StartupRecordKeeps == ASSUME Inv, NEW t \in Threads, StartupRecord(t) PROVE Inv'
<1>1. /\ TypeOK /\ Phased /\ Own(t) /\ phase = "reconciling" /\ attempt = None /\ t \in todo
      /\ todo' = todo \ {t} /\ Consider(Rec(t), t, "startup") /\ Engine
      /\ UNCHANGED <<tree, live, barrier, wake>>
    BY DEF Inv, StartupRecord
<1>2. HasRecord(t) /\ t \notin live /\ t \notin barrier BY <1>1 DEF Own, Due
<1>3. Engaged(t) BY <1>1, <1>2 DEF Engaged, Phased, NewOf, AttemptOn, ClaimedBy
<1> QED BY <1>1, <1>2, <1>3, ConsiderKeeps DEF Vias, SameBut

LEMMA TickNextKeeps == ASSUME Inv, NEW t \in Threads, TickNext(t) PROVE Inv'
<1>1. /\ TypeOK /\ Phased /\ Own(t) /\ phase = "ready" /\ attempt = None /\ t \in todo
      /\ todo' = todo \ {t} /\ Engine /\ UNCHANGED <<tree, live, barrier, wake>>
    BY DEF Inv, TickNext
<1>2. CASE IsAccessRetryCandidate(t) /\ ~Claimed(t)
    <2>1. HasRecord(t) /\ Holds(t, "active") /\ t \notin live
        BY <1>2 DEF IsAccessRetryCandidate, Holds
    <2>2. ~NewOf(t)
        <3>1. SUFFICES ASSUME NewOf(t) PROVE FALSE OBVIOUS
        <3>2. new.stage \in NewStages BY <1>1, <3>1, NewIs DEF NewOf
        <3> QED BY <1>1, <2>1, <3>1, <3>2 DEF Own, Made, Holds, NewStages
    <2>3. Engaged(t) BY <1>1, <1>2, <2>1, <2>2 DEF Engaged, AttemptOn, ClaimedBy, Claimed
    <2>4. CASE t \in barrier
        <3>1. attempt' = [thread |-> t, via |-> "access-retry", rec |-> Rec(t), stage |-> "barrier"]
              /\ Unsaved /\ UNCHANGED phase
            BY <1>2, <2>4 DEF TickNext
        <3>2. Rec(t) \in Record BY <1>1, <2>1 DEF TypeOK, StoreValue, HasRecord, Rec
        <3>3. /\ attempt' \in Attempt /\ attempt'.thread = t /\ attempt'.rec = Rec(t)
              /\ attempt'.stage = "barrier"
            BY <3>1, <3>2 DEF Attempt
        <3>4. Records(t, Rec(t)) /\ reason' \in [Threads -> Reasons] BY <1>1, <3>1, UnsavedIs DEF TypeOK
        <3>5. t \in tree BY <1>1, <2>4 DEF Own, Housed
        <3>6. Rec(t).state = "active" /\ wake \in {"off", "set", "running"}
            BY <1>1, <2>1 DEF Holds, TypeOK
        <3>7. Answered(t, Rec(t))
            BY <1>1, <2>1, <3>1, <3>2, <3>3, <3>4, <3>5, <3>6 DEF Answered, SameBut
        <3> QED BY <2>3, <3>7, AnsweredKeeps
    <2>5. CASE t \notin barrier
        <3>1. Consider(Rec(t), t, "access-retry") BY <1>2, <2>5 DEF TickNext
        <3> QED BY <1>1, <2>3, <2>5, <3>1, ConsiderKeeps DEF Vias, SameBut
    <2> QED BY <2>4, <2>5
<1>3. CASE ~(IsAccessRetryCandidate(t) /\ ~Claimed(t))
    <2>1. UNCHANGED <<store, reason, phase, attempt>> BY <1>3 DEF TickNext
    <2>2. TypeOK' BY <1>1, <2>1 DEF TypeOK, Engine, bounds
    <2>3. Phased' BY <1>1, <2>1 DEF Phased, Engine
    <2>4. Frame(t) BY <1>1, <2>1 DEF Frame, Engine, AttemptOn, NewOf, ClaimedBy
    <2>5. Own(t)'
        BY <1>1, <2>1 DEF Engine, Own, Housed, Due, Attempted, Closed, Made, Shut, AttemptOn, NewOf,
                          ClaimedBy, Holds, HasRecord, Rec
    <2> QED BY <2>2, <2>3, <2>4, <2>5, StepOfOne
<1> QED BY <1>2, <1>3

LEMMA BarrierAnsweredKeeps == ASSUME Inv, BarrierAnswered PROVE Inv'
<1> DEFINE t == attempt.thread
<1>1. /\ attempt # None /\ Engine /\ UNCHANGED <<tree, live, todo, wake>>
      /\ \E ok \in Proofs(t) :
            /\ barrier' = Without(barrier, t, ok)
            /\ IF ok /\ ~Lost(t) THEN Consider(attempt.rec, t, "access-retry")
               ELSE Over /\ Unsaved /\ UNCHANGED phase
    BY DEF BarrierAnswered, At
<1>2. /\ t \in Threads /\ Own(t) /\ Engaged(t) /\ Rec(t) = attempt.rec
      /\ t \in todo => phase # "reconciling"
    BY <1>1, OnAttempt
<1> HIDE DEF t
<1>3. PICK ok \in Proofs(t) :
            /\ barrier' = Without(barrier, t, ok)
            /\ IF ok /\ ~Lost(t) THEN Consider(attempt.rec, t, "access-retry")
               ELSE Over /\ Unsaved /\ UNCHANGED phase
    BY <1>1
<1>4. SameBut(t, tree, tree') /\ SameBut(t, barrier, barrier') /\ (ok => t \notin barrier')
      /\ (t \in barrier' => t \in tree')
    BY <1>1, <1>2, <1>3 DEF SameBut, Without, Own, Housed
<1>5. CASE ok /\ ~Lost(t)
    BY <1>1, <1>2, <1>3, <1>4, <1>5, ConsiderKeeps DEF Vias
<1>6. CASE ~(ok /\ ~Lost(t))
    BY <1>1, <1>2, <1>3, <1>4, <1>6, OverKeeps
<1> QED BY <1>5, <1>6

\* The step of an attempt that goes on to its next stage.
LEMMA OnwardKeeps ==
    ASSUME Inv, attempt # None, Engine, Unsaved, UNCHANGED <<phase, todo, wake, live, barrier>>,
           SameBut(attempt.thread, tree, tree'), attempt.thread \notin barrier,
           NEW stage \in AttemptStages, Goto(stage),
           stage \in {"capture", "create"} => attempt.thread \in tree'
    PROVE  Inv'
<1> DEFINE t == attempt.thread
<1>1. /\ t \in Threads /\ TypeOK /\ Engaged(t) /\ Holds(t, "active") /\ Rec(t) = attempt.rec
      /\ Rec(t) \in Record /\ (t \in todo => phase # "reconciling")
    BY OnAttempt
<1>2. /\ attempt' \in Attempt /\ attempt'.thread = t /\ attempt'.rec = Rec(t)
      /\ attempt'.stage = stage
    BY <1>1, GotoIs
<1>3. SameBut(t, tree, tree') /\ t \notin barrier /\ (stage \in {"capture", "create"} => t \in tree')
    OBVIOUS
<1> HIDE DEF t
<1>4. Records(t, Rec(t)) /\ reason' \in [Threads -> Reasons] BY <1>1, UnsavedIs DEF TypeOK
<1>5. t \notin live /\ Rec(t).state = "active" /\ wake \in {"off", "set", "running"}
    BY <1>1 DEF Engaged, Holds, TypeOK
<1>6. Answered(t, Rec(t)) BY <1>1, <1>2, <1>3, <1>4, <1>5 DEF Answered, SameBut
<1> QED BY <1>1, <1>6, AnsweredKeeps

\* The step of an attempt that ends it, and leaves the obligation as it is.
LEMMA GivenUpKeeps ==
    ASSUME Inv, attempt # None, Engine, Over, UNCHANGED <<todo, wake, live, barrier>>,
           SameBut(attempt.thread, tree, tree'), attempt.thread \in barrier => attempt.thread \in tree',
           \/ Unsaved /\ UNCHANGED phase
           \/ \E state \in {"active", "orphaned", "blocked"}, why \in Reasons :
                 Terminal(attempt.thread, attempt.via, state, why)
    PROVE  Inv'
<1> DEFINE t == attempt.thread
<1>1. /\ t \in Threads /\ Engaged(t) /\ Holds(t, "active") /\ attempt \in Attempt
      /\ t \in todo => phase # "reconciling"
    BY OnAttempt
<1>2. SameBut(t, barrier, barrier') /\ attempt.via \in Vias BY <1>1 DEF SameBut, Attempt, Vias
<1>3. \/ Unsaved /\ UNCHANGED phase
      \/ \E via \in Vias, state \in States, why \in Reasons :
            /\ Terminal(t, via, state, why)
            /\ state \in {"active", "creating"} => Holds(t, "active")
    BY <1>1, <1>2 DEF States
<1> QED BY <1>1, <1>2, <1>3, OverKeeps

LEMMA ClassifiedKeeps == ASSUME Inv, NEW status \in Statuses, Classified(status) PROVE Inv'
<1> DEFINE t == attempt.thread
<1>1. /\ attempt # None /\ attempt.stage = "classify" /\ Engine
      /\ UNCHANGED <<tree, live, barrier, todo, wake>>
    BY DEF Classified, At
<1>2. SameBut(t, tree, tree') /\ t \notin barrier /\ Own(t)
    BY <1>1, OnAttempt DEF SameBut
<1>3. CASE Lost(t)
    <2>1. Over /\ Unsaved /\ UNCHANGED phase BY <1>3 DEF Classified
    <2> QED BY <1>1, <1>2, <2>1, GivenUpKeeps
<1>4. CASE ~Lost(t) /\ status = "valid"
    <2>1. ResumeStarts(t) /\ Unsaved /\ UNCHANGED phase BY <1>4 DEF Classified
    <2>2. CASE Over BY <1>1, <1>2, <2>1, <2>2, GivenUpKeeps
    <2>3. CASE Goto("capture") /\ t \in tree
        BY <1>1, <1>2, <2>1, <2>3, OnwardKeeps DEF AttemptStages
    <2>4. CASE Goto("rebuild") BY <1>1, <1>2, <2>1, <2>4, OnwardKeeps DEF AttemptStages
    <2> QED BY <2>1, <2>2, <2>3, <2>4 DEF ResumeStarts
<1>5. CASE ~Lost(t) /\ status # "valid"
    <2>1. /\ Over
          /\ \/ Terminal(t, attempt.via, "blocked", "unreachable")
             \/ Unsaved /\ UNCHANGED phase
             \/ Terminal(t, attempt.via, "active", status) /\ status \in {"no-access", "transient"}
        BY <1>5 DEF Classified
    <2>2. \/ Unsaved /\ UNCHANGED phase
          \/ \E state \in {"active", "orphaned", "blocked"}, why \in Reasons :
                Terminal(t, attempt.via, state, why)
        BY <2>1 DEF Reasons
    <2> QED BY <1>1, <1>2, <2>1, <2>2, GivenUpKeeps
<1> QED BY <1>3, <1>4, <1>5

\* A worktree is rebuilt for a record that nobody has ended: it is still there.
LEMMA RebuiltKeeps == ASSUME Inv, NEW ok \in BOOLEAN, Rebuilt(ok) PROVE Inv'
<1> DEFINE t == attempt.thread
<1>1. /\ attempt # None /\ attempt.stage = "rebuild" /\ Engine /\ AddWorktree(t, ok)
      /\ UNCHANGED <<live, barrier, todo, wake>>
    BY DEF Rebuilt, At
<1>2. SameBut(t, tree, tree') /\ t \notin barrier /\ (ok => t \in tree')
    BY <1>1, OnAttempt DEF SameBut, AddWorktree
<1>3. CASE ok
    <2>1. Unsaved /\ UNCHANGED phase /\ (Goto("undo") \/ Goto("capture")) BY <1>3 DEF Rebuilt
    <2>2. CASE Goto("undo") BY <1>1, <1>2, <2>1, <2>2, OnwardKeeps DEF AttemptStages
    <2>3. CASE Goto("capture") BY <1>1, <1>2, <1>3, <2>1, <2>3, OnwardKeeps DEF AttemptStages
    <2> QED BY <2>1, <2>2, <2>3
<1>4. CASE ~ok
    <2>1. /\ Over
          /\ \/ Unsaved /\ UNCHANGED phase
             \/ Terminal(t, attempt.via, "blocked", "told")
        BY <1>4 DEF Rebuilt
    <2>2. \/ Unsaved /\ UNCHANGED phase
          \/ \E state \in {"active", "orphaned", "blocked"}, why \in Reasons :
                Terminal(t, attempt.via, state, why)
        BY <2>1 DEF Reasons
    <2> QED BY <1>1, <1>2, <2>1, <2>2, GivenUpKeeps
<1> QED BY <1>3, <1>4

LEMMA UndoneKeeps == ASSUME Inv, NEW ok \in BOOLEAN, Undone(ok) PROVE Inv'
<1> DEFINE t == attempt.thread
<1>1. /\ attempt # None /\ attempt.stage = "undo" /\ Engine /\ Over /\ Unsaved
      /\ tree' = Without(tree, t, ok) /\ UNCHANGED <<phase, live, barrier, todo, wake>>
    BY DEF Undone, At
<1>2. SameBut(t, tree, tree') /\ t \notin barrier BY <1>1, OnAttempt DEF SameBut, Without
<1> QED BY <1>1, <1>2, GivenUpKeeps

LEMMA CapturedKeeps == ASSUME Inv, NEW answer \in RootAnswers, Captured(answer) PROVE Inv'
<1> DEFINE t == attempt.thread
<1>1. /\ attempt # None /\ attempt.stage = "capture" /\ Engine
      /\ UNCHANGED <<tree, live, barrier, todo, wake>>
      /\ \/ Over /\ Unsaved /\ UNCHANGED phase
         \/ Goto("create") /\ Unsaved /\ UNCHANGED phase
         \/ Over /\ Terminal(t, attempt.via, "blocked", "told")
    BY DEF Captured, At
<1>2. SameBut(t, tree, tree') /\ t \notin barrier /\ t \in tree'
    BY <1>1, OnAttempt DEF SameBut
<1>3. CASE Goto("create") /\ Unsaved /\ UNCHANGED phase
    BY <1>1, <1>2, <1>3, OnwardKeeps DEF AttemptStages
<1>4. CASE Over /\ \/ Unsaved /\ UNCHANGED phase
                   \/ Terminal(t, attempt.via, "blocked", "told")
    <2>1. \/ Unsaved /\ UNCHANGED phase
          \/ \E state \in {"active", "orphaned", "blocked"}, why \in Reasons :
                Terminal(t, attempt.via, state, why)
        BY <1>4 DEF Reasons
    <2> QED BY <1>1, <1>2, <1>4, <2>1, GivenUpKeeps
<1> QED BY <1>1, <1>3, <1>4

\* A runtime that came too late, or whose record could not be committed, is owed.
LEMMA DiscardKeeps ==
    ASSUME Inv, attempt # None, attempt.stage = "create", Engine, Discard(attempt.thread),
           UNCHANGED <<tree, phase, todo, wake>>
    PROVE  Inv'
<1> DEFINE t == attempt.thread
<1>1. /\ t \in Threads /\ TypeOK /\ Engaged(t) /\ Holds(t, "active") /\ Rec(t) = attempt.rec
      /\ Rec(t) \in Record /\ t \in tree /\ (t \in todo => phase # "reconciling")
    BY OnAttempt
<1>2. Goto("discard") /\ barrier' = barrier \cup {t} /\ Unsaved /\ live' = live
    BY DEF Discard
<1>3. /\ attempt' \in Attempt /\ attempt'.thread = t /\ attempt'.rec = Rec(t)
      /\ attempt'.stage = "discard"
    BY <1>1, <1>2, GotoIs DEF AttemptStages
<1> HIDE DEF t
<1>4. Records(t, Rec(t)) /\ reason' \in [Threads -> Reasons] BY <1>1, <1>2, UnsavedIs DEF TypeOK
<1>5. t \notin live /\ Rec(t).state = "active" /\ wake \in {"off", "set", "running"}
    BY <1>1 DEF Engaged, Holds, TypeOK
<1>6. Answered(t, Rec(t)) BY <1>1, <1>2, <1>3, <1>4, <1>5 DEF Answered, SameBut
<1> QED BY <1>1, <1>6, AnsweredKeeps

\* A session is registered with the record it was committed to, when no `/end`
\* has claimed its thread.
LEMMA CreatedKeeps == ASSUME Inv, Created PROVE Inv'
<1> DEFINE t == attempt.thread
<1>1. /\ attempt # None /\ attempt.stage = "create" /\ Engine
      /\ UNCHANGED <<tree, phase, todo, wake>>
      /\ \/ Discard(t)
         \/ /\ Save(Commit(store, t), t, "none") /\ Registered(t) /\ Over
            /\ barrier' = barrier
    BY DEF Created, At
<1>2. CASE Discard(t) BY <1>1, <1>2, DiscardKeeps
<1>3. CASE Save(Commit(store, t), t, "none") /\ Registered(t) /\ Over /\ barrier' = barrier
    <2>1. /\ t \in Threads /\ TypeOK /\ Engaged(t) /\ Holds(t, "active")
          /\ t \notin barrier /\ t \in tree /\ (t \in todo => phase # "reconciling")
        BY <1>1, OnAttempt
    <2>2. /\ store' = SetState(store, t, "active") /\ reason' = [reason EXCEPT ![t] = "none"]
          /\ live' = live \cup {t} /\ attempt' = None
        BY <1>3 DEF Save, Commit, Registered, Over
    <2> HIDE DEF t
    <2> DEFINE r == [Rec(t) EXCEPT !.state = "active"]
    <2>3. Records(t, r) /\ r \in Record /\ r.state = "active"
        BY <2>1, <2>2, SetStateIs DEF TypeOK, Engaged, States
    <2> HIDE DEF r
    <2>4. /\ reason' \in [Threads -> Reasons] /\ wake \in {"off", "set", "running"}
          /\ Rec(t).state = "active"
        BY <2>1, <2>2 DEF TypeOK, Reasons, Holds
    <2>5. Answered(t, r) BY <1>1, <1>3, <2>1, <2>2, <2>3, <2>4 DEF Answered, SameBut
    <2> QED BY <2>1, <2>5, AnsweredKeeps
<1> QED BY <1>1, <1>2, <1>3

LEMMA CreateFailsKeeps == ASSUME Inv, NEW why, CreateFails(why) PROVE Inv'
<1> DEFINE t == attempt.thread
<1>1. /\ attempt # None /\ attempt.stage = "create" /\ Engine /\ Over
      /\ UNCHANGED <<tree, live, barrier, todo, wake>>
      /\ \/ Terminal(t, attempt.via, "orphaned", "told")
         \/ Unsaved /\ UNCHANGED phase
    BY DEF CreateFails, At
<1>2. SameBut(t, tree, tree') /\ t \notin barrier BY <1>1, OnAttempt DEF SameBut
<1>3. \/ Unsaved /\ UNCHANGED phase
      \/ \E state \in {"active", "orphaned", "blocked"}, y \in Reasons :
            Terminal(t, attempt.via, state, y)
    BY <1>1 DEF Reasons
<1> QED BY <1>1, <1>2, <1>3, GivenUpKeeps

LEMMA DiscardedKeeps == ASSUME Inv, NEW ok \in BOOLEAN, Discarded(ok) PROVE Inv'
<1> DEFINE t == attempt.thread
<1>1. /\ attempt # None /\ Engine /\ Over /\ Unsaved /\ barrier' = Without(barrier, t, ok)
      /\ UNCHANGED <<tree, phase, live, todo, wake>>
    BY DEF Discarded, At
<1>2. /\ t \in Threads /\ Own(t) /\ Engaged(t) /\ (t \in todo => phase # "reconciling")
    BY <1>1, OnAttempt
<1>3. /\ SameBut(t, tree, tree') /\ SameBut(t, barrier, barrier')
      /\ t \in barrier' => t \in tree'
    BY <1>1, <1>2 DEF SameBut, Without, Own, Housed
<1> QED BY <1>1, <1>2, <1>3, OverKeeps

\* A disconnect that answers late only takes an obligation away.
LEMMA LateConfirmationKeeps == ASSUME Inv, NEW t \in Threads, LateConfirmation(t) PROVE Inv'
<1>1. /\ TypeOK /\ Phased /\ Own(t) /\ barrier' = barrier \ {t}
      /\ UNCHANGED <<store, reason, enabled, tree, opened, phase, live, todo, wake, attempt,
                     ends, new, ended, crashes, typed>>
    BY DEF Inv, LateConfirmation, durable, retry, bounds
<1>2. TypeOK' BY <1>1 DEF TypeOK
<1>3. Phased' BY <1>1 DEF Phased
<1>4. Frame(t) BY <1>1 DEF Frame, AttemptOn, NewOf, ClaimedBy
<1>5. Own(t)'
    BY <1>1 DEF Own, Housed, Due, Attempted, Closed, Made, Shut, AttemptOn, NewOf,
                ClaimedBy, Holds, HasRecord, Rec
<1> QED BY <1>2, <1>3, <1>4, <1>5, StepOfOne

-----------------------------------------------------------------------------
(* The steps of an `/end`.                                                  *)

\* What a step of the command e, which is about t, leaves alone.
EndStep(e, t) ==
    /\ OnlyEnds /\ phase \in {"ready", "stopping"}
    /\ \E r : Records(t, r)
    /\ reason' \in [Threads -> Reasons] /\ typed' \in 0 .. MaxEnds
    /\ SameBut(t, tree, tree') /\ SameBut(t, live, live')
    /\ SameBut(t, barrier, barrier') /\ SameBut(t, ended, ended')
    /\ ends' \in [Enders -> End \cup {None}]
    /\ \A f \in Enders \ {e} : ends'[f] = ends[f]
    /\ ends'[e] # None => ends'[e].thread = t

LEMMA EndStepKeeps ==
    ASSUME Inv, NEW e \in Enders, NEW t \in Threads, EndStep(e, t), Own(t)' PROVE Inv'
<1>1. /\ TypeOK /\ Phased
      /\ UNCHANGED <<enabled, opened, phase, todo, wake, attempt, new, crashes>>
      /\ store' \in StoreValue /\ \A u \in Threads \ {t} : store'.sessions[u] = store.sessions[u]
    BY DEF Inv, EndStep, OnlyEnds, retry, Records
<1>2. TypeOK'
    <2>1. /\ tree' \subseteq Threads /\ live' \subseteq Threads /\ barrier' \subseteq Threads
          /\ ended' \subseteq Threads
        BY <1>1 DEF TypeOK, EndStep, SameBut
    <2>2. /\ reason' \in [Threads -> Reasons] /\ typed' \in 0 .. MaxEnds
          /\ ends' \in [Enders -> End \cup {None}]
        BY DEF EndStep
    <2> QED BY <1>1, <2>1, <2>2 DEF TypeOK
<1>3. Phased' BY <1>1 DEF Phased, EndStep
<1>4. Frame(t)
    <2>1. ASSUME NEW u \in Threads \ {t}
          PROVE  /\ u \in tree' <=> u \in tree
                 /\ u \in live' <=> u \in live
                 /\ u \in barrier' <=> u \in barrier
                 /\ u \in ended' <=> u \in ended
                 /\ \A f \in Enders : ClaimedBy(f, u)' => ClaimedBy(f, u) /\ ends'[f] = ends[f]
        BY DEF EndStep, SameBut, ClaimedBy
    <2> QED BY <1>1, <2>1 DEF Frame, AttemptOn, NewOf
<1> QED BY <1>2, <1>3, <1>4, StepOfOne

\* What is known of the thread of a command under way.
LEMMA OnEnd ==
    ASSUME Inv, NEW e \in Enders, ends[e] # None
    PROVE  LET t == ends[e].thread IN
           /\ t \in Threads /\ TypeOK /\ Own(t) /\ ClaimedBy(e, t)
           /\ phase \in {"ready", "stopping"} /\ t \in opened
           /\ ends[e].stage # "joining" => ~AttemptOn(t)
           /\ ends[e].stage \in {"closing", "reclaiming"} => t \notin barrier /\ ~NewOf(t)
           /\ ends[e].stage = "reclaiming" => t \notin live
<1> DEFINE t == ends[e].thread
<1>1. TypeOK /\ Phased /\ ends[e] \in End /\ t \in Threads BY DEF Inv, TypeOK, End
<1>2. Own(t) /\ ClaimedBy(e, t) BY <1>1 DEF Inv, ClaimedBy
<1>3. phase \in {"ready", "stopping"} BY <1>1 DEF Phased, TypeOK
<1>4. /\ t \in opened
      /\ ends[e].stage # "joining" => ~AttemptOn(t)
      /\ ends[e].stage \in {"closing", "reclaiming"} => t \notin barrier /\ ~NewOf(t)
      /\ ends[e].stage = "reclaiming" => t \notin live
    BY <1>2 DEF Own, Housed, Closed
<1> QED BY <1>1, <1>2, <1>3, <1>4

\* A command that waits for nobody but its own thread's attempt or obligation: the
\* record, the worktree and the session stay, an obligation may go.
LEMMA EndAsksKeeps ==
    ASSUME Inv, NEW e \in Enders, NEW t \in Threads, OnlyEnds, phase \in {"ready", "stopping"},
           t \in opened, UNCHANGED <<store, reason, tree, live, ended>>,
           typed' \in 0 .. MaxEnds, SameBut(t, barrier, barrier'), barrier' \subseteq barrier,
           ends' \in [Enders -> End \cup {None}],
           \A f \in Enders \ {e} : ends'[f] = ends[f],
           ends'[e] # None =>
              /\ ends'[e].thread = t
              /\ ends'[e].stage # "joining" => ~AttemptOn(t)
              /\ ends'[e].stage \in {"closing", "reclaiming"} => t \notin barrier' /\ ~NewOf(t)
              /\ ends'[e].stage = "reclaiming" => t \notin live
    PROVE  Inv'
<1>1. TypeOK /\ Own(t) /\ UNCHANGED <<enabled, opened, phase, todo, wake, attempt, new, crashes>>
    BY DEF Inv, OnlyEnds, retry
<1>2. Records(t, Rec(t)) BY <1>1 DEF TypeOK, Records, Rec
<1>3. EndStep(e, t) BY <1>1, <1>2 DEF EndStep, SameBut, TypeOK
<1>4. Own(t)'
    <2>1. Housed(t)' BY <1>1 DEF Own, Housed, ClaimedBy, Holds, HasRecord, Rec, NewOf
    <2>2. Due(t)' BY <1>1 DEF Due
    <2>3. Attempted(t)' BY <1>1 DEF Own, Attempted, AttemptOn, Holds, HasRecord, Rec
    <2>4. Closed(t)'
        <3> SUFFICES ASSUME NEW f \in Enders, ClaimedBy(f, t)'
                     PROVE  /\ ends'[f].stage # "joining" => ~AttemptOn(t)'
                            /\ ends'[f].stage \in {"closing", "reclaiming"}
                                  => t \notin barrier' /\ ~NewOf(t)'
                            /\ ends'[f].stage = "reclaiming" => t \notin live'
            BY DEF Closed
        <3>1. CASE f = e BY <1>1, <3>1 DEF ClaimedBy, AttemptOn, NewOf
        <3>2. CASE f # e BY <1>1, <3>2 DEF Own, Closed, ClaimedBy, AttemptOn, NewOf
        <3> QED BY <3>1, <3>2
    <2>5. Made(t)' BY <1>1 DEF Own, Made, NewOf, Holds, HasRecord, Rec
    <2>6. Shut(t)' BY <1>1 DEF Own, Shut, Holds, HasRecord, Rec
    <2> QED BY <2>1, <2>2, <2>3, <2>4, <2>5, <2>6 DEF Own
<1> QED BY <1>3, <1>4, EndStepKeeps

LEMMA EndTypedKeeps ==
    ASSUME Inv, NEW e \in Enders, NEW t \in Threads, EndTyped(e, t) PROVE Inv'
<1> DEFINE end == [thread |-> t, stage |-> IF t \in live THEN "closing" ELSE "joining"]
<1>1. /\ TypeOK /\ Own(t) /\ OnlyEnds /\ phase = "ready" /\ t \in opened
      /\ typed < MaxEnds /\ typed' = typed + 1 /\ ends' = [ends EXCEPT ![e] = end]
      /\ UNCHANGED <<store, reason, tree, live, barrier, ended>>
    BY DEF Inv, EndTyped, durable
<1>2. end \in End /\ end.thread = t /\ end.stage \in {"closing", "joining"}
      /\ (end.stage = "closing" => t \in live)
    BY DEF End
<1> HIDE DEF end
<1>3. /\ ends' \in [Enders -> End \cup {None}] /\ ends'[e] = end
      /\ \A f \in Enders \ {e} : ends'[f] = ends[f]
    BY <1>1, <1>2 DEF TypeOK
<1>4. typed' \in 0 .. MaxEnds BY <1>1, ReconciliationAssumption DEF TypeOK
<1>5. t \in live => t \notin barrier /\ ~AttemptOn(t) /\ ~NewOf(t)
    BY <1>1 DEF Own, Housed, Attempted, Made
<1> QED BY <1>1, <1>2, <1>3, <1>4, <1>5, EndAsksKeeps DEF SameBut

\* What is left without a session is reclaimed when nobody is at work on it.
LEMMA DisposeIs ==
    ASSUME Inv, NEW e \in Enders, ends[e] # None, NEW t, t = ends[e].thread, Dispose(e, t)
    PROVE  /\ ends' \in [Enders -> End \cup {None}]
           /\ \A f \in Enders \ {e} : ends'[f] = ends[f]
           /\ ends'[e] # None =>
                 ends'[e].thread = t /\ ends'[e].stage = "reclaiming" /\ ~NewOf(t) /\ t \notin live
<1>1. TypeOK /\ Own(t) /\ t \in Threads BY OnEnd
<1>2. CASE EndOver(e) BY <1>1, <1>2, EndOverIs
<1>3. CASE Reapable(t) /\ EndGoto(e, "reclaiming")
    <2>1. HasRecord(t) /\ t \notin live /\ (Holds(t, "creating") => new = None)
        BY <1>3 DEF Reapable
    <2>2. ~NewOf(t)
        <3>1. SUFFICES ASSUME NewOf(t) PROVE FALSE OBVIOUS
        <3>2. new.stage \in NewStages BY <1>1, <3>1, NewIs DEF NewOf
        <3>3. new # None BY <3>1 DEF NewOf
        <3> QED BY <1>1, <2>1, <3>1, <3>2, <3>3 DEF Own, Made, NewStages
    <2>3. /\ ends' \in [Enders -> End \cup {None}]
          /\ ends'[e].thread = ends[e].thread /\ ends'[e].stage = "reclaiming"
          /\ \A f \in Enders \ {e} : ends'[f] = ends[f]
        BY <1>1, <1>3, EndGotoIs DEF EndStages
    <2> QED BY <2>1, <2>2, <2>3
<1> QED BY <1>2, <1>3 DEF Dispose

LEMMA EndJoinedKeeps == ASSUME Inv, NEW e \in Enders, EndJoined(e) PROVE Inv'
<1> DEFINE t == ends[e].thread
<1>1. /\ ends[e] # None /\ OnlyEnds
      /\ UNCHANGED <<store, reason, enabled, tree, live, barrier, ended, typed>>
      /\ IF attempt # None /\ attempt.thread = t THEN EndOver(e)
         ELSE IF t \in barrier THEN EndGoto(e, "barrier") ELSE Dispose(e, t)
    BY DEF EndJoined, EndAt, durable
<1>2. /\ t \in Threads /\ TypeOK /\ phase \in {"ready", "stopping"} /\ t \in opened
    BY <1>1, OnEnd
<1> HIDE DEF t
<1>3. SameBut(t, barrier, barrier') /\ barrier' \subseteq barrier /\ typed' \in 0 .. MaxEnds
    BY <1>1, <1>2 DEF SameBut, TypeOK
<1>4. CASE EndOver(e)
    <2>1. /\ ends' \in [Enders -> End \cup {None}] /\ ends'[e] = None
          /\ \A f \in Enders \ {e} : ends'[f] = ends[f]
        BY <1>2, <1>4, EndOverIs
    <2> QED BY <1>1, <1>2, <1>3, <2>1, EndAsksKeeps
<1>5. CASE ~AttemptOn(t) /\ EndGoto(e, "barrier")
    <2>1. /\ ends' \in [Enders -> End \cup {None}] /\ ends'[e].thread = t
          /\ ends'[e].stage = "barrier" /\ \A f \in Enders \ {e} : ends'[f] = ends[f]
        BY <1>1, <1>2, <1>5, EndGotoIs DEF EndStages, t
    <2> QED BY <1>1, <1>2, <1>3, <1>5, <2>1, EndAsksKeeps
<1>6. CASE ~AttemptOn(t) /\ t \notin barrier /\ Dispose(e, t)
    <2>1. /\ ends' \in [Enders -> End \cup {None}]
          /\ \A f \in Enders \ {e} : ends'[f] = ends[f]
          /\ ends'[e] # None =>
                ends'[e].thread = t /\ ends'[e].stage = "reclaiming" /\ ~NewOf(t) /\ t \notin live
        BY <1>1, <1>6, DisposeIs DEF t
    <2> QED BY <1>1, <1>2, <1>3, <1>6, <2>1, EndAsksKeeps
<1> QED BY <1>1, <1>4, <1>5, <1>6 DEF AttemptOn

LEMMA EndBarrierAnsweredKeeps == ASSUME Inv, NEW e \in Enders, EndBarrierAnswered(e) PROVE Inv'
<1> DEFINE t == ends[e].thread
<1>1. /\ ends[e] # None /\ ends[e].stage = "barrier" /\ OnlyEnds
      /\ UNCHANGED <<store, reason, enabled, tree, live, ended, typed>>
      /\ \E ok \in Proofs(t) : /\ barrier' = Without(barrier, t, ok)
                               /\ IF ok THEN Dispose(e, t) ELSE EndOver(e)
    BY DEF EndBarrierAnswered, EndAt, durable
<1>2. /\ t \in Threads /\ TypeOK /\ phase \in {"ready", "stopping"} /\ t \in opened
      /\ ~AttemptOn(t)
    BY <1>1, OnEnd
<1> HIDE DEF t
<1>3. PICK ok \in Proofs(t) : /\ barrier' = Without(barrier, t, ok)
                              /\ IF ok THEN Dispose(e, t) ELSE EndOver(e)
    BY <1>1
<1>4. /\ SameBut(t, barrier, barrier') /\ barrier' \subseteq barrier /\ typed' \in 0 .. MaxEnds
      /\ ok => t \notin barrier'
    BY <1>1, <1>2, <1>3 DEF SameBut, TypeOK, Without
<1>5. CASE ok
    <2>1. /\ ends' \in [Enders -> End \cup {None}]
          /\ \A f \in Enders \ {e} : ends'[f] = ends[f]
          /\ ends'[e] # None =>
                ends'[e].thread = t /\ ends'[e].stage = "reclaiming" /\ ~NewOf(t) /\ t \notin live
        BY <1>1, <1>3, <1>5, DisposeIs DEF t
    <2> QED BY <1>1, <1>2, <1>4, <1>5, <2>1, EndAsksKeeps
<1>6. CASE ~ok
    <2>1. /\ ends' \in [Enders -> End \cup {None}] /\ ends'[e] = None
          /\ \A f \in Enders \ {e} : ends'[f] = ends[f]
        BY <1>2, <1>3, <1>6, EndOverIs
    <2> QED BY <1>1, <1>2, <1>4, <2>1, EndAsksKeeps
<1> QED BY <1>5, <1>6

\* The session leaves the map when its runtime is known to have stopped.
LEMMA EndClosedKeeps == ASSUME Inv, NEW e \in Enders, NEW ok \in BOOLEAN, EndClosed(e, ok) PROVE Inv'
<1>0. PICK t : t = ends[e].thread OBVIOUS
<1>1. /\ ends[e] # None /\ ends[e].stage = "closing" /\ OnlyEnds
      /\ UNCHANGED <<store, reason, enabled, tree, barrier, ended, typed>>
      /\ live' = Without(live, t, ok)
      /\ IF ok THEN EndGoto(e, "reclaiming") ELSE EndOver(e)
    BY <1>0 DEF EndClosed, EndAt, durable
<1>2. /\ t \in Threads /\ TypeOK /\ Own(t) /\ phase \in {"ready", "stopping"}
      /\ ~AttemptOn(t) /\ t \notin barrier /\ ~NewOf(t)
    BY <1>0, <1>1, OnEnd
<1>3. /\ ends' \in [Enders -> End \cup {None}]
      /\ \A f \in Enders \ {e} : ends'[f] = ends[f]
      /\ ends'[e] # None => ok /\ ends'[e].thread = t /\ ends'[e].stage = "reclaiming"
    BY <1>0, <1>1, <1>2, EndGotoIs, EndOverIs DEF EndStages
<1>4. ClaimedBy(e, t) BY <1>0, <1>1 DEF ClaimedBy
<1>5. /\ SameBut(t, live, live') /\ (t \in live' => t \in live) /\ (ok => t \notin live')
      /\ typed' \in 0 .. MaxEnds /\ Records(t, Rec(t)) /\ store'.sessions[t] = store.sessions[t]
    BY <1>1, <1>2 DEF SameBut, Without, TypeOK, Records, Rec
<1>6. EndStep(e, t) BY <1>1, <1>2, <1>3, <1>5 DEF EndStep, SameBut, TypeOK
<1>7. UNCHANGED <<enabled, opened, phase, todo, attempt, new>> BY <1>1 DEF OnlyEnds, retry
<1>8. Own(t)'
    <2>1. ~AttemptOn(t)' /\ ~NewOf(t)' BY <1>2, <1>7 DEF AttemptOn, NewOf
    <2>2. \A f \in Enders : ClaimedBy(f, t)' => ClaimedBy(f, t) BY <1>3, <1>4 DEF ClaimedBy
    <2>3. Housed(t)' BY <1>1, <1>2, <1>5, <1>7, <2>1, <2>2 DEF Own, Housed, Holds, HasRecord, Rec
    <2>4. Due(t)' BY <1>2, <1>7 DEF Due
    <2>5. Closed(t)'
        <3> SUFFICES ASSUME NEW f \in Enders, ClaimedBy(f, t)', ends'[f].stage = "reclaiming"
                     PROVE  t \notin live'
            BY <1>1, <1>2, <2>1 DEF Closed
        <3>1. CASE f = e BY <1>3, <1>5, <3>1 DEF ClaimedBy
        <3>2. CASE f # e BY <1>2, <1>3, <1>5, <3>2 DEF Own, Closed, ClaimedBy
        <3> QED BY <3>1, <3>2
    <2>6. Attempted(t)' /\ Made(t)' BY <2>1 DEF Attempted, Made
    <2>7. Shut(t)' BY <1>2, <1>5, <1>7 DEF Own, Shut, Holds, HasRecord, Rec
    <2> QED BY <2>3, <2>4, <2>5, <2>6, <2>7 DEF Own
<1> QED BY <1>2, <1>6, <1>8, EndStepKeeps

\* The record follows the worktree: what is reclaimed has nobody at it, and is over.
LEMMA EndRetiresKeeps ==
    ASSUME Inv, NEW e \in Enders, ends[e] # None, ends[e].stage = "reclaiming", OnlyEnds,
           NEW t, t = ends[e].thread, EndOver(e), UNCHANGED <<live, barrier, typed>>,
           reason' \in [Threads -> Reasons], SameBut(t, tree, tree'), SameBut(t, ended, ended'),
           t \in tree' => t \in tree,
           \/ /\ Records(t, Rec(t))
              /\ t \in ended' => t \in ended
           \/ /\ Records(t, None)
              /\ t \notin tree'
           \/ \E r \in Record : Records(t, r) /\ r.state = "blocked" /\ HasRecord(t) /\ ended' = ended
    PROVE  Inv'
<1>1. /\ t \in Threads /\ TypeOK /\ Own(t) /\ phase \in {"ready", "stopping"} /\ t \in opened
      /\ ~AttemptOn(t) /\ t \notin barrier /\ ~NewOf(t) /\ t \notin live
    BY OnEnd
<1>2. /\ ends' \in [Enders -> End \cup {None}] /\ ends'[e] = None
      /\ \A f \in Enders \ {e} : ends'[f] = ends[f]
    BY <1>1, EndOverIs
<1>3. UNCHANGED <<enabled, opened, phase, todo, attempt, new>> BY DEF OnlyEnds, retry
<1>4. EndStep(e, t) BY <1>1, <1>2 DEF EndStep, SameBut, TypeOK
<1>5. ~AttemptOn(t)' /\ ~NewOf(t)' /\ t \notin live' /\ t \notin barrier' /\ t \in opened'
    BY <1>1, <1>3 DEF AttemptOn, NewOf
<1>6. Housed(t)'
    <2>1. t \in ended' => ~HasRecord(t)' /\ t \notin tree'
        <3>1. CASE Records(t, Rec(t)) /\ (t \in ended' => t \in ended)
            BY <1>1, <3>1 DEF Own, Housed, Records, HasRecord, Rec
        <3>2. CASE Records(t, None) /\ t \notin tree' BY <3>2 DEF Records, HasRecord, Rec
        <3>3. CASE HasRecord(t) /\ ended' = ended BY <1>1, <3>3 DEF Own, Housed
        <3> QED BY <3>1, <3>2, <3>3
    <2> QED BY <1>5, <2>1 DEF Housed
<1>7. Due(t)' BY <1>1, <1>3 DEF Due
<1>8. Closed(t)' BY <1>5 DEF Closed
<1>9. Attempted(t)' /\ Made(t)' BY <1>5 DEF Attempted, Made
<1>10. Shut(t)' BY <1>1, <1>3, <1>5 DEF Own, Shut, Records, Holds, HasRecord, Rec
<1>11. Own(t)' BY <1>6, <1>7, <1>8, <1>9, <1>10 DEF Own
<1> QED BY <1>1, <1>4, <1>11, EndStepKeeps

LEMMA EndReclaimedKeeps == ASSUME Inv, NEW e \in Enders, EndReclaimed(e) PROVE Inv'
<1> DEFINE t == ends[e].thread
<1>1. /\ ends[e] # None /\ ends[e].stage = "reclaiming" /\ OnlyEnds /\ EndOver(e)
      /\ UNCHANGED <<live, barrier, typed>> /\ tree' = tree \ {t}
      /\ \/ Save(Remove(store, t), t, "none") /\ ended' = ended \cup {t}
         \/ Unsaved /\ UNCHANGED ended
    BY DEF EndReclaimed, EndAt
<1>2. t \in Threads /\ TypeOK BY <1>1, OnEnd
<1> HIDE DEF t
<1>3. SameBut(t, tree, tree') /\ SameBut(t, ended, ended') /\ t \notin tree'
    BY <1>1 DEF SameBut
<1>4. CASE Save(Remove(store, t), t, "none")
    <2>1. Records(t, None) /\ reason' \in [Threads -> Reasons]
        BY <1>2, <1>4, RemoveIs DEF Save, TypeOK, Reasons
    <2> QED BY <1>1, <1>3, <2>1, EndRetiresKeeps DEF t
<1>5. CASE Unsaved /\ UNCHANGED ended
    <2>1. Records(t, Rec(t)) /\ reason' \in [Threads -> Reasons]
        BY <1>2, <1>5, UnsavedIs DEF TypeOK
    <2> QED BY <1>1, <1>3, <1>5, <2>1, EndRetiresKeeps DEF t
<1> QED BY <1>1, <1>4, <1>5

LEMMA EndKeptKeeps == ASSUME Inv, NEW e \in Enders, EndKept(e) PROVE Inv'
<1> DEFINE t == ends[e].thread
           why == IF reason[t] \in {"no-access", "unreachable"} THEN reason[t] ELSE "unreachable"
<1>1. /\ ends[e] # None /\ ends[e].stage = "reclaiming" /\ OnlyEnds /\ EndOver(e)
      /\ UNCHANGED <<tree, live, barrier, ended, typed>>
      /\ \/ HasRecord(t) /\ Save(SetState(store, t, "blocked"), t, why)
         \/ Unsaved
    BY DEF EndKept, EndAt
<1>2. t \in Threads /\ TypeOK BY <1>1, OnEnd
<1>3. why \in Reasons BY DEF Reasons
<1> HIDE DEF t, why
<1>4. SameBut(t, tree, tree') /\ SameBut(t, ended, ended') BY <1>1 DEF SameBut
<1>5. CASE HasRecord(t) /\ Save(SetState(store, t, "blocked"), t, why)
    <2>1. /\ \E r \in Record : Records(t, r) /\ r.state = "blocked"
          /\ reason' \in [Threads -> Reasons]
        BY <1>2, <1>3, <1>5, SetStateIs DEF Save, TypeOK, States
    <2> QED BY <1>1, <1>4, <1>5, <2>1, EndRetiresKeeps DEF t
<1>6. CASE Unsaved
    <2>1. Records(t, Rec(t)) /\ reason' \in [Threads -> Reasons]
        BY <1>2, <1>6, UnsavedIs DEF TypeOK
    <2> QED BY <1>1, <1>4, <2>1, EndRetiresKeeps DEF t
<1> QED BY <1>1, <1>5, <1>6

-----------------------------------------------------------------------------
(* The steps of `/new`.                                                     *)

\* Until it has a thread, `/new` changes nothing of any.
LEMMA NewUnplacedKeeps ==
    ASSUME Inv, OnlyNew, UNCHANGED <<store, reason, tree, live, barrier>>,
           phase \in {"ready", "stopping"}, opened \subseteq opened', opened' \subseteq Threads,
           new' \in New \cup {None}, new' # None => new'.stage \in {"parent", "thread"}
    PROVE  Inv'
<1>1. /\ TypeOK /\ Phased
      /\ UNCHANGED <<store, reason, enabled, tree, phase, live, barrier, todo, wake, attempt,
                     ends, ended, crashes, typed>>
    BY DEF Inv, OnlyNew, retry, bounds
<1>2. TypeOK' BY <1>1 DEF TypeOK
<1>3. Phased' BY <1>1 DEF Phased
<1>4. ASSUME NEW t \in Threads PROVE Own(t)'
    <2>1. Own(t) /\ ~NewOf(t)' BY DEF Inv, NewOf
    <2>2. Housed(t)' BY <1>1, <2>1 DEF Own, Housed, ClaimedBy, Holds, HasRecord, Rec
    <2>3. Due(t)' /\ Attempted(t)'
        BY <1>1, <2>1 DEF Own, Due, Attempted, AttemptOn, Holds, HasRecord, Rec
    <2>4. Closed(t)' BY <1>1, <2>1 DEF Own, Closed, ClaimedBy, AttemptOn
    <2>5. Made(t)' BY <2>1 DEF Made
    <2>6. Shut(t)' BY <1>1, <2>1 DEF Own, Shut, Holds, HasRecord, Rec
    <2> QED BY <2>2, <2>3, <2>4, <2>5, <2>6 DEF Own
<1> QED BY <1>2, <1>3, <1>4 DEF Inv

LEMMA NewTypedKeeps == ASSUME Inv, NewTyped PROVE Inv'
<1> DEFINE n == [stage |-> "parent", thread |-> None, gen |-> 0]
<1>1. /\ OnlyNew /\ phase = "ready" /\ new' = n
      /\ UNCHANGED <<store, reason, tree, opened, live, barrier>>
    BY DEF NewTyped
<1>2. n \in New /\ n.stage = "parent" BY DEF New
<1>3. opened \subseteq opened' /\ opened' \subseteq Threads BY <1>1 DEF Inv, TypeOK
<1> QED BY <1>1, <1>2, <1>3, NewUnplacedKeeps

LEMMA NewParentAnsweredKeeps ==
    ASSUME Inv, NEW ok \in BOOLEAN, NewParentAnswered(ok) PROVE Inv'
<1>1. /\ OnlyNew /\ new # None /\ new.stage = "parent"
      /\ UNCHANGED <<store, reason, tree, opened, live, barrier>>
      /\ new' = [new EXCEPT !.stage = "thread"] \/ new' = None
    BY DEF NewParentAnswered, NewAt, NewGoto, NewOver
<1>2. TypeOK /\ Phased BY DEF Inv
<1>3. phase \in {"ready", "stopping"} BY <1>1, <1>2 DEF Phased, TypeOK
<1>4. new \in [stage : {"parent", "thread"}, thread : {None}, gen : {0}]
    BY <1>1, <1>2 DEF TypeOK, New
<1>5. new' \in New \cup {None} /\ (new' # None => new'.stage \in {"parent", "thread"})
    <2>1. CASE new' = None BY <2>1
    <2>2. CASE new' = [new EXCEPT !.stage = "thread"]
        <3>1. new' \in [stage : {"parent", "thread"}, thread : {None}, gen : {0}]
            BY <1>4, <2>2
        <3> QED BY <3>1 DEF New
    <2> QED BY <1>1, <2>1, <2>2
<1>6. opened \subseteq opened' /\ opened' \subseteq Threads BY <1>1, <1>2 DEF TypeOK
<1> QED BY <1>1, <1>3, <1>5, <1>6, NewUnplacedKeeps

LEMMA NewThreadFailsKeeps == ASSUME Inv, NewThreadFails PROVE Inv'
<1>1. /\ OnlyNew /\ new # None /\ new' = None
      /\ UNCHANGED <<store, reason, tree, opened, live, barrier>>
    BY DEF NewThreadFails, NewAt, NewOver
<1>2. phase \in {"ready", "stopping"} /\ opened \subseteq opened' /\ opened' \subseteq Threads
    BY <1>1 DEF Inv, Phased, TypeOK
<1> QED BY <1>1, <1>2, NewUnplacedKeeps

\* What a step of `/new` on its thread t leaves alone.
NewStep(t) ==
    /\ OnlyNew /\ phase \in {"ready", "stopping"}
    /\ \E r : Records(t, r)
    /\ reason' \in [Threads -> Reasons]
    /\ SameBut(t, tree, tree') /\ SameBut(t, live, live')
    /\ SameBut(t, barrier, barrier') /\ SameBut(t, opened, opened')
    /\ new' \in New \cup {None} /\ (new' # None => new'.thread = t)

LEMMA NewStepKeeps == ASSUME Inv, NEW t \in Threads, NewStep(t), Own(t)' PROVE Inv'
<1>1. /\ TypeOK /\ Phased
      /\ UNCHANGED <<enabled, phase, todo, wake, attempt, ends, ended, crashes, typed>>
      /\ store' \in StoreValue /\ \A u \in Threads \ {t} : store'.sessions[u] = store.sessions[u]
    BY DEF Inv, NewStep, OnlyNew, retry, bounds, Records
<1>2. TypeOK'
    <2>1. /\ tree' \subseteq Threads /\ live' \subseteq Threads /\ barrier' \subseteq Threads
          /\ opened' \subseteq Threads
        BY <1>1 DEF TypeOK, NewStep, SameBut
    <2>2. reason' \in [Threads -> Reasons] /\ new' \in New \cup {None} BY DEF NewStep
    <2> QED BY <1>1, <2>1, <2>2 DEF TypeOK
<1>3. Phased' BY <1>1 DEF Phased, NewStep
<1>4. Frame(t)
    <2>1. ASSUME NEW u \in Threads \ {t}
          PROVE  /\ u \in tree' <=> u \in tree
                 /\ u \in live' <=> u \in live
                 /\ u \in barrier' <=> u \in barrier
                 /\ u \in opened' <=> u \in opened
                 /\ ~NewOf(u)'
        BY DEF NewStep, SameBut, NewOf
    <2> QED BY <1>1, <2>1 DEF Frame, AttemptOn, ClaimedBy
<1> QED BY <1>2, <1>3, <1>4, StepOfOne

\* What is known of the thread `/new` is at work on.
LEMMA OnNew ==
    ASSUME Inv, new # None, new.stage \notin {"parent", "thread"}
    PROVE  LET t == new.thread IN
           /\ t \in Threads /\ TypeOK /\ Own(t) /\ NewOf(t) /\ ~AttemptOn(t)
           /\ new.gen \in Nat \ {0} /\ new.stage \in NewStages
           /\ phase \in {"ready", "stopping"} /\ t \in opened /\ t \notin live /\ t \notin ended
           /\ \A e \in Enders : ClaimedBy(e, t) => ends[e].stage \notin {"closing", "reclaiming"}
<1> DEFINE t == new.thread
<1>1. TypeOK /\ Phased BY DEF Inv
<1>2. new \in [stage : NewStages, thread : Threads, gen : Nat \ {0}] BY <1>1, NewIs
<1>3. t \in Threads /\ new.gen \in Nat \ {0} /\ new.stage \in NewStages BY <1>2
<1>4. Own(t) /\ NewOf(t) BY <1>3 DEF Inv, NewOf
<1>5. ~AttemptOn(t) BY <1>3, <1>4 DEF Own, Attempted, Made, Holds, NewStages
<1>6. /\ t \in opened /\ t \notin live /\ t \notin ended
      /\ \A e \in Enders : ClaimedBy(e, t) => ends[e].stage \notin {"closing", "reclaiming"}
    BY <1>4 DEF Own, Housed, Made, Closed
<1>7. phase \in {"ready", "stopping"} BY <1>1 DEF Phased, TypeOK
<1> QED BY <1>1, <1>3, <1>4, <1>5, <1>6, <1>7

\* What a step of `/new` has to see to for its own thread.
LEMMA MakingKeeps ==
    ASSUME Inv, new # None, new.stage \notin {"parent", "thread"}, NEW t, t = new.thread,
           OnlyNew, opened' = opened, reason' \in [Threads -> Reasons],
           SameBut(t, tree, tree'), SameBut(t, live, live'), SameBut(t, barrier, barrier'),
           NEW r, Records(t, r),
           r = Rec(t) \/ (r \in Record /\ r.state \in {"creating", "active"} /\ enabled),
           t \in live' => r # None /\ r.state = "active" /\ t \in tree' /\ t \notin barrier'
                          /\ enabled,
           t \in barrier' => r # None /\ t \in tree',
           new' = None \/ (/\ new' \in New /\ new'.thread = t /\ t \notin live'
                           /\ new'.stage \in {"tree", "capture"} => r = None
                           /\ new'.stage \in {"create", "retire", "retire-abort"} =>
                                 r # None /\ r.state = "creating"
                           /\ new'.stage = "abort" => r = None \/ r.state = "creating"
                           /\ new'.stage \in {"capture", "create"} => t \in tree'
                           /\ new'.stage \notin {"retire", "retire-abort"} => t \notin barrier')
    PROVE  Inv'
<1>1. /\ t \in Threads /\ TypeOK /\ Own(t) /\ ~AttemptOn(t) /\ t \notin ended
      /\ phase \in {"ready", "stopping"} /\ t \in opened
      /\ \A e \in Enders : ClaimedBy(e, t) => ends[e].stage \notin {"closing", "reclaiming"}
    BY OnNew
<1>2. UNCHANGED <<enabled, phase, todo, attempt, ends, ended, opened>>
    BY DEF OnlyNew, retry
<1>3. NewStep(t) BY <1>1 DEF NewStep, SameBut, TypeOK
<1>4. store'.sessions[t] = r BY DEF Records
<1>5. ~AttemptOn(t)' /\ t \notin ended' BY <1>1, <1>2 DEF AttemptOn
<1>6. Housed(t)' BY <1>1, <1>2, <1>4, <1>5 DEF Housed, Holds, HasRecord, Rec
<1>7. Due(t)' BY <1>1, <1>2 DEF Due
<1>8. Attempted(t)' BY <1>5 DEF Attempted
<1>9. Closed(t)' BY <1>1, <1>2, <1>5 DEF Closed, ClaimedBy
<1>10. Made(t)'
    BY <1>4, <1>5 DEF Made, NewOf, Holds, HasRecord, Rec
<1>11. Shut(t)'
    BY <1>1, <1>2, <1>4 DEF Own, Shut, Holds, HasRecord, Rec
<1>12. Own(t)' BY <1>6, <1>7, <1>8, <1>9, <1>10, <1>11 DEF Own
<1> QED BY <1>1, <1>3, <1>12, NewStepKeeps

\* Nobody has met the thread before: it has no record, no runtime and no claim.
LEMMA NewThreadCreatedKeeps ==
    ASSUME Inv, NEW t \in Threads, NewThreadCreated(t) PROVE Inv'
<1>1. /\ TypeOK /\ Phased /\ Own(t) /\ OnlyNew /\ new # None /\ t \notin opened
      /\ UNCHANGED <<store, reason, tree, live, barrier>> /\ opened' = opened \cup {t}
      /\ \/ new' = None
         \/ new' = [stage |-> "tree", thread |-> t, gen |-> NextGeneration(store)]
    BY DEF Inv, NewThreadCreated, NewAt, NewOver
<1>2. phase \in {"ready", "stopping"} /\ opened \subseteq opened' /\ opened' \subseteq Threads
    BY <1>1 DEF Phased, TypeOK
<1>3. CASE new' = None BY <1>1, <1>2, <1>3, NewUnplacedKeeps
<1>4. CASE new' = [stage |-> "tree", thread |-> t, gen |-> NextGeneration(store)]
    <2>1. NextGeneration(store) \in Nat \ {0} BY <1>1 DEF TypeOK, StoreValue, NextGeneration
    <2>2. new' \in New /\ new'.thread = t /\ new'.stage = "tree" BY <1>4, <2>1 DEF New
    <2>3. /\ ~HasRecord(t) /\ t \notin ended /\ t \notin live /\ t \notin barrier
          /\ ~AttemptOn(t) /\ \A e \in Enders : ~ClaimedBy(e, t)
        BY <1>1 DEF Own, Housed, Attempted, Holds
    <2>4. Records(t, Rec(t)) BY <1>1 DEF TypeOK, Records, Rec
    <2>5. NewStep(t) BY <1>1, <1>2, <2>2, <2>4 DEF NewStep, SameBut, TypeOK
    <2>6. UNCHANGED <<enabled, phase, todo, attempt, ends, ended>> BY <1>1 DEF OnlyNew, retry
    <2>7. /\ ~HasRecord(t)' /\ t \notin ended' /\ t \notin live' /\ t \notin barrier'
          /\ ~AttemptOn(t)' /\ \A e \in Enders : ~ClaimedBy(e, t)'
        BY <1>1, <2>3, <2>6 DEF HasRecord, Rec, AttemptOn, ClaimedBy
    <2>8. Housed(t)' /\ Made(t)' BY <1>1, <2>2, <2>7 DEF Housed, Made
    <2>9. Due(t)' /\ Attempted(t)' /\ Closed(t)' /\ Shut(t)'
        BY <1>2, <2>6, <2>7 DEF Due, Attempted, Closed, Shut, Holds
    <2>10. Own(t)' BY <2>8, <2>9 DEF Own
    <2> QED BY <2>5, <2>10, NewStepKeeps
<1> QED BY <1>1, <1>3, <1>4

LEMMA NewTreeAnsweredKeeps ==
    ASSUME Inv, NEW ok \in BOOLEAN, NewTreeAnswered(ok) PROVE Inv'
<1>0. PICK t : t = new.thread OBVIOUS
<1>1. /\ OnlyNew /\ new # None /\ new.stage = "tree" /\ AddWorktree(t, ok)
      /\ UNCHANGED <<store, reason, opened, live, barrier>>
      /\ \/ new' = None
         \/ ok /\ NewGoto("abort")
         \/ ok /\ NewGoto("capture")
    BY <1>0 DEF NewTreeAnswered, NewAt, NewOver
<1>2. t \in Threads /\ TypeOK /\ Own(t) /\ NewOf(t) BY <1>0, <1>1, OnNew
<1>3. t \notin live /\ t \notin barrier /\ Rec(t) = None
    BY <1>1, <1>2 DEF Own, Made, HasRecord
<1>4. /\ Records(t, Rec(t)) /\ reason' \in [Threads -> Reasons]
      /\ SameBut(t, tree, tree') /\ (ok => t \in tree')
    BY <1>1, <1>2 DEF TypeOK, Records, Rec, AddWorktree, SameBut
<1>5. new' = None \/ (/\ new' \in New /\ new'.thread = t
                      /\ new'.stage \in {"abort", "capture"} /\ ok)
    BY <1>0, <1>1, <1>2, NewGotoIs DEF NewStages
<1> QED BY <1>0, <1>1, <1>3, <1>4, <1>5, MakingKeeps DEF SameBut

\* The record is reserved when the channel is still enabled.
LEMMA NewCapturedKeeps == ASSUME Inv, NEW ok \in BOOLEAN, NewCaptured(ok) PROVE Inv'
<1>0. PICK t : t = new.thread OBVIOUS
<1>1. /\ OnlyNew /\ new # None /\ new.stage = "capture"
      /\ UNCHANGED <<tree, opened, live, barrier>>
      /\ \/ /\ enabled /\ NewGoto("create")
            /\ Save(Reserve(store, t, FreshRecord(t, new.gen)), t, "none")
         \/ Unsaved /\ NewGoto("abort")
    BY <1>0 DEF NewCaptured, NewAt
<1>2. t \in Threads /\ TypeOK /\ Own(t) /\ NewOf(t) /\ new.gen \in Nat \ {0}
    BY <1>0, <1>1, OnNew
<1>3. t \notin live /\ t \notin barrier /\ t \in tree /\ Rec(t) = None
    BY <1>1, <1>2 DEF Own, Made, HasRecord
<1>4. SameBut(t, tree, tree') /\ SameBut(t, live, live') /\ SameBut(t, barrier, barrier')
    BY <1>1 DEF SameBut
<1>5. CASE /\ enabled /\ NewGoto("create")
           /\ Save(Reserve(store, t, FreshRecord(t, new.gen)), t, "none")
    <2> DEFINE r == FreshRecord(t, new.gen)
    <2>1. store' = Reserve(store, t, r) /\ reason' \in [Threads -> Reasons]
        BY <1>2, <1>5 DEF Save, TypeOK, Reasons
    <2>2. Records(t, r) /\ r \in Record /\ r.state = "creating"
        BY <1>2, <2>1, ReserveIs DEF TypeOK
    <2> HIDE DEF r
    <2>3. r # None BY <2>2, ReconciliationAssumption
    <2>4. new' \in New /\ new'.thread = t /\ new'.stage = "create"
        BY <1>0, <1>1, <1>2, <1>5, NewGotoIs DEF NewStages
    <2> QED BY <1>0, <1>1, <1>3, <1>4, <1>5, <2>1, <2>2, <2>3, <2>4, MakingKeeps
<1>6. CASE Unsaved /\ NewGoto("abort")
    <2>1. Records(t, Rec(t)) /\ reason' \in [Threads -> Reasons]
        BY <1>2, <1>6, UnsavedIs DEF TypeOK
    <2>2. new' \in New /\ new'.thread = t /\ new'.stage = "abort"
        BY <1>0, <1>1, <1>2, <1>6, NewGotoIs DEF NewStages
    <2> QED BY <1>0, <1>1, <1>3, <1>4, <2>1, <2>2, MakingKeeps
<1> QED BY <1>1, <1>5, <1>6

LEMMA NewCreatedKeeps == ASSUME Inv, NewCreated PROVE Inv'
<1>0. PICK t : t = new.thread OBVIOUS
<1>1. /\ OnlyNew /\ new # None /\ new.stage = "create" /\ UNCHANGED <<tree, opened>>
      /\ \/ /\ barrier' = barrier \cup {t} /\ Unsaved /\ UNCHANGED live
            /\ NewGoto("retire") \/ NewGoto("retire-abort")
         \/ /\ Save(Commit(store, t), t, "none") /\ live' = live \cup {t} /\ new' = None
            /\ UNCHANGED barrier
    BY <1>0 DEF NewCreated, NewAt, NewOver
<1>2. t \in Threads /\ TypeOK /\ Own(t) /\ NewOf(t) BY <1>0, <1>1, OnNew
<1>3. /\ t \notin live /\ t \notin barrier /\ t \in tree
      /\ HasRecord(t) /\ Rec(t) # None /\ Rec(t).state = "creating" /\ enabled
    BY <1>1, <1>2 DEF Own, Made, Shut, HasRecord, Holds, TypeOK
<1>4. SameBut(t, tree, tree') BY <1>1 DEF SameBut
<1>5. CASE /\ barrier' = barrier \cup {t} /\ Unsaved /\ UNCHANGED live
           /\ NewGoto("retire") \/ NewGoto("retire-abort")
    <2>1. Records(t, Rec(t)) /\ reason' \in [Threads -> Reasons]
        BY <1>2, <1>5, UnsavedIs DEF TypeOK
    <2>2. new' \in New /\ new'.thread = t /\ new'.stage \in {"retire", "retire-abort"}
        BY <1>0, <1>1, <1>2, <1>5, NewGotoIs DEF NewStages
    <2>3. SameBut(t, live, live') /\ SameBut(t, barrier, barrier') BY <1>5 DEF SameBut
    <2> QED BY <1>0, <1>1, <1>3, <1>4, <1>5, <2>1, <2>2, <2>3, MakingKeeps
<1>6. CASE /\ Save(Commit(store, t), t, "none") /\ live' = live \cup {t} /\ new' = None
           /\ UNCHANGED barrier
    <2> DEFINE r == [Rec(t) EXCEPT !.state = "active"]
    <2>1. store' = SetState(store, t, "active") /\ reason' \in [Threads -> Reasons]
        BY <1>2, <1>6 DEF Save, Commit, TypeOK, Reasons
    <2>2. Records(t, r) /\ r \in Record /\ r.state = "active"
        BY <1>2, <1>3, <2>1, SetStateIs DEF TypeOK, States
    <2> HIDE DEF r
    <2>3. r # None BY <2>2, ReconciliationAssumption
    <2>4. SameBut(t, live, live') /\ SameBut(t, barrier, barrier') BY <1>6 DEF SameBut
    <2> QED BY <1>0, <1>1, <1>3, <1>4, <1>6, <2>1, <2>2, <2>3, <2>4, MakingKeeps
<1> QED BY <1>1, <1>5, <1>6

LEMMA NewCreateFailsKeeps == ASSUME Inv, NewCreateFails PROVE Inv'
<1>0. PICK t : t = new.thread OBVIOUS
<1>1. /\ OnlyNew /\ new # None /\ new.stage = "create" /\ new' = None
      /\ UNCHANGED <<store, reason, tree, opened, live, barrier>>
    BY DEF NewCreateFails, NewAt, NewOver
<1>2. t \in Threads /\ TypeOK /\ Own(t) /\ NewOf(t) BY <1>0, <1>1, OnNew
<1>3. t \notin live /\ t \notin barrier BY <1>1, <1>2 DEF Own, Made
<1>4. /\ Records(t, Rec(t)) /\ reason' \in [Threads -> Reasons] /\ SameBut(t, tree, tree')
      /\ SameBut(t, live, live') /\ SameBut(t, barrier, barrier')
    BY <1>1, <1>2 DEF TypeOK, Records, Rec, SameBut
<1> QED BY <1>0, <1>1, <1>3, <1>4, MakingKeeps

LEMMA NewRetiredKeeps == ASSUME Inv, NewRetired PROVE Inv'
<1>0. PICK t : t = new.thread OBVIOUS
<1>1. /\ OnlyNew /\ new # None /\ new.stage \in {"retire", "retire-abort"}
      /\ UNCHANGED <<store, reason, tree, opened, live>>
      /\ \E ok \in BOOLEAN : /\ barrier' = Without(barrier, t, ok)
                             /\ new' = None \/ (ok /\ NewGoto("abort"))
    BY <1>0 DEF NewRetired, NewOver, Proofs
<1>2. t \in Threads /\ TypeOK /\ Own(t) /\ NewOf(t) BY <1>0, <1>1, OnNew
<1>3. /\ t \notin live /\ Rec(t) # None /\ Rec(t).state = "creating" /\ (t \in barrier => t \in tree)
    BY <1>1, <1>2 DEF Own, Made, Housed, HasRecord, Holds
<1>4. PICK ok \in BOOLEAN : /\ barrier' = Without(barrier, t, ok)
                            /\ new' = None \/ (ok /\ NewGoto("abort"))
    BY <1>1
<1>5. /\ Records(t, Rec(t)) /\ reason' \in [Threads -> Reasons] /\ SameBut(t, tree, tree')
      /\ SameBut(t, live, live') /\ SameBut(t, barrier, barrier')
      /\ (t \in barrier' => t \in barrier) /\ (ok => t \notin barrier')
    BY <1>1, <1>2, <1>4 DEF TypeOK, Records, Rec, SameBut, Without
<1>6. new' = None \/ (/\ new' \in New /\ new'.thread = t /\ new'.stage = "abort" /\ ok)
    BY <1>0, <1>1, <1>2, <1>4, NewGotoIs DEF NewStages
<1> QED BY <1>0, <1>1, <1>3, <1>5, <1>6, MakingKeeps

LEMMA NewAbortedKeeps == ASSUME Inv, NEW ok \in BOOLEAN, NewAborted(ok) PROVE Inv'
<1>0. PICK t : t = new.thread OBVIOUS
<1>1. /\ OnlyNew /\ new # None /\ new.stage = "abort" /\ new' = None
      /\ tree' = Without(tree, t, ok) /\ UNCHANGED <<store, reason, opened, live, barrier>>
    BY <1>0 DEF NewAborted, NewAt, NewOver
<1>2. t \in Threads /\ TypeOK /\ Own(t) /\ NewOf(t) BY <1>0, <1>1, OnNew
<1>3. t \notin live /\ t \notin barrier BY <1>1, <1>2 DEF Own, Made
<1>4. /\ Records(t, Rec(t)) /\ reason' \in [Threads -> Reasons] /\ SameBut(t, tree, tree')
      /\ SameBut(t, live, live') /\ SameBut(t, barrier, barrier')
    BY <1>1, <1>2 DEF TypeOK, Records, Rec, SameBut, Without
<1> QED BY <1>0, <1>1, <1>3, <1>4, MakingKeeps

-----------------------------------------------------------------------------
(* The process and the channel.                                             *)

\* Whoever is at work on a thread is found there by every record's startup pass.
LEMMA BootKeeps == ASSUME Inv, Boot PROVE Inv'
<1>1. /\ TypeOK /\ Phased /\ phase = "down" /\ phase' = "reconciling"
      /\ todo' = {t \in Threads : HasRecord(t)}
      /\ UNCHANGED <<store, reason, enabled, tree, opened, live, barrier, wake, attempt, ends,
                     new, ended, crashes, typed>>
    BY DEF Inv, Boot, durable, bounds
<1>2. live = {} /\ barrier = {} /\ attempt = None /\ new = None /\ \A e \in Enders : ends[e] = None
    BY <1>1 DEF Phased
<1>3. TypeOK' BY <1>1 DEF TypeOK
<1>4. Phased' BY <1>1, <1>2 DEF Phased
<1>5. ASSUME NEW t \in Threads PROVE Own(t)'
    <2>1. Own(t) BY DEF Inv
    <2>2. Due(t)' BY <1>1, <1>2 DEF Due, AttemptOn, HasRecord, Rec
    <2>3. Housed(t)' /\ Shut(t)'
        BY <1>1, <2>1 DEF Own, Housed, Shut, ClaimedBy, NewOf, Holds, HasRecord, Rec
    <2>4. Attempted(t)' /\ Closed(t)' /\ Made(t)'
        BY <1>1, <1>2 DEF Attempted, Closed, Made, AttemptOn, ClaimedBy, NewOf
    <2> QED BY <2>2, <2>3, <2>4 DEF Own
<1> QED BY <1>3, <1>4, <1>5 DEF Inv

\* A step of the process that goes on leaves every thread as it is.
LEMMA GoesOnKeeps ==
    ASSUME Inv, phase # "down",
           UNCHANGED <<store, reason, enabled, tree, opened, live, barrier, attempt, ends,
                       new, ended, crashes, typed>>,
           phase' \in {"ready", "stopping"} \cup {phase}, phase' # "reconciling",
           todo' \subseteq Threads, wake' \in {"off", "set", "running"}
    PROVE  Inv'
<1>1. TypeOK /\ Phased BY DEF Inv
<1>2. TypeOK' BY <1>1 DEF TypeOK
<1>3. Phased' BY <1>1 DEF Phased
<1>4. ASSUME NEW t \in Threads PROVE Own(t)'
    <2>1. Own(t) BY DEF Inv
    <2>2. Due(t)' BY DEF Due
    <2>3. Housed(t)' /\ Shut(t)'
        BY <2>1 DEF Own, Housed, Shut, ClaimedBy, NewOf, Holds, HasRecord, Rec
    <2>4. Attempted(t)' BY <2>1 DEF Own, Attempted, AttemptOn, Holds, HasRecord, Rec
    <2>5. Closed(t)' BY <2>1 DEF Own, Closed, AttemptOn, ClaimedBy, NewOf
    <2>6. Made(t)' BY <2>1 DEF Own, Made, NewOf, Holds, HasRecord, Rec
    <2> QED BY <2>2, <2>3, <2>4, <2>5, <2>6 DEF Own
<1> QED BY <1>2, <1>3, <1>4 DEF Inv

LEMMA OpenGateKeeps == ASSUME Inv, OpenGate PROVE Inv'
<1>1. /\ TypeOK /\ phase = "reconciling" /\ phase' = "ready" /\ wake' = "set" /\ todo' = todo
      /\ UNCHANGED <<store, reason, enabled, tree, opened, live, barrier, attempt, ends,
                     new, ended, crashes, typed>>
    BY DEF Inv, OpenGate, durable, bounds
<1>2. todo' \subseteq Threads BY <1>1 DEF TypeOK
<1> QED BY <1>1, <1>2, GoesOnKeeps

LEMMA StopKeeps == ASSUME Inv, Stop PROVE Inv'
<1>1. /\ TypeOK /\ phase \in {"reconciling", "ready"} /\ phase' = "stopping" /\ todo' = todo
      /\ wake' \in {"off", wake}
      /\ UNCHANGED <<store, reason, enabled, tree, opened, live, barrier, attempt, ends,
                     new, ended, crashes, typed>>
    BY DEF Inv, Stop, durable, bounds
<1>2. todo' \subseteq Threads /\ wake' \in {"off", "set", "running"} BY <1>1 DEF TypeOK
<1> QED BY <1>1, <1>2, GoesOnKeeps

LEMMA TickFiresKeeps == ASSUME Inv, TickFires PROVE Inv'
<1>1. /\ phase = "ready" /\ phase' = phase /\ wake' = "running"
      /\ todo' = {t \in Threads : IsAccessRetryCandidate(t)}
      /\ UNCHANGED <<store, reason, enabled, tree, opened, live, barrier, attempt, ends,
                     new, ended, crashes, typed>>
    BY DEF TickFires, durable, bounds
<1>2. todo' \subseteq Threads BY <1>1
<1> QED BY <1>1, <1>2, GoesOnKeeps

\* In the startup pass no tick runs.
LEMMA TickOverKeeps == ASSUME Inv, TickOver PROVE Inv'
<1>1. /\ TypeOK /\ Phased /\ phase' = phase /\ wake' \in {"off", "set"} /\ todo' = {}
      /\ UNCHANGED <<store, reason, enabled, tree, opened, live, barrier, attempt, ends,
                     new, ended, crashes, typed>>
    BY DEF Inv, TickOver, durable, bounds
<1>2. TypeOK' BY <1>1 DEF TypeOK
<1>3. Phased' BY <1>1 DEF Phased
<1>4. ASSUME NEW t \in Threads PROVE Own(t)'
    <2>1. Own(t) BY DEF Inv
    <2>2. Due(t)' BY <1>1 DEF Due
    <2>3. Housed(t)' /\ Shut(t)'
        BY <1>1, <2>1 DEF Own, Housed, Shut, ClaimedBy, NewOf, Holds, HasRecord, Rec
    <2>4. Attempted(t)' BY <1>1, <2>1 DEF Own, Attempted, AttemptOn, Holds, HasRecord, Rec
    <2>5. Closed(t)' BY <1>1, <2>1 DEF Own, Closed, AttemptOn, ClaimedBy, NewOf
    <2>6. Made(t)' BY <1>1, <2>1 DEF Own, Made, NewOf, Holds, HasRecord, Rec
    <2> QED BY <2>2, <2>3, <2>4, <2>5, <2>6 DEF Own
<1> QED BY <1>2, <1>3, <1>4 DEF Inv

\* The memory goes with the process; what is durable was sound without it.
LEMMA GoneKeeps ==
    ASSUME Inv, Gone, UNCHANGED <<store, reason, enabled, tree, opened, ended, typed>>,
           crashes' \in 0 .. MaxCrashes
    PROVE  Inv'
<1>1. /\ TypeOK /\ phase' = "down" /\ live' = {} /\ barrier' = {} /\ todo' = {} /\ wake' = "off"
      /\ attempt' = None /\ new' = None /\ ends' = [e \in Enders |-> None]
    BY DEF Inv, Gone
<1>2. TypeOK' BY <1>1 DEF TypeOK
<1>3. Phased' BY <1>1 DEF Phased
<1>4. ASSUME NEW t \in Threads PROVE Own(t)'
    <2>1. Own(t) /\ ~AttemptOn(t)' /\ ~NewOf(t)' /\ \A e \in Enders : ~ClaimedBy(e, t)'
        BY <1>1 DEF Inv, AttemptOn, NewOf, ClaimedBy
    <2>2. Housed(t)' /\ Shut(t)'
        BY <1>1, <2>1 DEF Own, Housed, Shut, Holds, HasRecord, Rec
    <2>3. Due(t)' /\ Attempted(t)' /\ Closed(t)' /\ Made(t)'
        BY <1>1, <2>1 DEF Due, Attempted, Closed, Made
    <2> QED BY <2>2, <2>3 DEF Own
<1> QED BY <1>2, <1>3, <1>4 DEF Inv

LEMMA ExitKeeps == ASSUME Inv, Exit PROVE Inv'
<1>1. Gone /\ UNCHANGED <<store, reason, enabled, tree, opened, ended, typed, crashes>>
    BY DEF Exit, durable, bounds
<1>2. crashes' \in 0 .. MaxCrashes BY <1>1 DEF Inv, TypeOK
<1> QED BY <1>1, <1>2, GoneKeeps

LEMMA CrashKeeps == ASSUME Inv, Crash PROVE Inv'
<1>1. /\ Gone /\ UNCHANGED <<store, reason, enabled, tree, opened, ended, typed>>
      /\ crashes < MaxCrashes /\ crashes' = crashes + 1
    BY DEF Crash, durable
<1>2. crashes' \in 0 .. MaxCrashes BY <1>1, ReconciliationAssumption DEF Inv, TypeOK
<1> QED BY <1>1, <1>2, GoneKeeps

\* A channel is disabled when nobody holds it, and enabling it gives nobody anything.
LEMMA ChannelKeeps == ASSUME Inv, ChannelDisabled \/ ChannelEnabled PROVE Inv'
<1>1. /\ TypeOK /\ Phased /\ enabled' \in BOOLEAN
      /\ UNCHANGED <<store, reason, tree, opened, phase, live, barrier, todo, wake, attempt,
                     ends, new, ended, crashes, typed>>
      /\ enabled' \/ ChannelHolders = {}
    BY DEF Inv, ChannelDisabled, ChannelEnabled, Enabled, retry, bounds
<1>2. TypeOK' BY <1>1 DEF TypeOK
<1>3. Phased' BY <1>1 DEF Phased
<1>4. ASSUME NEW t \in Threads PROVE Own(t)'
    <2>1. Own(t) BY DEF Inv
    <2>2. Due(t)' BY <1>1, <2>1 DEF Own, Due, AttemptOn, HasRecord, Rec
    <2>3. Housed(t)' BY <1>1, <2>1 DEF Own, Housed, ClaimedBy, NewOf, Holds, HasRecord, Rec
    <2>4. Attempted(t)' BY <1>1, <2>1 DEF Own, Attempted, AttemptOn, Holds, HasRecord, Rec
    <2>5. Closed(t)' BY <1>1, <2>1 DEF Own, Closed, AttemptOn, ClaimedBy, NewOf
    <2>6. Made(t)' BY <1>1, <2>1 DEF Own, Made, NewOf, Holds, HasRecord, Rec
    <2>7. Shut(t)' BY <1>1 DEF Shut, ChannelHolders, Holds, HasRecord, Rec
    <2> QED BY <2>2, <2>3, <2>4, <2>5, <2>6, <2>7 DEF Own
<1> QED BY <1>2, <1>3, <1>4 DEF Inv

-----------------------------------------------------------------------------
(* The theorems.                                                            *)

LEMMA InvInit == ASSUME Init PROVE Inv
<1>1. /\ store = Existed(Existing) /\ Existing \subseteq Threads
      /\ tree \in SUBSET Existing /\ opened = Existing
      /\ reason = [t \in Threads |-> "none"] /\ enabled = TRUE /\ phase = "down"
      /\ live = {} /\ barrier = {} /\ todo = {} /\ wake = "off" /\ attempt = None
      /\ ends = [e \in Enders |-> None] /\ new = None /\ ended = {} /\ crashes = 0 /\ typed = 0
    BY ReconciliationAssumption DEF Init
<1>2. \A t \in Threads : [FreshRecord(t, 1) EXCEPT !.state = "active"] \in Record
    BY FreshRecordIs
<1>3. store \in StoreValue /\ \A t \in Threads : HasRecord(t) => t \in opened
    <2>1. /\ store.sessions = [t \in Threads |->
                IF t \in Existing THEN [FreshRecord(t, 1) EXCEPT !.state = "active"] ELSE None]
          /\ store.stale = {} /\ store.high = 1
          /\ store = [sessions |-> store.sessions, stale |-> store.stale, high |-> store.high]
        BY <1>1 DEF Existed
    <2>2. store.sessions \in [Threads -> Record \cup {None}] BY <1>2, <2>1
    <2>3. store \in StoreValue BY <2>1, <2>2 DEF StoreValue
    <2> QED BY <1>1, <2>1, <2>3 DEF HasRecord, Rec
<1>4. TypeOK BY <1>1, <1>3, ReconciliationAssumption DEF TypeOK, Reasons
<1>5. Phased BY <1>1 DEF Phased
<1>6. ASSUME NEW t \in Threads PROVE Own(t)
    <2>1. ~AttemptOn(t) /\ ~NewOf(t) /\ \A e \in Enders : ~ClaimedBy(e, t)
        BY <1>1 DEF AttemptOn, NewOf, ClaimedBy
    <2>2. Housed(t) BY <1>1, <1>3, <2>1 DEF Housed
    <2>3. Due(t) /\ Attempted(t) /\ Closed(t) /\ Made(t) /\ Shut(t)
        BY <1>1, <2>1 DEF Due, Attempted, Closed, Made, Shut
    <2> QED BY <2>2, <2>3 DEF Own
<1> QED BY <1>4, <1>5, <1>6 DEF Inv

LEMMA InvStep == ASSUME Inv, [Next]_vars PROVE Inv'
<1>1. CASE UNCHANGED vars
    <2>1. UNCHANGED <<store, reason, enabled, tree, opened, phase, live, barrier, todo, wake,
                      attempt, ends, new, ended, crashes, typed>>
        BY <1>1 DEF vars
    <2>2. TypeOK' BY <2>1 DEF Inv, TypeOK
    <2>3. Phased' BY <2>1 DEF Inv, Phased
    <2>4. ASSUME NEW t \in Threads PROVE Own(t)'
        BY <2>1 DEF Inv, Own, Housed, Due, Attempted, Closed, Made, Shut, AttemptOn, NewOf,
                    ClaimedBy, Holds, HasRecord, Rec
    <2> QED BY <2>2, <2>3, <2>4 DEF Inv
<1>2. CASE Boot \/ Stop \/ Exit \/ Crash
    BY <1>2, BootKeeps, StopKeeps, ExitKeeps, CrashKeeps
<1>3. CASE Pass
    BY <1>3, StartupRecordKeeps, TickNextKeeps, OpenGateKeeps, TickFiresKeeps, TickOverKeeps
    DEF Pass
<1>4. CASE Answers
    <2>1. CASE BarrierAnswered \/ Created BY <2>1, BarrierAnsweredKeeps, CreatedKeeps
    <2>2. CASE \E status \in Statuses : Classified(status) BY <2>2, ClassifiedKeeps
    <2>3. CASE \E ok \in BOOLEAN : Rebuilt(ok) \/ Undone(ok) \/ Discarded(ok)
        BY <2>3, RebuiltKeeps, UndoneKeeps, DiscardedKeeps
    <2>4. CASE \E answer \in RootAnswers : Captured(answer) BY <2>4, CapturedKeeps
    <2>5. CASE \E why \in {"session-lost", "transient"} : CreateFails(why)
        BY <2>5, CreateFailsKeeps
    <2> QED BY <1>4, <2>1, <2>2, <2>3, <2>4, <2>5 DEF Answers
<1>5. CASE \E t \in Threads : LateConfirmation(t) BY <1>5, LateConfirmationKeeps
<1>6. CASE \E e \in Enders : Ending(e)
    BY <1>6, EndClosedKeeps, EndJoinedKeeps, EndBarrierAnsweredKeeps, EndReclaimedKeeps,
       EndKeptKeeps
    DEF Ending
<1>7. CASE \E e \in Enders : \E t \in Threads : EndTyped(e, t) BY <1>7, EndTypedKeeps
<1>8. CASE NewTyped BY <1>8, NewTypedKeeps
<1>9. CASE Making
    BY <1>9, NewParentAnsweredKeeps, NewTreeAnsweredKeeps, NewCapturedKeeps, NewAbortedKeeps,
       NewThreadCreatedKeeps, NewThreadFailsKeeps, NewCreatedKeeps, NewCreateFailsKeeps,
       NewRetiredKeeps
    DEF Making
<1>10. CASE ChannelDisabled \/ ChannelEnabled BY <1>10, ChannelKeeps
<1> QED BY <1>1, <1>2, <1>3, <1>4, <1>5, <1>6, <1>7, <1>8, <1>9, <1>10 DEF Next

\* Every field of the model has its type, whatever the story.
THEOREM TypeCorrect == Spec => []TypeOK
<1>1. Init => Inv BY InvInit
<1>2. Inv /\ [Next]_vars => Inv' BY InvStep
<1>3. Inv => TypeOK BY DEF Inv
<1> QED BY <1>1, <1>2, <1>3, PTL DEF Spec

\* Who has a runtime on a thread keeps the three others from having one: a live session
\* is neither owed nor being made, and an attempt wants a committed record where a
\* `/new` has none yet.
LEMMA InvOneRuntime == ASSUME Inv PROVE OneRuntime
<1> SUFFICES ASSUME NEW t \in Threads
             PROVE  Runtimes(t) <= 1 /\ (Runtimes(t) > 0 => t \in tree)
    BY DEF OneRuntime
<1> DEFINE a == At("create") /\ attempt.thread = t
           n == NewAt("create") /\ new.thread = t
<1>1. Own(t) BY DEF Inv
<1>2. t \in live => t \in tree /\ t \notin barrier BY <1>1 DEF Own, Housed
<1>3. t \in barrier => t \in tree BY <1>1 DEF Own, Housed
<1>4. a => t \in tree /\ t \notin live /\ t \notin barrier /\ Holds(t, "active")
    BY <1>1 DEF Own, Attempted, AttemptOn, At
<1>5. n => t \in tree /\ t \notin live /\ t \notin barrier /\ Holds(t, "creating")
    BY <1>1 DEF Own, Made, NewOf, NewAt
<1>6. ~(a /\ n) BY <1>4, <1>5 DEF Holds
<1>7. Runtimes(t) = Count(t \in live) + Count(t \in barrier) + Count(a) + Count(n)
    BY DEF Runtimes
<1> HIDE DEF a, n
<1> QED BY <1>2, <1>3, <1>4, <1>5, <1>6, <1>7 DEF Count

\* A conversation and its worktree never have two runtimes, and no runtime works in a
\* checkout somebody has removed: the attempts of reconciliation-engine.ts, a `/new`, an
\* `/end` and a discard nobody has confirmed may overlap as they like.
THEOREM RuntimesAreOne == Spec => []OneRuntime
<1>1. Init => Inv BY InvInit
<1>2. Inv /\ [Next]_vars => Inv' BY InvStep
<1>3. Inv => OneRuntime BY InvOneRuntime
<1> QED BY <1>1, <1>2, <1>3, PTL DEF Spec

\* Who was ended has no record, and so neither a session, nor an obligation, nor an
\* attempt, and `/new` is never at it.
LEMMA InvEndStands == ASSUME Inv PROVE EndStands
<1> SUFFICES ASSUME NEW t \in ended
             PROVE  ~HasRecord(t) /\ Runtimes(t) = 0 /\ t \notin tree
    BY DEF EndStands
<1>1. t \in Threads BY DEF Inv, TypeOK
<1>2. Own(t) BY <1>1 DEF Inv
<1>3. ~HasRecord(t) /\ t \notin tree /\ t \notin live /\ t \notin barrier
    BY <1>2 DEF Own, Housed, Holds
<1>4. ~(At("create") /\ attempt.thread = t) BY <1>2, <1>3 DEF Own, Attempted, AttemptOn, Holds, At
<1>5. ~(NewAt("create") /\ new.thread = t) BY <1>2 DEF Own, Made, NewOf, NewAt
<1> QED BY <1>3, <1>4, <1>5 DEF Runtimes, Count

\* What `/end` has reported as gone stays gone, through every retry, restart and `/new`
\* that was under way: no record, no runtime, no rebuilt worktree.
THEOREM EndsStand == Spec => []EndStands
<1>1. Init => Inv BY InvInit
<1>2. Inv /\ [Next]_vars => Inv' BY InvStep
<1>3. Inv => EndStands BY InvEndStands
<1> QED BY <1>1, <1>2, <1>3, PTL DEF Spec

\* The channel registry: a disabled channel has no session and never gains one.
THEOREM DisabledStaysEmpty == Spec => []DisabledChannelEmpty
<1>1. Init => Inv BY InvInit
<1>2. Inv /\ [Next]_vars => Inv' BY InvStep
<1>3. Inv => DisabledChannelEmpty
    <2> SUFFICES ASSUME Inv, ~enabled PROVE ChannelHolders = {} BY DEF DisabledChannelEmpty
    <2>1. live \subseteq Threads BY DEF Inv, TypeOK
    <2>2. \A t \in Threads : t \notin live /\ ~Holds(t, "active") /\ ~Holds(t, "creating")
        BY DEF Inv, Own, Shut
    <2> QED BY <2>1, <2>2 DEF ChannelHolders
<1> QED BY <1>1, <1>2, <1>3, PTL DEF Spec
=============================================================================
