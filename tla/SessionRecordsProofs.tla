-------------------------- MODULE SessionRecordsProofs --------------------------
(***************************************************************************)
(* What the session store promises for any threads, sessions and limit:    *)
(* no thread is given a generation again, none sends more than its budget, *)
(* and no rollback puts a predecessor back over a replacement that was     *)
(* committed.  The first part says what every operation of the    *)
(* store does to a sound store; the second follows the plans of `/new` and *)
(* of a rebind from their reservation to the write that ends them.         *)
(***************************************************************************)
EXTENDS SessionRecords, TLAPS

-----------------------------------------------------------------------------
(* The invariant.                                                           *)

\* The high-water mark covers every generation the store names.
Marked(s) ==
    /\ \A t \in Threads : s.sessions[t] # None => s.sessions[t].gen <= s.high
    /\ \A row \in s.stale : row.gen <= s.high

\* An incarnation has one terminal row.
Keyed(s) == \A x, y \in s.stale : x.thread = y.thread /\ IdOf(x) = IdOf(y) => x = y

Sound(s) == s \in StoreValue /\ Marked(s) /\ Keyed(s)

\* What is planned for a thread is either its reservation, which nothing but the
\* plan's own end touches, or a `/new` of which nothing durable exists yet.
Planned(t) ==
    plan[t] # None =>
        /\ phase = "up"
        /\ IF plan[t].reserved
           THEN IsCurrent(store, t, plan[t].id) /\ store.sessions[t].state = "creating"
           ELSE plan[t].prev = None /\ store.sessions[t] = None /\ delivered[t] = 0

\* Nothing exists of a thread before `/new` has created it.
Unopened(t) ==
    t \notin opened => store.sessions[t] = None /\ delivered[t] = 0 /\ plan[t] = None

Covered(t) == store.sessions[t] # None => delivered[t] <= store.sessions[t].bytes

Inv ==
    /\ TypeOK /\ Sound(store) /\ file = store
    /\ \A t \in Threads : Planned(t) /\ Unopened(t) /\ Covered(t)

-----------------------------------------------------------------------------
(* The operations of the store.                                             *)

LEMMA StoreFields ==
    ASSUME NEW s \in StoreValue, NEW m \in [Threads -> Record \cup {None}],
           NEW rows \in SUBSET StaleRow, NEW h \in Nat
    PROVE  /\ [s EXCEPT !.sessions = m, !.high = h] \in StoreValue
           /\ [s EXCEPT !.stale = rows, !.high = h] \in StoreValue
           /\ [s EXCEPT !.sessions = m] \in StoreValue
           /\ [s EXCEPT !.stale = rows] \in StoreValue
BY DEF StoreValue

LEMMA LargerIs ==
    ASSUME NEW m \in Nat, NEW n \in Nat
    PROVE  Larger(m, n) \in Nat /\ Larger(m, n) >= m /\ Larger(m, n) >= n
BY DEF Larger

\* setActive, reserve and restore raise the mark to the record they write.
LEMMA WithPrimaryIs ==
    ASSUME NEW s, Sound(s), NEW t \in Threads, NEW r \in Record
    PROVE  LET n == WithPrimary(s, t, r) IN
           Sound(n) /\ n.sessions = [s.sessions EXCEPT ![t] = r] /\ n.stale = s.stale
<1> DEFINE n == WithPrimary(s, t, r)
<1>1. s \in StoreValue /\ s.high \in Nat /\ r.gen \in Nat /\ s.sessions \in [Threads -> Record \cup {None}]
    BY DEF Sound, StoreValue, Record
<1>2. Larger(s.high, r.gen) \in Nat /\ Larger(s.high, r.gen) >= s.high /\ Larger(s.high, r.gen) >= r.gen
    BY <1>1, LargerIs
<1>3. /\ n.sessions = [s.sessions EXCEPT ![t] = r] /\ n.stale = s.stale
      /\ n.high = Larger(s.high, r.gen) /\ n \in StoreValue
    BY <1>1, <1>2 DEF WithPrimary, StoreValue
<1> HIDE DEF n
<1>4. Marked(n)
    <2>1. ASSUME NEW u \in Threads, n.sessions[u] # None PROVE n.sessions[u].gen <= n.high
        <3>1. CASE u = t BY <1>1, <1>2, <1>3, <3>1
        <3>2. CASE u # t
            <4>1. n.sessions[u] = s.sessions[u] BY <1>1, <1>3, <3>2
            <4>2. s.sessions[u].gen <= s.high /\ s.sessions[u].gen \in Nat
                BY <1>1, <2>1, <4>1 DEF Sound, Marked, Record
            <4> QED BY <1>1, <1>2, <1>3, <4>1, <4>2
        <3> QED BY <3>1, <3>2
    <2>2. ASSUME NEW row \in n.stale PROVE row.gen <= n.high
        <3>1. row.gen \in Nat /\ row.gen <= s.high BY <1>1, <1>3, <2>2 DEF Sound, Marked, StoreValue, StaleRow
        <3> QED BY <1>1, <1>2, <1>3, <3>1
    <2> QED BY <2>1, <2>2 DEF Marked
<1>5. Keyed(n) BY <1>3 DEF Sound, Keyed
<1> QED BY <1>3, <1>4, <1>5 DEF Sound, n

\* A write that names no new generation and no new row keeps a store sound.
LEMMA SoundWithin ==
    ASSUME NEW s, Sound(s), NEW n \in StoreValue, n.high = s.high, n.stale \subseteq s.stale,
           \A u \in Threads : n.sessions[u] # None =>
               s.sessions[u] # None /\ n.sessions[u].gen = s.sessions[u].gen
    PROVE  Sound(n)
BY DEF Sound, Marked, Keyed

LEMMA SetStateIs ==
    ASSUME NEW s, Sound(s), NEW t \in Threads, s.sessions[t] # None, NEW state \in States
    PROVE  LET n == SetState(s, t, state) IN
           /\ Sound(n)
           /\ n.sessions = [s.sessions EXCEPT ![t] = [s.sessions[t] EXCEPT !.state = state]]
           /\ n.sessions[t] \in Record /\ IdOf(n.sessions[t]) = IdOf(s.sessions[t])
           /\ n.sessions[t].state = state /\ n.sessions[t].bytes = s.sessions[t].bytes
<1> DEFINE n == SetState(s, t, state)
<1>1. s \in StoreValue /\ s.sessions \in [Threads -> Record \cup {None}] /\ s.sessions[t] \in Record
    BY DEF Sound, StoreValue
<1>2. n = [s EXCEPT !.sessions = [s.sessions EXCEPT ![t] = [s.sessions[t] EXCEPT !.state = state]]]
    BY <1>1 DEF SetState, StoreValue
<1>3. [s.sessions[t] EXCEPT !.state = state] \in Record BY <1>1 DEF Record
<1>4. /\ n.sessions = [s.sessions EXCEPT ![t] = [s.sessions[t] EXCEPT !.state = state]]
      /\ n.stale = s.stale /\ n.high = s.high /\ n \in StoreValue
    BY <1>1, <1>2, <1>3 DEF StoreValue
<1>5. n.sessions[t] = [s.sessions[t] EXCEPT !.state = state] BY <1>1, <1>4
<1>6. n.sessions[t].gen = s.sessions[t].gen BY <1>1, <1>5 DEF Record
<1>7. Sound(n)
    <2>1. \A u \in Threads : n.sessions[u] # None =>
              s.sessions[u] # None /\ n.sessions[u].gen = s.sessions[u].gen
        BY <1>1, <1>4, <1>6
    <2> QED BY <1>4, <2>1, SoundWithin
<1> QED BY <1>1, <1>3, <1>4, <1>5, <1>7 DEF Record, IdOf

LEMMA RemoveIs ==
    ASSUME NEW s, Sound(s), NEW t \in Threads
    PROVE  LET n == Remove(s, t) IN Sound(n) /\ n.sessions = [s.sessions EXCEPT ![t] = None]
<1> DEFINE n == Remove(s, t)
<1>1. s \in StoreValue /\ s.sessions \in [Threads -> Record \cup {None}]
    BY DEF Sound, StoreValue
<1>2. /\ n.sessions = [s.sessions EXCEPT ![t] = None]
      /\ n.stale = s.stale /\ n.high = s.high /\ n \in StoreValue
    BY <1>1 DEF Remove, StoreValue
<1>3. Sound(n) BY <1>1, <1>2, SoundWithin
<1> QED BY <1>2, <1>3

LEMMA ReserveBytesIs ==
    ASSUME NEW s, Sound(s), NEW t \in Threads, s.sessions[t] # None, NEW next \in Nat
    PROVE  LET n == ReserveBytes(s, t, next) IN
           /\ Sound(n)
           /\ n.sessions = [s.sessions EXCEPT ![t] = [s.sessions[t] EXCEPT !.bytes = next]]
           /\ n.sessions[t] \in Record /\ IdOf(n.sessions[t]) = IdOf(s.sessions[t])
           /\ n.sessions[t].state = s.sessions[t].state /\ n.sessions[t].bytes = next
<1> DEFINE n == ReserveBytes(s, t, next)
<1>1. s \in StoreValue /\ s.sessions \in [Threads -> Record \cup {None}] /\ s.sessions[t] \in Record
    BY DEF Sound, StoreValue
<1>2. n = [s EXCEPT !.sessions = [s.sessions EXCEPT ![t] = [s.sessions[t] EXCEPT !.bytes = next]]]
    BY <1>1 DEF ReserveBytes, StoreValue
<1>3. [s.sessions[t] EXCEPT !.bytes = next] \in Record BY <1>1 DEF Record
<1>4. /\ n.sessions = [s.sessions EXCEPT ![t] = [s.sessions[t] EXCEPT !.bytes = next]]
      /\ n.stale = s.stale /\ n.high = s.high /\ n \in StoreValue
    BY <1>1, <1>2, <1>3 DEF StoreValue
<1>5. n.sessions[t] = [s.sessions[t] EXCEPT !.bytes = next] BY <1>1, <1>4
<1>6. n.sessions[t].gen = s.sessions[t].gen BY <1>1, <1>5 DEF Record
<1>7. Sound(n)
    <2>1. \A u \in Threads : n.sessions[u] # None =>
              s.sessions[u] # None /\ n.sessions[u].gen = s.sessions[u].gen
        BY <1>1, <1>4, <1>6
    <2> QED BY <1>4, <2>1, SoundWithin
<1> QED BY <1>1, <1>3, <1>4, <1>5, <1>7 DEF Record, IdOf

LEMMA WithoutStaleIs ==
    ASSUME NEW s, Sound(s), NEW t \in Threads, NEW ids
    PROVE  LET n == WithoutStale(s, t, ids) IN
           /\ Sound(n) /\ n.sessions = s.sessions /\ n.high = s.high
           /\ n.stale = {row \in s.stale : row.thread # t \/ IdOf(row) \notin ids}
<1> DEFINE n == WithoutStale(s, t, ids)
<1>1. s \in StoreValue BY DEF Sound
<1>2. /\ n.sessions = s.sessions /\ n.high = s.high /\ n \in StoreValue
      /\ n.stale = {row \in s.stale : row.thread # t \/ IdOf(row) \notin ids}
    BY <1>1 DEF WithoutStale, StoreValue
<1>3. Sound(n) BY <1>2, SoundWithin
<1> QED BY <1>2, <1>3

LEMMA RemoveStaleIs ==
    ASSUME NEW s, Sound(s), NEW t \in Threads, NEW id
    PROVE  Sound(RemoveStale(s, t, id)) /\ RemoveStale(s, t, id).sessions = s.sessions
BY WithoutStaleIs DEF RemoveStale

\* retainStaleRebind replaces the row an earlier attempt has left, so that there
\* is one: the maximum it keeps is of that row and the record.
LEMMA RetainStaleIs ==
    ASSUME NEW s, Sound(s), NEW t \in Threads, NEW r \in Record
    PROVE  Sound(RetainStale(s, t, r)) /\ RetainStale(s, t, r).sessions = s.sessions
<1> DEFINE prior == {row.bytes : row \in {x \in RowsOf(s, t) : IdOf(x) = IdOf(r)}}
           row == [thread |-> t, sid |-> r.sid, gen |-> r.gen,
                   bytes |-> Max(prior \cup {r.bytes}), bind |-> r.bind]
           m == WithoutStale(s, t, {IdOf(r)})
           n == RetainStale(s, t, r)
<1>1. s \in StoreValue /\ s.high \in Nat /\ s.stale \subseteq StaleRow /\ r.gen \in Nat /\ r.bytes \in Nat
    BY DEF Sound, StoreValue, Record
<1>2. Max(prior \cup {r.bytes}) \in Nat
    <2>1. \A x, y \in prior \cup {r.bytes} : x # r.bytes /\ y # r.bytes => x = y
        BY DEF Sound, Keyed, RowsOf
    <2>2. prior \cup {r.bytes} \subseteq Nat
        <3>1. \A x \in s.stale : x.bytes \in Nat BY <1>1 DEF StaleRow
        <3> QED BY <1>1, <3>1 DEF RowsOf
    <2>3. \E x \in prior \cup {r.bytes} : \A y \in prior \cup {r.bytes} : x >= y
        <3> HIDE DEF prior
        <3>1. CASE \E x \in prior : x > r.bytes
            <4>1. PICK x \in prior : x > r.bytes BY <3>1
            <4>2. \A y \in prior \cup {r.bytes} : x >= y BY <1>1, <2>1, <2>2, <4>1
            <4> QED BY <4>1, <4>2
        <3>2. CASE ~ \E x \in prior : x > r.bytes
            <4>1. \A y \in prior \cup {r.bytes} : r.bytes >= y BY <1>1, <2>2, <3>2
            <4> QED BY <4>1
        <3> QED BY <3>1, <3>2
    <2> HIDE DEF prior
    <2>4. Max(prior \cup {r.bytes}) \in prior \cup {r.bytes} BY <2>3 DEF Max
    <2> QED BY <2>2, <2>4
<1>3. row \in StaleRow /\ row.gen = r.gen /\ row.thread = t /\ IdOf(row) = IdOf(r)
    <2> HIDE DEF prior
    <2> QED BY <1>2 DEF StaleRow, Record, IdOf
<1>4. /\ Sound(m) /\ m.sessions = s.sessions /\ m.high = s.high
      /\ m.stale = {x \in s.stale : x.thread # t \/ IdOf(x) \notin {IdOf(r)}}
    BY WithoutStaleIs
<1>5. n = [m EXCEPT !.stale = @ \cup {row}, !.high = Larger(s.high, r.gen)]
    BY DEF RetainStale, RemoveStale
<1> HIDE DEF row, m, n
<1>6. Larger(s.high, r.gen) \in Nat /\ Larger(s.high, r.gen) >= s.high /\ Larger(s.high, r.gen) >= r.gen
    BY <1>1, LargerIs
<1>7. /\ n \in StoreValue /\ n.sessions = s.sessions /\ n.high = Larger(s.high, r.gen)
      /\ n.stale = m.stale \cup {row}
    BY <1>3, <1>4, <1>5, <1>6 DEF Sound, StoreValue
<1>8. Marked(n)
    <2>1. ASSUME NEW u \in Threads, n.sessions[u] # None PROVE n.sessions[u].gen <= n.high
        <3>1. n.sessions[u].gen \in Nat /\ n.sessions[u].gen <= s.high
            BY <1>7, <2>1 DEF Sound, Marked, StoreValue, Record
        <3> QED BY <1>1, <1>6, <1>7, <3>1
    <2>2. ASSUME NEW x \in n.stale PROVE x.gen <= n.high
        <3>1. CASE x = row BY <1>3, <1>6, <1>7, <3>1
        <3>2. CASE x \in s.stale
            <4>1. x.gen \in Nat /\ x.gen <= s.high BY <1>1, <3>2 DEF Sound, Marked, StaleRow
            <4> QED BY <1>1, <1>6, <1>7, <4>1
        <3> QED BY <1>4, <1>7, <2>2, <3>1, <3>2
    <2> QED BY <2>1, <2>2 DEF Marked
<1>9. Keyed(n) BY <1>3, <1>4, <1>7 DEF Sound, Keyed
<1> QED BY <1>7, <1>8, <1>9 DEF Sound, n

\* What `load` reads back of a sound store is that store: its mark is the largest
\* generation already.
LEMMA LoadedIs ==
    ASSUME NEW s, Sound(s)
    PROVE  Loaded(s) = s
<1> DEFINE gens == {s.sessions[t].gen : t \in {x \in Threads : s.sessions[x] # None}}
                   \cup {row.gen : row \in s.stale}
<1>1. s \in StoreValue /\ s.high \in Nat BY DEF Sound, StoreValue
<1>2. gens \subseteq Nat
    <2>1. \A t \in Threads : s.sessions[t] # None => s.sessions[t].gen \in Nat
        BY <1>1 DEF StoreValue, Record
    <2>2. \A row \in s.stale : row.gen \in Nat BY <1>1 DEF StoreValue, StaleRow
    <2> QED BY <2>1, <2>2
<1>3. \A g \in gens : s.high >= g
    <2>1. \A t \in Threads : s.sessions[t] # None => s.high >= s.sessions[t].gen
        BY <1>1 DEF Sound, Marked, StoreValue, Record
    <2>2. \A row \in s.stale : s.high >= row.gen
        BY <1>1 DEF Sound, Marked, StoreValue, StaleRow
    <2> QED BY <2>1, <2>2
<1>4. Max(gens \cup {s.high}) = s.high
    <2> HIDE DEF gens
    <2>1. \A g \in gens \cup {s.high} : s.high >= g BY <1>1, <1>3
    <2>2. /\ Max(gens \cup {s.high}) \in gens \cup {s.high}
          /\ \A g \in gens \cup {s.high} : Max(gens \cup {s.high}) >= g
        BY <2>1 DEF Max
    <2>3. Max(gens \cup {s.high}) \in Nat BY <1>1, <1>2, <2>2
    <2>4. Max(gens \cup {s.high}) >= s.high /\ s.high >= Max(gens \cup {s.high}) BY <2>1, <2>2
    <2> HIDE DEF Max
    <2> QED BY <1>1, <2>3, <2>4
<1>5. Loaded(s) = [s EXCEPT !.high = Max(gens \cup {s.high})] BY DEF Loaded
<1> HIDE DEF gens
<1> QED BY <1>1, <1>4, <1>5 DEF StoreValue

-----------------------------------------------------------------------------
(* One thread's step.                                                       *)

\* What CommittedStays says of one thread.
Stays(t) ==
    LET old == store.sessions[t]
        new == store'.sessions[t]
    IN old # None /\ new # None /\ new.gen < old.gen => old.state = "creating"

\* A step leaves everything in order.
InOrder == Inv' /\ \A t \in Threads : Stays(t)

\* The store and the file have r for t, and what they had for everybody else.
Wrote(t, r) ==
    /\ Sound(store') /\ file' = store'
    /\ store'.sessions = [store.sessions EXCEPT ![t] = r]

LEMMA WroteNothing ==
    ASSUME Inv, NEW t \in Threads, UNCHANGED <<store, file>>
    PROVE  Wrote(t, store.sessions[t])
BY DEF Inv, Wrote, Sound, StoreValue, Marked, Keyed

LEMMA WroteMaybe ==
    ASSUME Inv, NEW t \in Threads, NEW r, NEW n, Sound(n), NEW ok \in BOOLEAN,
           n.sessions = [store.sessions EXCEPT ![t] = r], Persist(Written(store, n, ok))
    PROVE  /\ ok => Wrote(t, r)
           /\ ~ok => Wrote(t, store.sessions[t])
<1>1. CASE ok
    <2>1. store' = n /\ file' = n BY <1>1 DEF Persist, Written
    <2> QED BY <1>1, <2>1 DEF Wrote, Sound, Marked, Keyed
<1>2. CASE ~ok
    <2>1. UNCHANGED <<store, file>> BY <1>2 DEF Persist, Written, Inv
    <2> QED BY <1>2, <2>1, WroteNothing
<1> QED BY <1>1, <1>2

\* A thread that ends its step in order leaves every thread in order.
LEMMA StepOfOne ==
    ASSUME Inv, NEW t \in Threads, NEW r, Wrote(t, r), TypeOK', phase = "up" => phase' = "up",
           \A u \in Threads \ {t} : plan'[u] = plan[u] /\ delivered'[u] = delivered[u]
                                    /\ (u \in opened' <=> u \in opened),
           Planned(t)', Unopened(t)', Covered(t)', Stays(t)
    PROVE  InOrder
<1>1. ASSUME NEW u \in Threads \ {t}
      PROVE  Planned(u)' /\ Unopened(u)' /\ Covered(u)' /\ Stays(u)
    <2>1. store'.sessions[u] = store.sessions[u] /\ store.sessions[u] \in Record \cup {None}
        BY DEF Wrote, Inv, Sound, StoreValue
    <2>2. plan'[u] = plan[u] /\ delivered'[u] = delivered[u] /\ (u \in opened' <=> u \in opened)
        OBVIOUS
    <2>3. Planned(u) /\ Unopened(u) /\ Covered(u) BY DEF Inv
    <2>4. Planned(u)' BY <2>1, <2>2, <2>3 DEF Planned, IsCurrent
    <2>5. Unopened(u)' /\ Covered(u)' BY <2>1, <2>2, <2>3 DEF Unopened, Covered
    <2>6. Stays(u) BY <2>1 DEF Stays, Record
    <2> QED BY <2>4, <2>5, <2>6
<1>2. \A u \in Threads : Planned(u)' /\ Unopened(u)' /\ Covered(u)' /\ Stays(u) BY <1>1
<1>3. Sound(store)' /\ file' = store' BY DEF Wrote, Sound, Marked, Keyed
<1> QED BY <1>2, <1>3 DEF Inv, InOrder

\* What is known in every state.
LEMMA Facts ==
    ASSUME Inv
    PROVE  /\ TypeOK /\ Sound(store) /\ store \in StoreValue /\ file = store
           /\ store.sessions \in [Threads -> Record \cup {None}] /\ store.high \in Nat
           /\ \A t \in Threads : Planned(t) /\ Unopened(t) /\ Covered(t)
           /\ None \notin Record /\ Limit \in Nat /\ MaxCrashes \in Nat
           /\ Outcomes \subseteq BOOLEAN
BY RecordsAssumption DEF Inv, Sound, StoreValue, Outcomes

LEMMA NextGenerationIs ==
    ASSUME NEW s, Sound(s)
    PROVE  /\ NextGeneration(s) \in Nat \ {0}
           /\ \A t \in Threads : s.sessions[t] # None => s.sessions[t].gen < NextGeneration(s)
<1>1. s \in StoreValue /\ s.high \in Nat BY DEF Sound, StoreValue
<1>2. \A t \in Threads : s.sessions[t] # None => s.sessions[t].gen \in Nat /\ s.sessions[t].gen <= s.high
    BY <1>1 DEF Sound, Marked, StoreValue, Record
<1> QED BY <1>1, <1>2 DEF NextGeneration

-----------------------------------------------------------------------------
(* `/new`.                                                                  *)

LEMMA NewIdentityKeeps == ASSUME Inv, NEW t \in Threads, NewIdentity(t) PROVE InOrder
<1>1. /\ phase = "up" /\ t \notin opened /\ opened' = opened \cup {t}
      /\ UNCHANGED <<store, file, phase, actors, delivered, crashes, used>>
    BY DEF NewIdentity
<1>2. PICK sid \in Sids :
          /\ issued' = issued \cup {sid}
          /\ plan' = [plan EXCEPT ![t] =
                  [id |-> [sid |-> sid, gen |-> NextGeneration(store)],
                   prev |-> None, reserved |-> FALSE, ended |-> FALSE]]
    BY DEF NewIdentity
<1>3. NextGeneration(store) \in Nat \ {0} BY Facts, NextGenerationIs
<1>4. [id |-> [sid |-> sid, gen |-> NextGeneration(store)],
       prev |-> None, reserved |-> FALSE, ended |-> FALSE] \in Plan
    BY <1>3 DEF Plan, Identity
<1>5. TypeOK' BY <1>1, <1>2, <1>4, Facts DEF TypeOK
<1>6. Wrote(t, store.sessions[t]) BY <1>1, WroteNothing
<1>7. store.sessions[t] = None /\ delivered[t] = 0 BY <1>1, Facts DEF Unopened
<1>8. plan'[t].reserved = FALSE /\ plan'[t].prev = None BY <1>2, Facts DEF TypeOK
<1>9. Planned(t)' /\ Unopened(t)' /\ Covered(t)' /\ Stays(t)
    BY <1>1, <1>7, <1>8 DEF Planned, Unopened, Covered, Stays
<1>10. \A u \in Threads \ {t} : plan'[u] = plan[u] /\ delivered'[u] = delivered[u]
                               /\ (u \in opened' <=> u \in opened)
    BY <1>1, <1>2, Facts DEF TypeOK
<1> QED BY <1>1, <1>5, <1>6, <1>9, <1>10, StepOfOne

\* A `/new` reserves its thread's first record: nothing has been delivered there.
LEMMA NewReserveKeeps == ASSUME Inv, NEW t \in Threads, NewReserve(t) PROVE InOrder
<1>1. /\ phase = "up" /\ plan[t] # None /\ plan[t].prev = None /\ ~plan[t].reserved
      /\ UNCHANGED <<phase, actors, issued, opened, delivered, crashes>>
    BY DEF NewReserve
<1>2. PICK ok \in Outcomes, b \in Binds :
          /\ Persist(Written(store, Reserve(store, t, NewRecord(plan[t].id, 0, b)), ok))
          /\ plan' = [plan EXCEPT ![t] = IF ok THEN [@ EXCEPT !.reserved = TRUE] ELSE None]
          /\ IF ok THEN Use(t, plan[t].id) ELSE UNCHANGED used
    BY DEF NewReserve
<1> DEFINE r == [NewRecord(plan[t].id, 0, b) EXCEPT !.state = "creating"]
           n == Reserve(store, t, NewRecord(plan[t].id, 0, b))
<1>3. plan[t] \in Plan /\ plan[t].id \in Identity /\ ok \in BOOLEAN
    BY <1>1, Facts DEF TypeOK, Plan
<1>4. /\ r \in Record /\ IdOf(r) = plan[t].id /\ r.bytes = 0 /\ r.state = "creating"
    BY <1>3 DEF NewRecord, Record, States, Identity, IdOf
<1>5. Sound(n) /\ n.sessions = [store.sessions EXCEPT ![t] = r]
    BY <1>4, Facts, WithPrimaryIs DEF Reserve
<1> HIDE DEF n, r
<1>6. /\ ok => Wrote(t, r)
      /\ ~ok => Wrote(t, store.sessions[t])
    BY <1>2, <1>3, <1>5, Facts, WroteMaybe DEF n
<1>7. store.sessions[t] = None /\ delivered[t] = 0 /\ t \in opened
    BY <1>1, Facts DEF Planned, Unopened
<1>8. TypeOK'
    <2>1. store' \in StoreValue /\ file' \in StoreValue BY <1>3, <1>6 DEF Wrote, Sound
    <2>2. plan' \in [Threads -> Plan \cup {None}]
        <3>1. [plan[t] EXCEPT !.reserved = TRUE] \in Plan BY <1>3 DEF Plan
        <3> QED BY <1>2, <3>1, Facts DEF TypeOK
    <2>3. used' \subseteq Incarnation BY <1>2, <1>3, Facts DEF Use, Incarnation, TypeOK
    <2> QED BY <1>1, <2>1, <2>2, <2>3, Facts DEF TypeOK
<1>9. \A u \in Threads \ {t} : plan'[u] = plan[u] /\ delivered'[u] = delivered[u]
                              /\ (u \in opened' <=> u \in opened)
    BY <1>1, <1>2, Facts DEF TypeOK
<1>10. CASE ok
    <2>1. store'.sessions[t] = r BY <1>6, <1>10, Facts DEF Wrote
    <2>2. plan'[t] = [plan[t] EXCEPT !.reserved = TRUE] BY <1>2, <1>10, Facts DEF TypeOK
    <2>3. plan'[t].reserved /\ plan'[t].id = plan[t].id BY <1>3, <2>2 DEF Plan
    <2>4. r # None BY <1>4, Facts
    <2>5. Planned(t)' BY <1>1, <1>4, <2>1, <2>3, <2>4 DEF Planned, IsCurrent
    <2>6. Unopened(t)' /\ Covered(t)' /\ Stays(t)
        BY <1>1, <1>4, <1>7, <2>1 DEF Unopened, Covered, Stays
    <2> QED BY <1>1, <1>6, <1>8, <1>9, <1>10, <2>5, <2>6, StepOfOne
<1>11. CASE ~ok
    <2>1. store'.sessions[t] = None BY <1>6, <1>7, <1>11, Facts DEF Wrote
    <2>2. plan'[t] = None BY <1>2, <1>11, Facts DEF TypeOK
    <2>3. Planned(t)' /\ Unopened(t)' /\ Covered(t)' /\ Stays(t)
        BY <1>1, <1>7, <2>1, <2>2 DEF Planned, Unopened, Covered, Stays
    <2> QED BY <1>1, <1>6, <1>8, <1>9, <1>11, <2>3, StepOfOne
<1> QED BY <1>10, <1>11

\* A thread whose record is left alone and whose plan ends.
LEMMA PlanEnds ==
    ASSUME Inv, NEW t \in Threads, plan' = [plan EXCEPT ![t] = None], plan[t] # None,
           UNCHANGED <<phase, opened, delivered>>, TypeOK', Wrote(t, store.sessions[t])
    PROVE  InOrder
<1>1. store'.sessions[t] = store.sessions[t] BY Facts DEF Wrote
<1>2. plan'[t] = None BY Facts DEF TypeOK
<1>3. Planned(t)' /\ Unopened(t)' /\ Covered(t)' /\ Stays(t)
    BY <1>1, <1>2, Facts DEF Planned, Unopened, Covered, Stays, Record
<1>4. \A u \in Threads \ {t} : plan'[u] = plan[u] /\ delivered'[u] = delivered[u]
                              /\ (u \in opened' <=> u \in opened)
    BY Facts DEF TypeOK
<1> QED BY <1>3, <1>4, StepOfOne

LEMMA NewEndsKeeps == ASSUME Inv, NEW t \in Threads, NewAborts(t) \/ NewFails(t) PROVE InOrder
<1>1. /\ plan[t] # None /\ plan' = [plan EXCEPT ![t] = None]
      /\ UNCHANGED <<store, file, phase, actors, issued, opened, delivered, crashes, used>>
    BY DEF NewAborts, NewFails
<1>2. TypeOK' BY <1>1, Facts DEF TypeOK
<1> QED BY <1>1, <1>2, WroteNothing, PlanEnds

\* A record of a thread without a plan changes: it keeps its bytes, and goes
\* back to an older generation only from a reservation.
LEMMA RecordChanges ==
    ASSUME Inv, NEW t \in Threads, NEW r \in Record \cup {None}, Wrote(t, r), TypeOK',
           phase = "up" => phase' = "up", store.sessions[t] # None,
           plan'[t] = None, \A u \in Threads \ {t} : plan'[u] = plan[u],
           UNCHANGED <<opened, delivered>>,
           r # None => /\ r.bytes >= store.sessions[t].bytes
                       /\ r.gen >= store.sessions[t].gen \/ store.sessions[t].state = "creating"
    PROVE  InOrder
<1>1. store'.sessions[t] = r BY Facts DEF Wrote
<1>2. Planned(t)' BY DEF Planned
<1>3. Unopened(t)' BY Facts DEF Unopened
<1>4. Covered(t)'
    <2>1. delivered[t] \in Nat /\ store.sessions[t] \in Record BY Facts DEF TypeOK
    <2>2. delivered[t] <= store.sessions[t].bytes BY Facts DEF Covered
    <2> QED BY <1>1, <2>1, <2>2 DEF Covered, Record
<1>5. Stays(t)
    <2>1. store.sessions[t] \in Record BY Facts
    <2> QED BY <1>1, <2>1 DEF Stays, Record
<1> QED BY <1>2, <1>3, <1>4, <1>5, StepOfOne

\* ... by a write that may fail and then leaves it as it is.
LEMMA RecordMayChange ==
    ASSUME Inv, NEW t \in Threads, NEW r \in Record \cup {None}, NEW n, Sound(n), NEW ok \in BOOLEAN,
           n.sessions = [store.sessions EXCEPT ![t] = r], Persist(Written(store, n, ok)), TypeOK',
           phase = "up" => phase' = "up", store.sessions[t] # None,
           plan'[t] = None, \A u \in Threads \ {t} : plan'[u] = plan[u],
           UNCHANGED <<opened, delivered>>,
           r # None => /\ r.bytes >= store.sessions[t].bytes
                       /\ r.gen >= store.sessions[t].gen \/ store.sessions[t].state = "creating"
    PROVE  InOrder
<1>1. (ok => Wrote(t, r)) /\ (~ok => Wrote(t, store.sessions[t])) BY WroteMaybe
<1>2. CASE ok BY <1>1, <1>2, RecordChanges
<1>3. CASE ~ok
    <2>1. store.sessions[t] \in Record BY Facts
    <2>2. store.sessions[t].bytes >= store.sessions[t].bytes /\ store.sessions[t].gen >= store.sessions[t].gen
        BY <2>1 DEF Record
    <2> QED BY <1>1, <1>3, <2>1, <2>2, RecordChanges
<1> QED BY <1>2, <1>3

LEMMA WritesSound ==
    ASSUME Inv, NEW n, Sound(n), NEW ok \in BOOLEAN, Persist(Written(store, n, ok))
    PROVE  store' \in StoreValue /\ file' \in StoreValue
BY Facts DEF Persist, Written, Sound

LEMMA NewCommitKeeps == ASSUME Inv, NEW t \in Threads, NewCommit(t) PROVE InOrder
<1>1. /\ phase = "up" /\ plan[t] # None /\ plan[t].reserved
      /\ plan' = [plan EXCEPT ![t] = None]
      /\ UNCHANGED <<phase, issued, opened, delivered, crashes, used>>
    BY DEF NewCommit
<1>2. PICK ok \in Outcomes :
          /\ Persist(Written(store, Commit(store, t), ok))
          /\ IF ok THEN Enter(t, plan[t].id, 0) ELSE UNCHANGED actors
    BY DEF NewCommit
<1>3. store.sessions[t] # None /\ plan[t].id \in Identity /\ ok \in BOOLEAN
    BY <1>1, Facts DEF Planned, IsCurrent, TypeOK, Plan
<1> DEFINE n == Commit(store, t)
           r == [store.sessions[t] EXCEPT !.state = "active"]
<1>4. /\ Sound(n) /\ n.sessions = [store.sessions EXCEPT ![t] = r]
      /\ r \in Record /\ r.bytes >= store.sessions[t].bytes /\ r.gen >= store.sessions[t].gen
    <2>1. "active" \in States /\ store.sessions[t] \in Record BY <1>3, Facts DEF States
    <2>2. r \in Record /\ r.bytes >= store.sessions[t].bytes /\ r.gen >= store.sessions[t].gen
        BY <2>1 DEF Record
    <2>3. Sound(n) /\ n.sessions = [store.sessions EXCEPT ![t] = r]
        BY <1>3, <2>1, Facts, SetStateIs DEF Commit
    <2> QED BY <2>2, <2>3
<1> HIDE DEF n, r
<1>5. TypeOK'
    <2>1. store' \in StoreValue /\ file' \in StoreValue BY <1>2, <1>3, <1>4, WritesSound DEF n
    <2>2. actors' \subseteq Actor
        BY <1>2, <1>3, Facts DEF TypeOK, Enter, Actor
    <2> QED BY <1>1, <2>1, <2>2, Facts DEF TypeOK
<1>6. plan'[t] = None /\ \A u \in Threads \ {t} : plan'[u] = plan[u]
    BY <1>1, Facts DEF TypeOK
<1> QED BY <1>1, <1>2, <1>3, <1>4, <1>5, <1>6, RecordMayChange DEF n

-----------------------------------------------------------------------------
(* A rebind.                                                                *)

LEMMA RebindReserveKeeps == ASSUME Inv, NEW t \in Threads, RebindReserve(t) PROVE InOrder
<1>1. /\ phase = "up" /\ plan[t] = None /\ UNCHANGED <<phase, actors, opened, delivered, crashes>>
    BY DEF RebindReserve, MayRebind
<1>2. store.sessions[t] # None BY DEF RebindReserve, MayRebind, Live, IsCurrent
<1> DEFINE prev == store.sessions[t]
           id(sid) == [sid |-> sid, gen |-> NextGeneration(store)]
           retained(kept) == Written(store, RetainStale(store, t, prev), kept)
           fresh(sid, b) == Target(t, id(sid), prev, b)
           target(sid, b, kept, reserved) ==
               Written(retained(kept), Reserve(retained(kept), t, fresh(sid, b)), kept /\ reserved)
           settled(sid, b, kept, reserved, undone) ==
               Written(target(sid, b, kept, reserved),
                       RemoveStale(target(sid, b, kept, reserved), t, IdOf(prev)),
                       kept /\ ~reserved /\ undone)
<1>3. PICK sid \in Sids, b \in Binds, kept, reserved, undone \in Outcomes :
          /\ Fresh(sid)
          /\ issued' = issued \cup {sid}
          /\ Persist(settled(sid, b, kept, reserved, undone))
          /\ IF kept /\ reserved
             THEN /\ plan' = [plan EXCEPT ![t] = [id |-> id(sid), prev |-> prev,
                                                  reserved |-> TRUE, ended |-> FALSE]]
                  /\ Use(t, id(sid))
             ELSE UNCHANGED <<plan, used>>
    BY DEF RebindReserve
<1> DEFINE m == retained(kept)
           r == [fresh(sid, b) EXCEPT !.state = "creating"]
           w == Reserve(m, t, fresh(sid, b))
           g == target(sid, b, kept, reserved)
           n == settled(sid, b, kept, reserved, undone)
<1>4. prev \in Record /\ prev.bytes \in Nat /\ delivered[t] <= prev.bytes /\ kept \in BOOLEAN
      /\ reserved \in BOOLEAN /\ undone \in BOOLEAN
    BY <1>2, Facts DEF Covered, Record
<1>5. NextGeneration(store) \in Nat \ {0} /\ prev.gen < NextGeneration(store)
    BY <1>2, Facts, NextGenerationIs
<1>6. Sound(m) /\ m.sessions = store.sessions
    BY <1>4, Facts, RetainStaleIs DEF Written
<1>7. /\ r \in Record /\ IdOf(r) = id(sid) /\ r.bytes = prev.bytes /\ r.state = "creating"
      /\ r.gen = NextGeneration(store) /\ id(sid) \in Identity
    BY <1>4, <1>5 DEF Target, NewRecord, Record, States, Identity, IdOf
<1> HIDE DEF m, r
<1>8. Sound(w) /\ w.sessions = [store.sessions EXCEPT ![t] = r]
    BY <1>6, <1>7, WithPrimaryIs DEF Reserve, r
<1>9. Sound(g) /\ g.sessions = IF kept /\ reserved THEN w.sessions ELSE store.sessions
    BY <1>6, <1>8 DEF Written, m
<1> HIDE DEF w, g
<1>10. Sound(n) /\ n.sessions = g.sessions
    BY <1>9, RemoveStaleIs DEF Written, g
<1> HIDE DEF n
<1>11. store' = n /\ file' = n BY <1>3 DEF Persist, n
<1>12. Sound(store') /\ file' = store' BY <1>10, <1>11 DEF Sound, Marked, Keyed
<1>13. store' \in StoreValue /\ file' \in StoreValue /\ issued' \subseteq Sids
    BY <1>3, <1>10, <1>11, Facts DEF Sound, TypeOK
<1>14. CASE kept /\ reserved
    <2> DEFINE p == [id |-> id(sid), prev |-> prev, reserved |-> TRUE, ended |-> FALSE]
    <2>1. store'.sessions = [store.sessions EXCEPT ![t] = r] BY <1>8, <1>9, <1>10, <1>11, <1>14
    <2>2. Wrote(t, r) BY <1>12, <2>1 DEF Wrote
    <2>3. store'.sessions[t] = r BY <2>1, Facts
    <2>4. p \in Plan /\ p.reserved /\ p.id = id(sid) BY <1>4, <1>7 DEF Plan
    <2>5. plan' = [plan EXCEPT ![t] = p] BY <1>3, <1>14
    <2> HIDE DEF p
    <2>6. TypeOK'
        <3>1. used' \subseteq Incarnation BY <1>3, <1>7, <1>14, Facts DEF Use, Incarnation, TypeOK
        <3> QED BY <1>1, <1>13, <2>4, <2>5, <3>1, Facts DEF TypeOK
    <2>7. plan'[t] = p /\ \A u \in Threads \ {t} : plan'[u] = plan[u] BY <2>5, Facts DEF TypeOK
    <2>8. Planned(t)' BY <1>1, <1>7, <2>3, <2>4, <2>7, Facts DEF Planned, IsCurrent
    <2>9. Unopened(t)' BY <1>1, <1>2, Facts DEF Unopened
    <2>10. Covered(t)' BY <1>1, <1>4, <1>7, <2>3 DEF Covered
    <2>11. Stays(t) BY <1>4, <1>5, <1>7, <2>3 DEF Stays, Record
    <2> QED BY <1>1, <2>2, <2>6, <2>7, <2>8, <2>9, <2>10, <2>11, StepOfOne
<1>15. CASE ~(kept /\ reserved)
    <2>1. store'.sessions = store.sessions BY <1>9, <1>10, <1>11, <1>15
    <2>2. Wrote(t, store.sessions[t]) BY <1>12, <2>1, Facts DEF Wrote
    <2>3. plan' = plan /\ used' = used BY <1>3, <1>15
    <2>4. TypeOK' BY <1>1, <1>13, <2>3, Facts DEF TypeOK
    <2>5. prev.bytes >= prev.bytes /\ prev.gen >= prev.gen BY <1>4 DEF Record
    <2> QED BY <1>1, <1>2, <1>4, <2>2, <2>3, <2>4, <2>5, RecordChanges
<1> QED BY <1>14, <1>15

LEMMA PersistWrote ==
    ASSUME Inv, NEW t \in Threads, NEW r, NEW n, Sound(n),
           n.sessions = [store.sessions EXCEPT ![t] = r], Persist(n)
    PROVE  Wrote(t, r) /\ store' \in StoreValue /\ file' \in StoreValue
<1>1. store' = n /\ file' = n BY DEF Persist
<1> QED BY <1>1 DEF Wrote, Sound, Marked, Keyed

\* The record that a rebind commits is its reservation.
LEMMA RebindCommitKeeps == ASSUME Inv, NEW t \in Threads, RebindCommit(t) PROVE InOrder
<1>1. /\ phase = "up" /\ plan[t] # None /\ plan[t].prev # None
      /\ Persist(Commit(store, t)) /\ Enter(t, plan[t].id, plan[t].prev.bytes)
      /\ plan' = [plan EXCEPT ![t] = None]
      /\ UNCHANGED <<phase, issued, opened, delivered, crashes, used>>
    BY DEF RebindCommit, Rebinding, PlanAfterCommit
<1>2. /\ store.sessions[t] \in Record /\ store.sessions[t] # None
      /\ plan[t].id \in Identity /\ plan[t].prev \in Record
    BY <1>1, Facts DEF Planned, IsCurrent, TypeOK, Plan
<1> DEFINE n == Commit(store, t)
           r == [store.sessions[t] EXCEPT !.state = "active"]
<1>3. Sound(n) /\ n.sessions = [store.sessions EXCEPT ![t] = r]
    BY <1>2, Facts, SetStateIs DEF Commit, States
<1>4. r \in Record /\ r.bytes >= store.sessions[t].bytes /\ r.gen >= store.sessions[t].gen
    BY <1>2 DEF Record, States
<1> HIDE DEF n, r
<1>5. Wrote(t, r) /\ store' \in StoreValue /\ file' \in StoreValue
    BY <1>1, <1>3, PersistWrote DEF n
<1>6. actors' \subseteq Actor BY <1>1, <1>2, Facts DEF TypeOK, Enter, Actor, Record
<1>7. TypeOK' BY <1>1, <1>5, <1>6, Facts DEF TypeOK
<1>8. plan'[t] = None /\ \A u \in Threads \ {t} : plan'[u] = plan[u]
    BY <1>1, Facts DEF TypeOK
<1> QED BY <1>1, <1>2, <1>4, <1>5, <1>7, <1>8, RecordChanges

\* The predecessor comes back over the reservation, with the bytes of both.
LEMMA RebindFailsKeeps == ASSUME Inv, NEW t \in Threads, RebindFails(t) PROVE InOrder
<1>1. /\ phase = "up" /\ plan[t] # None /\ plan[t].prev # None
      /\ plan' = [plan EXCEPT ![t] = None]
      /\ UNCHANGED <<phase, actors, issued, opened, delivered, crashes, used>>
    BY DEF RebindFails, Rebinding
<1> DEFINE prev == plan[t].prev
           cur == store.sessions[t]
           restored(may) == Written(store, Restore(store, t, prev), may)
           settled(may, dropped) ==
               Written(restored(may), RemoveStale(restored(may), t, IdOf(prev)), dropped)
<1>2. PICK back, dropped \in Outcomes :
          Persist(settled(IsCurrent(store, t, plan[t].id) /\ back,
                          (IsCurrent(store, t, plan[t].id) /\ back) /\ dropped))
    BY DEF RebindFails
<1> DEFINE may == IsCurrent(store, t, plan[t].id) /\ back
           r == Restored(store, t, prev)
           m == restored(may)
           n == settled(may, may /\ dropped)
<1>3. /\ cur \in Record /\ cur # None /\ cur.state = "creating" /\ prev \in Record /\ may \in BOOLEAN
    BY <1>1, Facts DEF Planned, TypeOK, Plan, IsCurrent
<1>4. r \in Record /\ r.bytes >= cur.bytes
    <2>1. prev.bytes \in Nat /\ cur.bytes \in Nat BY <1>3 DEF Record
    <2>2. Larger(prev.bytes, cur.bytes) \in Nat /\ Larger(prev.bytes, cur.bytes) >= cur.bytes
        BY <2>1, LargerIs
    <2>3. r = [prev EXCEPT !.bytes = Larger(prev.bytes, cur.bytes)] BY DEF Restored
    <2> QED BY <1>3, <2>2, <2>3 DEF Record
<1> HIDE DEF r
<1>5. Sound(Restore(store, t, prev)) /\ Restore(store, t, prev).sessions = [store.sessions EXCEPT ![t] = r]
    BY <1>4, Facts, WithPrimaryIs DEF Restore, r
<1>6. Sound(m) /\ m.sessions = IF may THEN [store.sessions EXCEPT ![t] = r] ELSE store.sessions
    BY <1>5, Facts DEF Written
<1> HIDE DEF m, may
<1>7. Sound(n) /\ n.sessions = m.sessions BY <1>6, RemoveStaleIs DEF Written, m
<1>8. Persist(n) BY <1>2 DEF may
<1> HIDE DEF n
<1>9. plan'[t] = None /\ \A u \in Threads \ {t} : plan'[u] = plan[u]
    BY <1>1, Facts DEF TypeOK
<1>10. CASE may
    <2>1. Wrote(t, r) /\ store' \in StoreValue /\ file' \in StoreValue
        BY <1>6, <1>7, <1>8, <1>10, PersistWrote
    <2>2. TypeOK' BY <1>1, <2>1, Facts DEF TypeOK
    <2> QED BY <1>1, <1>3, <1>4, <1>9, <2>1, <2>2, RecordChanges
<1>11. CASE ~may
    <2>1. n.sessions = [store.sessions EXCEPT ![t] = cur] BY <1>6, <1>7, <1>11, Facts
    <2>2. Wrote(t, cur) /\ store' \in StoreValue /\ file' \in StoreValue
        BY <1>7, <1>8, <2>1, PersistWrote
    <2>3. TypeOK' BY <1>1, <2>2, Facts DEF TypeOK
    <2> QED BY <1>1, <2>2, <2>3, PlanEnds
<1> QED BY <1>10, <1>11

LEMMA RebindAbandonsKeeps == ASSUME Inv, NEW t \in Threads, RebindAbandons(t) PROVE InOrder
<1>1. /\ phase = "up" /\ plan[t] # None
      /\ plan' = [plan EXCEPT ![t] = None]
      /\ UNCHANGED <<phase, actors, issued, opened, delivered, crashes, used>>
    BY DEF RebindAbandons, Rebinding
<1>2. plan'[t] = None /\ \A u \in Threads \ {t} : plan'[u] = plan[u]
    BY <1>1, Facts DEF TypeOK
<1>3. CASE IsCurrent(store, t, plan[t].id)
    <2>1. PICK ok \in Outcomes : Persist(Written(store, Remove(store, t), ok))
        BY <1>3 DEF RebindAbandons, Write
    <2>2. /\ Sound(Remove(store, t)) /\ Remove(store, t).sessions = [store.sessions EXCEPT ![t] = None]
          /\ ok \in BOOLEAN /\ store.sessions[t] # None
        BY <1>3, Facts, RemoveIs DEF IsCurrent
    <2>3. TypeOK' BY <1>1, <2>1, <2>2, Facts, WritesSound DEF TypeOK
    <2> QED BY <1>1, <1>2, <2>1, <2>2, <2>3, RecordMayChange
<1>4. CASE ~IsCurrent(store, t, plan[t].id)
    <2>1. UNCHANGED <<store, file>> BY <1>4 DEF RebindAbandons
    <2>2. TypeOK' BY <1>1, <2>1, Facts DEF TypeOK
    <2> QED BY <1>1, <2>1, <2>2, WroteNothing, PlanEnds
<1> QED BY <1>3, <1>4

\* A thread whose record and whose plan, but for an `/end` of it, are left alone.
LEMMA RecordKept ==
    ASSUME Inv, NEW t \in Threads, Wrote(t, store.sessions[t]), TypeOK',
           UNCHANGED <<phase, opened, delivered>>,
           \A u \in Threads \ {t} : plan'[u] = plan[u],
           \/ plan'[t] = plan[t]
           \/ /\ plan[t] # None /\ plan'[t].reserved = plan[t].reserved
              /\ plan'[t].prev = plan[t].prev /\ plan'[t].id = plan[t].id
    PROVE  InOrder
<1>1. store'.sessions[t] = store.sessions[t] BY Facts DEF Wrote
<1>2. Planned(t)' BY <1>1, Facts DEF Planned, IsCurrent
<1>3. Unopened(t)' /\ Covered(t)' BY <1>1, Facts DEF Unopened, Covered
<1>4. Stays(t) BY <1>1, Facts DEF Stays, Record
<1> QED BY <1>2, <1>3, <1>4, StepOfOne

LEMMA OldGoneKeeps == ASSUME Inv, NEW a \in actors, OldGone(a) PROVE InOrder
<1> DEFINE t == a.thread
<1>1. /\ Leave(t, a.id) /\ UNCHANGED <<phase, plan, issued, opened, delivered, crashes, used>>
    BY DEF OldGone
<1>2. t \in Threads /\ actors' \subseteq Actor BY <1>1, Facts DEF TypeOK, Actor, Leave
<1>3. Wrote(t, store.sessions[t]) /\ store' \in StoreValue /\ file' \in StoreValue
    <2>1. CASE UNCHANGED <<store, file>> BY <1>2, <2>1, Facts, WroteNothing
    <2>2. CASE Write(RemoveStale(store, t, a.id))
        <3>1. PICK ok \in Outcomes : Persist(Written(store, RemoveStale(store, t, a.id), ok))
            BY <2>2 DEF Write
        <3>2. /\ Sound(RemoveStale(store, t, a.id)) /\ ok \in BOOLEAN
              /\ RemoveStale(store, t, a.id).sessions = [store.sessions EXCEPT ![t] = store.sessions[t]]
            BY <1>2, Facts, RemoveStaleIs
        <3> QED BY <1>2, <3>1, <3>2, WroteMaybe, WritesSound
    <2> QED BY <2>1, <2>2 DEF OldGone
<1>4. TypeOK' BY <1>1, <1>2, <1>3, Facts DEF TypeOK
<1> QED BY <1>1, <1>2, <1>3, <1>4, RecordKept

-----------------------------------------------------------------------------
(* `/end`.                                                                  *)

\* The two writes of a state, and a removal, as RecordMayChange wants them.
LEMMA StateMayChange ==
    ASSUME Inv, NEW t \in Threads, NEW state \in States, store.sessions[t] # None, NEW ok \in BOOLEAN,
           Persist(Written(store, SetState(store, t, state), ok)), TypeOK',
           phase = "up" => phase' = "up", plan' = plan, plan[t] = None,
           UNCHANGED <<opened, delivered>>
    PROVE  InOrder
<1> DEFINE n == SetState(store, t, state)
           r == [store.sessions[t] EXCEPT !.state = state]
<1>1. store.sessions[t] \in Record BY Facts
<1>2. Sound(n) /\ n.sessions = [store.sessions EXCEPT ![t] = r] BY Facts, SetStateIs
<1>3. r \in Record /\ r.bytes >= store.sessions[t].bytes /\ r.gen >= store.sessions[t].gen
    BY <1>1 DEF Record
<1> HIDE DEF r
<1> QED BY <1>2, <1>3, RecordMayChange

LEMMA RemoveMayHappen ==
    ASSUME Inv, NEW t \in Threads, store.sessions[t] # None, Write(Remove(store, t)),
           actors' \subseteq Actor, plan[t] = None,
           UNCHANGED <<phase, plan, issued, opened, delivered, crashes, used>>
    PROVE  InOrder
<1>1. PICK ok \in Outcomes : Persist(Written(store, Remove(store, t), ok)) BY DEF Write
<1>2. /\ Sound(Remove(store, t)) /\ Remove(store, t).sessions = [store.sessions EXCEPT ![t] = None]
      /\ ok \in BOOLEAN
    BY Facts, RemoveIs
<1>3. TypeOK' BY <1>1, <1>2, Facts, WritesSound DEF TypeOK
<1> QED BY <1>1, <1>2, <1>3, RecordMayChange

LEMMA EndKeeps == ASSUME Inv, NEW t \in Threads, End(t) PROVE InOrder
<1>1. /\ phase = "up" /\ plan[t] = None /\ \E a \in Live(t) : Leave(t, a.id)
      /\ UNCHANGED <<phase, plan, issued, opened, delivered, crashes, used>>
    BY DEF End
<1>2. actors' \subseteq Actor /\ store.sessions[t] # None
    BY <1>1, Facts DEF TypeOK, Leave, Live, IsCurrent
<1>3. CASE Write(Remove(store, t)) BY <1>1, <1>2, <1>3, RemoveMayHappen
<1>4. CASE Write(SetState(store, t, "blocked"))
    <2>1. PICK ok \in Outcomes : Persist(Written(store, SetState(store, t, "blocked"), ok))
        BY <1>4 DEF Write
    <2>2. ok \in BOOLEAN /\ "blocked" \in States BY Facts DEF States
    <2>3. TypeOK' BY <1>1, <1>2, <2>1, <2>2, Facts, SetStateIs, WritesSound DEF TypeOK
    <2> QED BY <1>1, <1>2, <2>1, <2>2, <2>3, StateMayChange
<1> QED BY <1>3, <1>4 DEF End

LEMMA EndStaleKeeps == ASSUME Inv, NEW t \in Threads, EndStale(t) PROVE InOrder
BY Facts, RemoveMayHappen DEF EndStale, TypeOK

\* `/end` inside a rebind leaves the reservation to the rebind.
LEMMA EndDuringRebindKeeps == ASSUME Inv, NEW t \in Threads, EndDuringRebind(t) PROVE InOrder
<1> DEFINE old == IdOf(plan[t].prev)
           n == RemoveStale(store, t, old)
<1>1. /\ plan[t] # None /\ Leave(t, old) /\ Write(n)
      /\ plan' = [plan EXCEPT ![t].ended = TRUE]
      /\ UNCHANGED <<phase, issued, opened, delivered, crashes, used>>
    BY DEF EndDuringRebind, Rebinding
<1>2. PICK ok \in Outcomes : Persist(Written(store, n, ok)) BY <1>1 DEF Write
<1>3. Sound(n) /\ n.sessions = [store.sessions EXCEPT ![t] = store.sessions[t]] /\ ok \in BOOLEAN
    BY Facts, RemoveStaleIs
<1>4. actors' \subseteq Actor BY <1>1, Facts DEF TypeOK, Leave
<1> HIDE DEF n, old
<1>5. Wrote(t, store.sessions[t]) /\ store' \in StoreValue /\ file' \in StoreValue
    BY <1>2, <1>3, WroteMaybe, WritesSound
<1>6. plan[t] \in Plan BY <1>1, Facts DEF TypeOK
<1>7. /\ plan'[t] = [plan[t] EXCEPT !.ended = TRUE] /\ plan'[t] \in Plan
      /\ \A u \in Threads \ {t} : plan'[u] = plan[u]
    BY <1>1, <1>6, Facts DEF TypeOK, Plan
<1>8. plan'[t].reserved = plan[t].reserved /\ plan'[t].prev = plan[t].prev /\ plan'[t].id = plan[t].id
    BY <1>6, <1>7 DEF Plan
<1>9. TypeOK' BY <1>1, <1>4, <1>5, <1>7, Facts DEF TypeOK
<1> QED BY <1>1, <1>5, <1>7, <1>8, <1>9, RecordKept

-----------------------------------------------------------------------------
(* Attachments.                                                             *)

\* What an actor sends is in the record before it is sent, and only the actor
\* of the record's own incarnation and total may add to it.
LEMMA DeliverKeeps == ASSUME Inv, NEW a \in actors, Deliver(a) PROVE InOrder
<1> DEFINE t == a.thread
           n == ReserveBytes(store, t, a.total + 1)
           r == [store.sessions[t] EXCEPT !.bytes = a.total + 1]
<1>1. /\ phase = "up" /\ a.total < Limit /\ IsCurrent(store, t, a.id)
      /\ store.sessions[t].bytes = a.total
      /\ UNCHANGED <<phase, plan, issued, opened, crashes, used>>
    BY DEF Deliver, MayDeliver, MayReserveBytes
<1>2. PICK ok \in Outcomes :
          /\ Persist(Written(store, n, ok))
          /\ IF ok
             THEN /\ actors' = (actors \ {a}) \cup {[a EXCEPT !.total = @ + 1]}
                  /\ delivered' = [delivered EXCEPT ![t] = @ + 1]
             ELSE UNCHANGED <<actors, delivered>>
    BY DEF Deliver
<1>3. /\ a \in Actor /\ t \in Threads /\ a.total \in Nat /\ a.total + 1 \in Nat /\ ok \in BOOLEAN
      /\ store.sessions[t] \in Record /\ store.sessions[t] # None
    BY <1>1, Facts DEF TypeOK, Actor, IsCurrent
<1>4. delivered[t] \in 0 .. Limit /\ delivered[t] <= a.total
    BY <1>1, <1>3, Facts DEF TypeOK, Covered
<1>5. /\ Sound(n) /\ n.sessions = [store.sessions EXCEPT ![t] = r]
      /\ IdOf(n.sessions[t]) = IdOf(store.sessions[t])
      /\ n.sessions[t].state = store.sessions[t].state /\ n.sessions[t].bytes = a.total + 1
      /\ n.sessions[t] \in Record
    BY <1>3, Facts, ReserveBytesIs
<1> HIDE DEF n, r, t
<1>6. (ok => Wrote(t, r)) /\ (~ok => Wrote(t, store.sessions[t]))
    BY <1>2, <1>3, <1>5, WroteMaybe
<1>7. TypeOK'
    <2>1. store' \in StoreValue /\ file' \in StoreValue BY <1>2, <1>3, <1>5, WritesSound
    <2>2. [a EXCEPT !.total = @ + 1] \in Actor BY <1>3 DEF Actor
    <2>3. actors' \subseteq Actor BY <1>2, <2>2, Facts DEF TypeOK
    <2>4. delivered' \in [Threads -> 0 .. Limit]
        <3>1. delivered[t] + 1 \in 0 .. Limit BY <1>1, <1>3, <1>4, Facts
        <3> QED BY <1>2, <3>1, Facts DEF TypeOK
    <2> QED BY <1>1, <2>1, <2>3, <2>4, Facts DEF TypeOK
<1>8. \A u \in Threads \ {t} : plan'[u] = plan[u] /\ delivered'[u] = delivered[u]
                              /\ (u \in opened' <=> u \in opened)
    BY <1>1, <1>2, Facts DEF TypeOK
<1>9. CASE ok
    <2>1. store' = n BY <1>2, <1>9 DEF Persist, Written
    <2>2. delivered'[t] = delivered[t] + 1 BY <1>2, <1>3, <1>9, Facts DEF TypeOK
    <2>3. n.sessions[t] # None BY <1>5, Facts
    <2>4. Planned(t)' BY <1>1, <1>3, <1>5, <2>1, <2>3, Facts DEF Planned, IsCurrent
    <2>5. Unopened(t)' BY <1>1, <1>3, Facts DEF Unopened
    <2>6. Covered(t)'
        <3>1. delivered[t] + 1 <= a.total + 1 BY <1>3, <1>4, Facts
        <3>2. store'.sessions[t].bytes = a.total + 1 BY <1>5, <2>1
        <3> QED BY <2>2, <3>1, <3>2 DEF Covered
    <2>7. Stays(t)
        <3>1. n.sessions[t].gen = store.sessions[t].gen BY <1>5 DEF IdOf
        <3>2. store.sessions[t].gen \in Nat BY <1>3 DEF Record
        <3> QED BY <2>1, <3>1, <3>2 DEF Stays
    <2> QED BY <1>1, <1>3, <1>6, <1>7, <1>8, <1>9, <2>4, <2>5, <2>6, <2>7, StepOfOne
<1>10. CASE ~ok
    <2>1. UNCHANGED delivered BY <1>2, <1>10
    <2> QED BY <1>1, <1>3, <1>6, <1>7, <1>10, <2>1, RecordKept
<1> QED BY <1>9, <1>10

-----------------------------------------------------------------------------
(* Dying and starting again.                                                *)

\* A step that writes nothing and leaves no plan.
LEMMA Unplanned ==
    ASSUME Inv, UNCHANGED <<store, file, opened, delivered>>, TypeOK',
           \A t \in Threads : plan'[t] = None
    PROVE  InOrder
<1>1. Sound(store)' /\ file' = store' BY Facts DEF Sound, Marked, Keyed
<1>2. ASSUME NEW t \in Threads PROVE Planned(t)' /\ Unopened(t)' /\ Covered(t)' /\ Stays(t)
    <2>1. store.sessions[t] \in Record \cup {None} BY Facts
    <2> QED BY <2>1, Facts DEF Planned, Unopened, Covered, Stays, Record
<1> QED BY <1>1, <1>2 DEF Inv, InOrder

LEMMA CrashKeeps == ASSUME Inv, Crash PROVE InOrder
<1>1. crashes' \in 0 .. MaxCrashes BY Facts DEF Crash, TypeOK
<1>2. TypeOK' BY <1>1, Facts DEF Crash, TypeOK
<1> QED BY <1>2, Unplanned DEF Crash

\* The process reads back what it had.
LEMMA LoadKeeps == ASSUME Inv, Load PROVE InOrder
<1>1. store' = store BY Facts, LoadedIs DEF Load
<1>2. TypeOK' BY <1>1, Facts DEF Load, TypeOK
<1>3. \A t \in Threads : plan'[t] = None BY Facts DEF Load, Planned
<1> QED BY <1>1, <1>2, <1>3, Unplanned DEF Load

LEMMA ReadyKeeps == ASSUME Inv, Ready PROVE InOrder
<1>1. TypeOK' BY Facts DEF Ready, TypeOK
<1>2. \A t \in Threads : plan'[t] = None BY Facts DEF Ready, Planned
<1> QED BY <1>1, <1>2, Unplanned DEF Ready

LEMMA OrphanKeeps == ASSUME Inv, NEW t \in Threads, Orphan(t) PROVE InOrder
<1>1. PICK ok \in Outcomes :
          /\ Persist(Written(store, SetState(store, t, "orphaned"), ok))
          /\ phase' = IF ok THEN "booting" ELSE "down"
    BY DEF Orphan
<1>2. /\ phase = "booting" /\ store.sessions[t] # None
      /\ UNCHANGED <<plan, actors, issued, opened, delivered, crashes, used>>
    BY DEF Orphan, Interrupted
<1>3. ok \in BOOLEAN /\ "orphaned" \in States /\ plan[t] = None
    BY <1>2, Facts DEF States, Planned
<1>4. TypeOK' BY <1>1, <1>2, <1>3, Facts, SetStateIs, WritesSound DEF TypeOK
<1> QED BY <1>1, <1>2, <1>3, <1>4, StateMayChange

LEMMA ResumeKeeps == ASSUME Inv, NEW t \in Threads, Resume(t) PROVE InOrder
<1>1. PICK ok \in Outcomes :
          /\ Persist(Written(store, Commit(store, t), ok))
          /\ IF ok THEN Enter(t, IdOf(store.sessions[t]), store.sessions[t].bytes)
                   ELSE UNCHANGED actors
    BY DEF Resume
<1>2. /\ phase = "booting" /\ store.sessions[t] # None
      /\ UNCHANGED <<phase, plan, issued, opened, delivered, crashes, used>>
    BY DEF Resume
<1>3. ok \in BOOLEAN /\ "active" \in States /\ plan[t] = None /\ store.sessions[t] \in Record
    BY <1>2, Facts DEF States, Planned
<1>4. actors' \subseteq Actor
    BY <1>1, <1>3, Facts DEF TypeOK, Enter, Actor, Identity, IdOf, Record
<1>5. Sound(Commit(store, t)) BY <1>2, <1>3, Facts, SetStateIs DEF Commit
<1>6. store' \in StoreValue /\ file' \in StoreValue BY <1>1, <1>3, <1>5, WritesSound
<1>7. TypeOK' BY <1>2, <1>4, <1>6, Facts DEF TypeOK
<1> QED BY <1>1, <1>2, <1>3, <1>7, StateMayChange DEF Commit

-----------------------------------------------------------------------------
(* The generations.                                                         *)

\* The mark covers every generation a thread was ever given, and a thread that
\* `/new` has not reserved yet was given none.
Numbered ==
    /\ \A x \in used : x.id.gen <= store.high
    /\ \A t \in Threads :
          t \notin opened \/ (plan[t] # None /\ ~plan[t].reserved) => \A x \in used : x.thread # t

\* A step that keeps to that, and gives no thread a generation again.
StaysNumbered ==
    /\ Numbered'
    /\ \A new \in used' \ used : \A old \in used :
          old.thread = new.thread => old.id.gen < new.id.gen

\* No operation of the store lowers the mark; a reservation covers its own generation.
LEMMA MarksRise ==
    ASSUME NEW s, Sound(s), NEW t \in Threads
    PROVE  /\ s.high \in Nat
           /\ \A state : SetState(s, t, state).high = s.high
           /\ Commit(s, t).high = s.high
           /\ Remove(s, t).high = s.high
           /\ \A next : ReserveBytes(s, t, next).high = s.high
           /\ \A id : RemoveStale(s, t, id).high = s.high
           /\ \A r \in Record : /\ Reserve(s, t, r).high \in Nat
                                /\ Reserve(s, t, r).high >= s.high /\ Reserve(s, t, r).high >= r.gen
                                /\ Restore(s, t, r).high >= s.high
                                /\ RetainStale(s, t, r).high >= s.high
<1>1. s \in StoreValue /\ s.high \in Nat BY DEF Sound, StoreValue
<1>2. \A g \in Nat : Larger(s.high, g) \in Nat /\ Larger(s.high, g) >= s.high /\ Larger(s.high, g) >= g
    BY <1>1, LargerIs
<1>3. /\ \A state : SetState(s, t, state).high = s.high
      /\ Remove(s, t).high = s.high
      /\ \A next : ReserveBytes(s, t, next).high = s.high
    BY <1>1 DEF SetState, Remove, ReserveBytes, StoreValue
<1>4. \A id : RemoveStale(s, t, id).high = s.high
    BY WithoutStaleIs DEF RemoveStale
<1>5. ASSUME NEW r \in Record
      PROVE  /\ Reserve(s, t, r).high \in Nat
             /\ Reserve(s, t, r).high >= s.high /\ Reserve(s, t, r).high >= r.gen
             /\ Restore(s, t, r).high >= s.high
             /\ RetainStale(s, t, r).high >= s.high
    <2>1. r.gen \in Nat BY DEF Record
    <2>2. \A q : WithPrimary(s, t, q).high = Larger(s.high, q.gen)
        BY <1>1 DEF WithPrimary, StoreValue
    <2>3. [r EXCEPT !.state = "creating"].gen = r.gen /\ Restored(s, t, r).gen = r.gen
        BY DEF Record, Restored
    <2>4. Reserve(s, t, r).high = Larger(s.high, r.gen) /\ Restore(s, t, r).high = Larger(s.high, r.gen)
        BY <2>2, <2>3 DEF Reserve, Restore
    <2>5. RetainStale(s, t, r).high = Larger(s.high, r.gen)
        <3>1. RemoveStale(s, t, IdOf(r)) \in StoreValue BY RemoveStaleIs DEF Sound
        <3> HIDE DEF RemoveStale
        <3> QED BY <3>1 DEF RetainStale, StoreValue
    <2> QED BY <1>2, <2>1, <2>4, <2>5
<1> QED BY <1>1, <1>3, <1>4, <1>5 DEF Commit

\* A step that gives no thread a generation.
LEMMA NothingGiven ==
    ASSUME Inv, Numbered, used' = used, store'.high \in Nat, store'.high >= store.high,
           opened \subseteq opened',
           \A t \in Threads : plan'[t] # None /\ ~plan'[t].reserved =>
               t \notin opened \/ (plan[t] # None /\ ~plan[t].reserved)
    PROVE  StaysNumbered
<1>1. \A x \in used : x.id.gen \in Nat BY Facts DEF TypeOK, Incarnation, Identity
<1>2. store.high \in Nat BY Facts
<1>3. \A x \in used' : x.id.gen <= store'.high BY <1>1, <1>2 DEF Numbered
<1> QED BY <1>3 DEF Numbered, StaysNumbered

\* A reservation gives one.
LEMMA OneGiven ==
    ASSUME Inv, Numbered, NEW t \in Threads, NEW id \in Identity, Use(t, id), t \in opened,
           store'.high \in Nat, store'.high >= store.high, id.gen <= store'.high,
           \A old \in used : old.thread = t => old.id.gen < id.gen,
           UNCHANGED opened, plan'[t].reserved, \A u \in Threads \ {t} : plan'[u] = plan[u]
    PROVE  StaysNumbered
<1> DEFINE new == [thread |-> t, id |-> id]
<1>1. used' = used \cup {new} /\ new.thread = t /\ new.id = id BY DEF Use
<1> HIDE DEF new
<1>2. \A x \in used : x.id.gen \in Nat BY Facts DEF TypeOK, Incarnation, Identity
<1>3. store.high \in Nat BY Facts
<1>4. \A x \in used' : x.id.gen <= store'.high BY <1>1, <1>2, <1>3 DEF Numbered
<1>5. ASSUME NEW u \in Threads, u \notin opened' \/ (plan'[u] # None /\ ~plan'[u].reserved),
             NEW x \in used'
      PROVE  x.thread # u
    <2>1. u # t BY <1>5
    <2> QED BY <1>1, <1>5, <2>1 DEF Numbered
<1> QED BY <1>1, <1>4, <1>5 DEF Numbered, StaysNumbered

\* The writes of a step, which may fail.
LEMMA MarkAfter ==
    ASSUME Inv, NEW n, NEW ok \in BOOLEAN, Persist(Written(store, n, ok)), n.high \in Nat, n.high >= store.high
    PROVE  store'.high \in Nat /\ store'.high >= store.high /\ (ok => store' = n)
BY Facts DEF Persist, Written

\* The generation of a rebind's target is drawn and reserved in one step.
LEMMA RebindReserveNumbered ==
    ASSUME Inv, Numbered, NEW t \in Threads, RebindReserve(t) PROVE StaysNumbered
<1> DEFINE prev == store.sessions[t]
           id(sid) == [sid |-> sid, gen |-> NextGeneration(store)]
           retained(kept) == Written(store, RetainStale(store, t, prev), kept)
           fresh(sid, b) == Target(t, id(sid), prev, b)
           target(sid, b, kept, reserved) ==
               Written(retained(kept), Reserve(retained(kept), t, fresh(sid, b)), kept /\ reserved)
           settled(sid, b, kept, reserved, undone) ==
               Written(target(sid, b, kept, reserved),
                       RemoveStale(target(sid, b, kept, reserved), t, IdOf(prev)),
                       kept /\ ~reserved /\ undone)
<1>1. UNCHANGED opened /\ plan[t] = None /\ prev # None
    BY DEF RebindReserve, MayRebind, Live, IsCurrent
<1>2. PICK sid \in Sids, b \in Binds, kept, reserved, undone \in Outcomes :
          /\ Persist(settled(sid, b, kept, reserved, undone))
          /\ IF kept /\ reserved
             THEN /\ plan' = [plan EXCEPT ![t] = [id |-> id(sid), prev |-> prev,
                                                  reserved |-> TRUE, ended |-> FALSE]]
                  /\ Use(t, id(sid))
             ELSE UNCHANGED <<plan, used>>
    BY DEF RebindReserve
<1> DEFINE m == retained(kept)
           g == target(sid, b, kept, reserved)
           n == settled(sid, b, kept, reserved, undone)
<1>3. prev \in Record /\ t \in opened /\ NextGeneration(store) \in Nat \ {0} /\ store.high \in Nat
    BY <1>1, Facts, NextGenerationIs DEF Unopened
<1>4. fresh(sid, b) \in Record /\ fresh(sid, b).gen = NextGeneration(store) /\ id(sid) \in Identity
    BY <1>3 DEF Target, NewRecord, Record, States, Identity
<1>5. Sound(m) /\ m.high \in Nat /\ m.high >= store.high
    BY <1>3, Facts, RetainStaleIs, MarksRise DEF Written, Sound, StoreValue
<1> HIDE DEF m
<1>6. Sound(Reserve(m, t, fresh(sid, b)))
    <2>1. [fresh(sid, b) EXCEPT !.state = "creating"] \in Record BY <1>4 DEF Record, States
    <2> QED BY <1>5, <2>1, WithPrimaryIs DEF Reserve
<1>7. /\ Sound(g) /\ g.high \in Nat /\ g.high >= m.high
      /\ kept /\ reserved => g.high >= NextGeneration(store)
    BY <1>4, <1>5, <1>6, MarksRise DEF Written, m
<1> HIDE DEF g
<1>8. n.high = g.high
    BY <1>7, MarksRise DEF Written, g
<1> HIDE DEF n
<1>9. store' = n BY <1>2 DEF Persist, n
<1>10. store'.high \in Nat /\ store'.high >= store.high BY <1>3, <1>5, <1>7, <1>8, <1>9
<1>11. CASE kept /\ reserved
    <2>1. plan'[t].reserved /\ \A u \in Threads \ {t} : plan'[u] = plan[u]
        BY <1>2, <1>11, Facts DEF TypeOK
    <2>2. id(sid).gen = NextGeneration(store) /\ NextGeneration(store) <= store'.high
        BY <1>3, <1>7, <1>8, <1>9, <1>11
    <2>3. \A old \in used : old.id.gen < NextGeneration(store)
        <3>1. \A old \in used : old.id.gen \in Nat /\ old.id.gen <= store.high
            BY Facts DEF Numbered, TypeOK, Incarnation, Identity
        <3> QED BY <1>3, <3>1 DEF NextGeneration
    <2>4. Use(t, id(sid)) BY <1>2, <1>11
    <2> HIDE DEF id
    <2> QED BY <1>1, <1>3, <1>4, <1>10, <2>1, <2>2, <2>3, <2>4, OneGiven
<1>12. CASE ~(kept /\ reserved)
    <2>1. UNCHANGED <<plan, used>> BY <1>2, <1>12
    <2> QED BY <1>1, <1>10, <2>1, NothingGiven
<1> QED BY <1>11, <1>12

\* A rollback brings the old record back under the mark of the target.
LEMMA RebindFailsNumbered ==
    ASSUME Inv, Numbered, NEW t \in Threads, RebindFails(t) PROVE StaysNumbered
<1> DEFINE prev == plan[t].prev
           may(back) == IsCurrent(store, t, plan[t].id) /\ back
           restored(back) == Written(store, Restore(store, t, prev), may(back))
           n(back, dropped) ==
               Written(restored(back), RemoveStale(restored(back), t, IdOf(prev)), may(back) /\ dropped)
<1>1. /\ plan[t] # None /\ prev # None /\ plan' = [plan EXCEPT ![t] = None]
      /\ UNCHANGED <<opened, used>>
    BY DEF RebindFails, Rebinding
<1>2. PICK back, dropped \in Outcomes : Persist(n(back, dropped))
    BY DEF RebindFails
<1>3. prev \in Record /\ store.high \in Nat
    BY <1>1, Facts DEF TypeOK, Plan
<1>4. CASE ~may(back)
    <2>1. store' = store BY <1>2, <1>4 DEF Persist, Written
    <2> QED BY <1>1, <1>3, <2>1, NothingGiven, Facts DEF TypeOK
<1>5. CASE may(back)
    <2>1. store.sessions[t] \in Record BY <1>5, Facts DEF IsCurrent
    <2>2. Restored(store, t, prev) \in Record
        BY <1>3, <2>1, LargerIs DEF Restored, Record
    <2>3. Sound(Restore(store, t, prev)) /\ Restore(store, t, prev).high >= store.high
        BY <1>3, <2>2, Facts, WithPrimaryIs, MarksRise DEF Restore
    <2>4. RemoveStale(Restore(store, t, prev), t, IdOf(prev)).high = Restore(store, t, prev).high
        BY <2>3, MarksRise
    <2>5. store'.high = Restore(store, t, prev).high
        BY <1>2, <1>5, <2>4 DEF Persist, Written
    <2>6. store'.high \in Nat /\ store'.high >= store.high
        BY <2>3, <2>5 DEF Sound, StoreValue
    <2> QED BY <1>1, <2>6, NothingGiven, Facts DEF TypeOK
<1> QED BY <1>4, <1>5

LEMMA NumberedStep == Inv /\ Numbered /\ [Next]_vars => StaysNumbered
<1> SUFFICES ASSUME Inv, Numbered, [Next]_vars PROVE StaysNumbered
    OBVIOUS
<1> USE Facts
<1>0. store.high \in Nat /\ store.high >= store.high OBVIOUS
<1>1. CASE UNCHANGED vars BY <1>0, <1>1, NothingGiven DEF vars
<1>2. ASSUME NEW t \in Threads, NewIdentity(t) PROVE StaysNumbered
    BY <1>0, <1>2, NothingGiven DEF NewIdentity, TypeOK
<1>3. ASSUME NEW t \in Threads, NewReserve(t) PROVE StaysNumbered
    <2>1. /\ plan[t] # None /\ ~plan[t].reserved /\ UNCHANGED opened /\ t \in opened
          /\ plan[t] \in Plan /\ plan[t].id \in Identity
        BY <1>3 DEF NewReserve, Unopened, TypeOK, Plan
    <2>2. PICK ok \in Outcomes, b \in Binds :
              /\ Persist(Written(store, Reserve(store, t, NewRecord(plan[t].id, 0, b)), ok))
              /\ plan' = [plan EXCEPT ![t] = IF ok THEN [@ EXCEPT !.reserved = TRUE] ELSE None]
              /\ IF ok THEN Use(t, plan[t].id) ELSE UNCHANGED used
        BY <1>3 DEF NewReserve
    <2> DEFINE r == NewRecord(plan[t].id, 0, b)
    <2>3. r \in Record /\ r.gen = plan[t].id.gen BY <2>1 DEF NewRecord, Record, States, Identity
    <2>4. Reserve(store, t, r).high \in Nat /\ Reserve(store, t, r).high >= store.high
          /\ Reserve(store, t, r).high >= r.gen
        BY <2>3, MarksRise
    <2>5. store'.high \in Nat /\ store'.high >= store.high /\ (ok => store' = Reserve(store, t, r))
        BY <2>2, <2>4, MarkAfter
    <2>6. \A u \in Threads \ {t} : plan'[u] = plan[u] BY <2>2 DEF TypeOK
    <2> HIDE DEF r
    <2>7. CASE ok
        <3>1. plan'[t].reserved BY <2>1, <2>2, <2>7 DEF TypeOK, Plan
        <3>2. plan[t].id.gen <= store'.high
            <4>1. plan[t].id.gen \in Nat BY <2>1 DEF Identity
            <4> QED BY <2>3, <2>4, <2>5, <2>7, <4>1
        <3>3. \A old \in used : old.thread # t BY <2>1 DEF Numbered
        <3> QED BY <2>1, <2>2, <2>5, <2>6, <2>7, <3>1, <3>2, <3>3, OneGiven
    <2>8. CASE ~ok
        <3>1. used' = used /\ plan'[t] = None BY <2>2, <2>8 DEF TypeOK
        <3> QED BY <2>1, <2>5, <2>6, <3>1, NothingGiven
    <2> QED BY <2>7, <2>8
<1>4. ASSUME NEW t \in Threads, NewAborts(t) \/ NewFails(t) PROVE StaysNumbered
    BY <1>0, <1>4, NothingGiven DEF NewAborts, NewFails, TypeOK
<1>5. ASSUME NEW t \in Threads, RebindReserve(t) PROVE StaysNumbered
    BY <1>5, RebindReserveNumbered
<1>6. ASSUME NEW t \in Threads, RebindFails(t) PROVE StaysNumbered
    BY <1>6, RebindFailsNumbered
<1>7. ASSUME NEW t \in Threads, NewCommit(t) \/ RebindCommit(t) \/ Orphan(t) \/ Resume(t)
      PROVE  StaysNumbered
    <2>1. store'.high = store.high
        <3>1. \A state, ok : Written(store, SetState(store, t, state), ok).high = store.high
            BY MarksRise DEF Written
        <3> QED BY <1>7, <3>1 DEF NewCommit, RebindCommit, Orphan, Resume, Commit, Persist, Written
    <2>2. UNCHANGED <<used, opened>> /\ \A u \in Threads : plan'[u] = plan[u] \/ plan'[u] = None
        BY <1>7 DEF NewCommit, RebindCommit, PlanAfterCommit, Orphan, Resume, TypeOK
    <2> QED BY <1>0, <2>1, <2>2, NothingGiven
<1>8. ASSUME NEW t \in Threads, RebindAbandons(t) \/ End(t) \/ EndStale(t) PROVE StaysNumbered
    <2>1. store'.high = store.high
        BY <1>8, MarksRise DEF RebindAbandons, End, EndStale, Write, Persist, Written
    <2>2. UNCHANGED <<used, opened>> /\ \A u \in Threads : plan'[u] = plan[u] \/ plan'[u] = None
        BY <1>8 DEF RebindAbandons, End, EndStale, TypeOK
    <2> QED BY <1>0, <2>1, <2>2, NothingGiven
<1>9. ASSUME NEW t \in Threads, EndDuringRebind(t) PROVE StaysNumbered
    <2>1. store'.high = store.high
        BY <1>9, MarksRise DEF EndDuringRebind, Write, Persist, Written
    <2>2. /\ UNCHANGED <<used, opened>> /\ plan[t] \in Plan
          /\ plan' = [plan EXCEPT ![t].ended = TRUE]
        BY <1>9 DEF EndDuringRebind, Rebinding, TypeOK
    <2>3. \A u \in Threads : plan'[u] = plan[u] \/ (plan[u] # None /\ plan'[u].reserved = plan[u].reserved)
        BY <1>9, <2>2 DEF EndDuringRebind, Rebinding, TypeOK, Plan
    <2> QED BY <1>0, <2>1, <2>2, <2>3, NothingGiven
<1>10. ASSUME NEW a \in actors, OldGone(a) PROVE StaysNumbered
    <2>1. a.thread \in Threads BY DEF TypeOK, Actor
    <2>2. store'.high = store.high
        BY <1>10, <2>1, MarksRise DEF OldGone, Write, Persist, Written
    <2> QED BY <1>0, <1>10, <2>2, NothingGiven DEF OldGone
<1>11. ASSUME NEW a \in actors, Deliver(a) PROVE StaysNumbered
    <2>1. a.thread \in Threads BY DEF TypeOK, Actor
    <2>2. store'.high = store.high
        BY <1>11, <2>1, MarksRise DEF Deliver, Persist, Written
    <2> QED BY <1>0, <1>11, <2>2, NothingGiven DEF Deliver
<1>12. CASE Crash
    <2>1. \A t \in Threads : plan'[t] = None BY <1>12 DEF Crash
    <2> QED BY <1>0, <1>12, <2>1, NothingGiven DEF Crash
<1>13. CASE Load
    <2>1. store' = store BY <1>13, LoadedIs DEF Load
    <2> QED BY <1>0, <1>13, <2>1, NothingGiven DEF Load
<1>14. CASE Ready BY <1>0, <1>14, NothingGiven DEF Ready
<1> QED BY <1>1, <1>2, <1>3, <1>4, <1>5, <1>6, <1>7, <1>8, <1>9, <1>10, <1>11, <1>12, <1>13, <1>14 DEF Next

-----------------------------------------------------------------------------
(* The theorems.                                                            *)

LEMMA InvInit == ASSUME Init PROVE Inv
<1>1. EmptyStore \in StoreValue BY DEF EmptyStore, StoreValue
<1>2. Sound(EmptyStore)
    <2>1. /\ EmptyStore.stale = {} /\ \A t \in Threads : EmptyStore.sessions[t] = None
        BY DEF EmptyStore
    <2> HIDE DEF EmptyStore
    <2> QED BY <1>1, <2>1 DEF Sound, Marked, Keyed
<1>3. 0 \in 0 .. Limit /\ 0 \in 0 .. MaxCrashes BY RecordsAssumption
<1>4. TypeOK
    <2>1. plan \in [Threads -> Plan \cup {None}] /\ delivered \in [Threads -> 0 .. Limit]
        BY <1>3 DEF Init
    <2> QED BY <1>1, <1>3, <2>1 DEF Init, TypeOK
<1>5. \A t \in Threads : Planned(t) /\ Unopened(t) /\ Covered(t)
    BY DEF Init, Planned, Unopened, Covered, EmptyStore
<1> QED BY <1>2, <1>4, <1>5 DEF Inv, Init

LEMMA Stutters == ASSUME Inv, UNCHANGED vars PROVE InOrder
<1>1. Inv' BY DEF Inv, vars, TypeOK, Planned, Unopened, Covered, IsCurrent, Sound, Marked, Keyed
<1>2. \A t \in Threads : Stays(t) BY Facts DEF Stays, vars, Record
<1> QED BY <1>1, <1>2 DEF InOrder

LEMMA Steps == ASSUME Inv, [Next]_vars PROVE InOrder
<1>1. CASE UNCHANGED vars BY <1>1, Stutters
<1>2. ASSUME NEW t \in Threads, NewIdentity(t) PROVE InOrder BY <1>2, NewIdentityKeeps
<1>3. ASSUME NEW t \in Threads, NewReserve(t) PROVE InOrder BY <1>3, NewReserveKeeps
<1>4. ASSUME NEW t \in Threads, NewAborts(t) \/ NewFails(t) PROVE InOrder BY <1>4, NewEndsKeeps
<1>5. ASSUME NEW t \in Threads, NewCommit(t) PROVE InOrder BY <1>5, NewCommitKeeps
<1>6. ASSUME NEW t \in Threads, RebindReserve(t) PROVE InOrder BY <1>6, RebindReserveKeeps
<1>7. ASSUME NEW t \in Threads, RebindCommit(t) PROVE InOrder BY <1>7, RebindCommitKeeps
<1>8. ASSUME NEW t \in Threads, RebindFails(t) PROVE InOrder BY <1>8, RebindFailsKeeps
<1>9. ASSUME NEW t \in Threads, RebindAbandons(t) PROVE InOrder BY <1>9, RebindAbandonsKeeps
<1>10. ASSUME NEW t \in Threads, End(t) PROVE InOrder BY <1>10, EndKeeps
<1>11. ASSUME NEW t \in Threads, EndStale(t) PROVE InOrder BY <1>11, EndStaleKeeps
<1>12. ASSUME NEW t \in Threads, EndDuringRebind(t) PROVE InOrder BY <1>12, EndDuringRebindKeeps
<1>13. ASSUME NEW t \in Threads, Orphan(t) PROVE InOrder BY <1>13, OrphanKeeps
<1>14. ASSUME NEW t \in Threads, Resume(t) PROVE InOrder BY <1>14, ResumeKeeps
<1>15. ASSUME NEW a \in actors, OldGone(a) PROVE InOrder BY <1>15, OldGoneKeeps
<1>16. ASSUME NEW a \in actors, Deliver(a) PROVE InOrder BY <1>16, DeliverKeeps
<1>17. CASE Crash BY <1>17, CrashKeeps
<1>18. CASE Load BY <1>18, LoadKeeps
<1>19. CASE Ready BY <1>19, ReadyKeeps
<1> QED BY <1>1, <1>2, <1>3, <1>4, <1>5, <1>6, <1>7, <1>8, <1>9, <1>10, <1>11, <1>12, <1>13,
           <1>14, <1>15, <1>16, <1>17, <1>18, <1>19 DEF Next

\* The store is sound and every plan has its reservation, in every state.
THEOREM InvHolds == Spec => []Inv
<1>1. Init => Inv BY InvInit
<1>2. Inv /\ [Next]_vars => Inv' BY Steps DEF InOrder
<1> QED BY <1>1, <1>2, PTL DEF Spec

\* nextGeneration over the mark that every write carries and load reads back: each
\* incarnation of a thread has a greater generation than all it had before, those
\* included of which the file says nothing any more.
THEOREM GenerationsOnlyAdvance == Spec => GenerationsAdvance
<1>1. Init => Numbered BY DEF Init, Numbered
<1>2. Inv /\ Numbered /\ [Next]_vars => Numbered' BY NumberedStep DEF StaysNumbered
<1>3. Inv /\ Numbered /\ [Next]_vars =>
          [\A new \in used' \ used : \A old \in used :
              old.thread = new.thread => old.id.gen < new.id.gen]_vars
    BY NumberedStep DEF StaysNumbered
<1> QED BY <1>1, <1>2, <1>3, InvHolds, PTL DEF Spec, GenerationsAdvance

\* reserveAttachmentBytes, reserve, restore and the load of the next process: a
\* thread's bytes survive all of them, so no restart or rebind renews its budget.
THEOREM BudgetsAreKept == Spec => []BudgetCovered
<1>1. Inv => BudgetCovered
    <2> SUFFICES ASSUME Inv, NEW t \in Threads
                 PROVE  delivered[t] <= Limit /\ Covered(t)
        BY DEF BudgetCovered, Covered
    <2>1. delivered[t] \in 0 .. Limit BY Facts DEF TypeOK
    <2> QED BY <2>1, Facts
<1> QED BY <1>1, InvHolds, PTL

\* rollbackFailedRebindCommit and the fallback of a failed creation: an older
\* record is written back over a reservation and over nothing else.
THEOREM CommitsStay == Spec => CommittedStays
<1>1. Inv /\ [Next]_vars =>
          [\A t \in Threads :
              LET old == store.sessions[t]
                  new == store'.sessions[t]
              IN old # None /\ new # None /\ new.gen < old.gen => old.state = "creating"]_vars
    BY Steps DEF InOrder, Stays
<1> QED BY <1>1, InvHolds, PTL DEF Spec, CommittedStays
=============================================================================
