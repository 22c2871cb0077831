------------------------ MODULE RebindCoordinatorProofs ------------------------
(***************************************************************************)
(* What RebindCoordinator promises for any sessions, bindings and          *)
(* worktrees.  First what the operations of the store do to the thread's   *)
(* slot and its rows, and that everything the transactions remember names  *)
(* an incarnation there has been.  Then, one upon the other: every runtime *)
(* that may be running is somebody's, and every one has its row; as long   *)
(* as the store can be written, the slot settles, what `/end` decided      *)
(* stands, and no worktree is pulled from under a runtime.  Last, types.   *)
(***************************************************************************)
EXTENDS RebindCoordinator, TLAPS

-----------------------------------------------------------------------------
(* The operations of the store, for one thread.                             *)

Slot(s) == s.sessions[Thread]

StoreShape(s) ==
    /\ s = [sessions |-> s.sessions, stale |-> s.stale, high |-> s.high]
    /\ s.sessions \in [Threads -> Record \cup {None}] /\ s.high \in Nat

\* Two records of one incarnation.
Like(x, r) == x.sid = r.sid /\ x.gen = r.gen /\ x.bind = r.bind

LEMMA SlotIs ==
    ASSUME NEW s, StoreShape(s)
    PROVE  Slot(s) \in Record \cup {None} /\ None \notin Record /\ Thread \in Threads
  BY RebindAssumption DEF StoreShape, Slot

LEMMA RecordIs ==
    ASSUME NEW r \in Record
    PROVE  /\ r.sid \in Sids /\ r.gen \in Nat \ {0} /\ r.state \in States /\ r.bytes \in Nat
           /\ r.bind \in Binds /\ r # None /\ Like(r, r) /\ IdOf(r) \in Identity
  BY RebindAssumption DEF Record, Like, IdOf, Identity

LEMMA WithPrimaryIs ==
    ASSUME NEW s, StoreShape(s), NEW r \in Record
    PROVE  LET n == WithPrimary(s, Thread, r) IN
           StoreShape(n) /\ Slot(n) = r /\ n.stale = s.stale
<1> DEFINE n == WithPrimary(s, Thread, r)
<1>1. Larger(s.high, r.gen) \in Nat
  BY RecordIs DEF Larger, StoreShape
<1>2. n = [s EXCEPT !.sessions = [s.sessions EXCEPT ![Thread] = r], !.high = Larger(s.high, r.gen)]
  BY DEF WithPrimary, StoreShape
<1>3. /\ n = [sessions |-> [s.sessions EXCEPT ![Thread] = r], stale |-> s.stale,
              high |-> Larger(s.high, r.gen)]
  BY <1>2 DEF StoreShape
<1>4. [s.sessions EXCEPT ![Thread] = r] \in [Threads -> Record \cup {None}]
  BY DEF StoreShape
<1> HIDE DEF n
<1>5. StoreShape(n) /\ n.stale = s.stale
  BY <1>1, <1>3, <1>4 DEF StoreShape
<1>6. Slot(n) = r
  BY <1>3, SlotIs DEF Slot, StoreShape
<1> QED
  BY <1>5, <1>6 DEF n

LEMMA SetStateIs ==
    ASSUME NEW s, StoreShape(s), Slot(s) # None, NEW state \in States
    PROVE  LET n == SetState(s, Thread, state) IN
           /\ StoreShape(n) /\ n.stale = s.stale /\ Slot(n) \in Record
           /\ Like(Slot(n), Slot(s)) /\ Slot(n).state = state
<1> DEFINE n == SetState(s, Thread, state)
           r == [Slot(s) EXCEPT !.state = state]
<1>1. Slot(s) \in Record
  BY SlotIs
<1>2. r \in Record /\ Like(r, Slot(s)) /\ r.state = state
  BY <1>1 DEF Record, Like
<1>3. n = [s EXCEPT !.sessions = [s.sessions EXCEPT ![Thread] = r]]
  BY DEF SetState, StoreShape, Slot
<1> HIDE DEF r
<1>4. n = [sessions |-> [s.sessions EXCEPT ![Thread] = r], stale |-> s.stale, high |-> s.high]
  BY <1>3 DEF StoreShape
<1>5. [s.sessions EXCEPT ![Thread] = r] \in [Threads -> Record \cup {None}]
  BY <1>2 DEF StoreShape
<1> HIDE DEF n
<1>6. StoreShape(n) /\ n.stale = s.stale
  BY <1>4, <1>5 DEF StoreShape
<1>7. Slot(n) = r
  BY <1>4, SlotIs DEF Slot, StoreShape
<1> QED
  BY <1>2, <1>6, <1>7 DEF n

LEMMA RemoveIs ==
    ASSUME NEW s, StoreShape(s)
    PROVE  LET n == Remove(s, Thread) IN
           StoreShape(n) /\ Slot(n) = None /\ n.stale = s.stale
<1> DEFINE n == Remove(s, Thread)
<1>1. n = [s EXCEPT !.sessions = [s.sessions EXCEPT ![Thread] = None]]
  BY DEF Remove
<1>2. n = [sessions |-> [s.sessions EXCEPT ![Thread] = None], stale |-> s.stale, high |-> s.high]
  BY <1>1 DEF StoreShape
<1>3. [s.sessions EXCEPT ![Thread] = None] \in [Threads -> Record \cup {None}]
  BY DEF StoreShape
<1> HIDE DEF n
<1>4. StoreShape(n) /\ n.stale = s.stale
  BY <1>2, <1>3 DEF StoreShape
<1>5. Slot(n) = None
  BY <1>2, SlotIs DEF Slot, StoreShape
<1> QED
  BY <1>4, <1>5 DEF n

\* restoreIfCurrent keeps the larger byte total, and with it the record.
LEMMA RestoredIs ==
    ASSUME NEW s, StoreShape(s), Slot(s) # None, NEW r \in Record
    PROVE  LET n == Restored(s, Thread, r) IN
           n \in Record /\ Like(n, r) /\ n.state = r.state
<1> DEFINE n == Restored(s, Thread, r)
<1>1. Slot(s) \in Record /\ r.bytes \in Nat
  BY SlotIs, RecordIs
<1>2. Larger(r.bytes, s.sessions[Thread].bytes) \in Nat
  BY <1>1, RecordIs DEF Larger, Slot
<1>3. n = [r EXCEPT !.bytes = Larger(r.bytes, s.sessions[Thread].bytes)]
  BY DEF Restored
<1>4. ASSUME NEW b \in Nat
      PROVE  [r EXCEPT !.bytes = b] \in Record /\ Like([r EXCEPT !.bytes = b], r)
             /\ [r EXCEPT !.bytes = b].state = r.state
  BY DEF Record, Like
<1> HIDE DEF n
<1> QED
  BY <1>2, <1>3, <1>4 DEF n

LEMMA RestoreIs ==
    ASSUME NEW s, StoreShape(s), Slot(s) # None, NEW r \in Record
    PROVE  LET n == Restore(s, Thread, r) IN
           /\ StoreShape(n) /\ n.stale = s.stale /\ Slot(n) \in Record
           /\ Like(Slot(n), r) /\ Slot(n).state = r.state
  BY RestoredIs, WithPrimaryIs DEF Restore

LEMMA ReserveIs ==
    ASSUME NEW s, StoreShape(s), NEW r \in Record
    PROVE  LET n == Reserve(s, Thread, r) IN
           /\ StoreShape(n) /\ n.stale = s.stale /\ Slot(n) \in Record
           /\ Like(Slot(n), r) /\ Slot(n).state = "creating"
<1>1. "creating" \in States
  BY DEF States
<1>2. /\ [r EXCEPT !.state = "creating"] \in Record
      /\ Like([r EXCEPT !.state = "creating"], r)
      /\ [r EXCEPT !.state = "creating"].state = "creating"
  BY <1>1 DEF Record, Like
<1> QED
  BY <1>2, WithPrimaryIs DEF Reserve

LEMMA WithoutStaleIs ==
    ASSUME NEW s, StoreShape(s), NEW ids
    PROVE  LET n == WithoutStale(s, Thread, ids) IN
           /\ StoreShape(n) /\ Slot(n) = Slot(s)
           /\ n.stale = {row \in s.stale : row.thread # Thread \/ IdOf(row) \notin ids}
<1> DEFINE n == WithoutStale(s, Thread, ids)
           rows == {row \in s.stale : row.thread # Thread \/ IdOf(row) \notin ids}
<1>1. n = [s EXCEPT !.stale = rows]
  BY DEF WithoutStale
<1> HIDE DEF rows
<1>2. n = [sessions |-> s.sessions, stale |-> rows, high |-> s.high]
  BY <1>1 DEF StoreShape
<1> HIDE DEF n
<1>3. StoreShape(n) /\ Slot(n) = Slot(s) /\ n.stale = rows
  BY <1>2 DEF StoreShape, Slot
<1> QED
  BY <1>3 DEF n, rows

\* retainStaleRebind: one row of this incarnation, the others as they were.
LEMMA RetainStaleIs ==
    ASSUME NEW s, StoreShape(s), NEW r \in Record
    PROVE  LET n == RetainStale(s, Thread, r) IN
           /\ StoreShape(n) /\ Slot(n) = Slot(s)
           /\ \E row : /\ row.thread = Thread /\ Like(row, r)
                       /\ n.stale = {x \in s.stale : x.thread # Thread \/ IdOf(x) \notin {IdOf(r)}}
                                    \cup {row}
<1> DEFINE n == RetainStale(s, Thread, r)
           m == WithoutStale(s, Thread, {IdOf(r)})
<1>1. PICK bytes : n = [m EXCEPT !.stale = @ \cup {[thread |-> Thread, sid |-> r.sid, gen |-> r.gen,
                                                    bytes |-> bytes, bind |-> r.bind]},
                                 !.high = Larger(s.high, r.gen)]
  BY DEF RetainStale, RemoveStale
<1> DEFINE row == [thread |-> Thread, sid |-> r.sid, gen |-> r.gen, bytes |-> bytes, bind |-> r.bind]
<1>2. row.thread = Thread /\ Like(row, r)
  BY DEF Like
<1> HIDE DEF row
<1>3. /\ StoreShape(m) /\ Slot(m) = Slot(s)
      /\ m.stale = {x \in s.stale : x.thread # Thread \/ IdOf(x) \notin {IdOf(r)}}
  BY WithoutStaleIs
<1>4. Larger(s.high, r.gen) \in Nat
  BY RecordIs DEF Larger, StoreShape
<1>5. n = [m EXCEPT !.stale = m.stale \cup {row}, !.high = Larger(s.high, r.gen)]
  BY <1>1 DEF row
<1> HIDE DEF n, m
<1>6. n = [sessions |-> m.sessions, stale |-> m.stale \cup {row}, high |-> Larger(s.high, r.gen)]
  BY <1>3, <1>5 DEF StoreShape
<1>7. StoreShape(n) /\ Slot(n) = Slot(s) /\ n.stale = m.stale \cup {row}
  BY <1>3, <1>4, <1>6 DEF StoreShape, Slot
<1> QED
  BY <1>2, <1>3, <1>7 DEF n

LEMMA ReconcileIs ==
    ASSUME NEW s, StoreShape(s), Slot(s) # None, NEW r \in Record \cup {None}, NEW ids
    PROVE  LET n == ReconcileFallback(s, Thread, r, ids) IN
           /\ StoreShape(n)
           /\ n.stale = {row \in s.stale : row.thread # Thread \/ IdOf(row) \notin ids}
           /\ IF r = None THEN Slot(n) = None
              ELSE Slot(n) \in Record /\ Like(Slot(n), r) /\ Slot(n).state = r.state
<1>1. CASE r = None
  BY <1>1, RemoveIs, WithoutStaleIs DEF ReconcileFallback
<1>2. CASE r # None
  <2> DEFINE x == Restored(s, Thread, r)
             m == [s EXCEPT !.sessions[Thread] = x]
  <2>1. r \in Record
    BY <1>2
  <2>2. x \in Record /\ Like(x, r) /\ x.state = r.state
    BY <2>1, RestoredIs
  <2> HIDE DEF x
  <2>3. m = [sessions |-> [s.sessions EXCEPT ![Thread] = x], stale |-> s.stale, high |-> s.high]
    BY DEF StoreShape
  <2>4. [s.sessions EXCEPT ![Thread] = x] \in [Threads -> Record \cup {None}]
    BY <2>2 DEF StoreShape
  <2> HIDE DEF m
  <2>5. StoreShape(m) /\ Slot(m) = x /\ m.stale = s.stale
    BY <2>3, <2>4, SlotIs DEF StoreShape, Slot
  <2>6. ReconcileFallback(s, Thread, r, ids) = WithoutStale(m, Thread, ids)
    BY <1>2 DEF ReconcileFallback, m, x
  <2> QED
    BY <1>2, <2>2, <2>5, <2>6, WithoutStaleIs
<1> QED
  BY <1>1, <1>2

-----------------------------------------------------------------------------
(* What the store and the transactions name.                                *)

\* The incarnations there have been, by the records m they were created under.
Incarnations(m) == {s \in Sids : m[s] \in Record /\ m[s].sid = s}

\* Records of one of them: they differ in state and in bytes.
Copies(m) == {r \in Record : r.sid \in Incarnations(m) /\ Like(r, m[r.sid])}

\* The thread's rows, as far as anybody asks: whose they are.
Rowed(s) == {row.sid : row \in RowsOf(s, Thread)}

\* The slot and every row name an incarnation.
Good(m, s) ==
    /\ StoreShape(s)
    /\ Slot(s) \in Copies(m) \cup {None}
    /\ \A row \in RowsOf(s, Thread) : row.sid \in Incarnations(m) /\ Like(row, m[row.sid])

LEMMA CopyIs ==
    ASSUME NEW m, NEW r \in Copies(m)
    PROVE  /\ r \in Record /\ r # None /\ r # Removal /\ r.sid \in Incarnations(m)
           /\ m[r.sid] \in Copies(m) /\ Like(r, m[r.sid]) /\ IdOf(r) = IdOf(m[r.sid])
  BY RebindAssumption DEF Copies, Incarnations, Like, IdOf

LEMMA IncarnationIs ==
    ASSUME NEW m, NEW s \in Incarnations(m)
    PROVE  s \in Sids /\ s # None /\ m[s] \in Copies(m) /\ m[s].sid = s
  BY RebindAssumption DEF Copies, Incarnations, Like

\* One incarnation is told from another by its session id alone.
LEMMA NamedBy ==
    ASSUME NEW m, NEW s, Good(m, s), NEW r \in Copies(m)
    PROVE  /\ IsCurrent(s, Thread, IdOf(r)) <=> Slot(s) # None /\ Slot(s).sid = r.sid
           /\ HasStale(s, Thread, IdOf(r)) <=> r.sid \in Rowed(s)
           /\ \A row \in RowsOf(s, Thread) : IdOf(row) = IdOf(r) <=> row.sid = r.sid
<1>1. r.sid \in Incarnations(m) /\ Like(r, m[r.sid])
  BY DEF Copies
<1>2. ASSUME NEW x, x.sid \in Incarnations(m), Like(x, m[x.sid])
      PROVE  IdOf(x) = IdOf(r) <=> x.sid = r.sid
  BY <1>1, <1>2 DEF Like, IdOf
<1>3. IsCurrent(s, Thread, IdOf(r)) <=> Slot(s) # None /\ Slot(s).sid = r.sid
  <2>1. Slot(s) # None => Slot(s).sid \in Incarnations(m) /\ Like(Slot(s), m[Slot(s).sid])
    BY DEF Good, Copies
  <2> QED
    BY <1>2, <2>1 DEF IsCurrent, Slot
<1>4. \A row \in RowsOf(s, Thread) : IdOf(row) = IdOf(r) <=> row.sid = r.sid
  BY <1>2 DEF Good
<1> QED
  BY <1>3, <1>4 DEF HasStale, Rowed

-----------------------------------------------------------------------------
(* The operations again, in those terms: what becomes of slot and rows.     *)

LEMMA RetainGood ==
    ASSUME NEW m, NEW s, Good(m, s), NEW r \in Copies(m)
    PROVE  LET n == RetainStale(s, Thread, r) IN
           Good(m, n) /\ Slot(n) = Slot(s) /\ Rowed(n) = Rowed(s) \cup {r.sid}
<1> DEFINE n == RetainStale(s, Thread, r)
<1>1. r \in Record /\ r.sid \in Incarnations(m) /\ Like(r, m[r.sid])
  BY DEF Copies
<1>2. PICK row : /\ row.thread = Thread /\ Like(row, r)
                 /\ n.stale = {x \in s.stale : x.thread # Thread \/ IdOf(x) \notin {IdOf(r)}} \cup {row}
  BY <1>1, RetainStaleIs DEF Good
<1>3. StoreShape(n) /\ Slot(n) = Slot(s)
  BY <1>1, RetainStaleIs DEF Good
<1> HIDE DEF n
<1>4. RowsOf(n, Thread) = {x \in RowsOf(s, Thread) : x.sid # r.sid} \cup {row}
  <2>1. \A x \in RowsOf(s, Thread) : IdOf(x) = IdOf(r) <=> x.sid = r.sid
    BY NamedBy
  <2> QED
    BY <1>2, <2>1 DEF RowsOf
<1>5. row.sid = r.sid /\ row.sid \in Incarnations(m) /\ Like(row, m[row.sid])
  BY <1>1, <1>2 DEF Like
<1>6. Good(m, n)
  BY <1>3, <1>4, <1>5 DEF Good
<1>7. Rowed(n) = Rowed(s) \cup {r.sid}
  BY <1>4, <1>5 DEF Rowed
<1> QED
  BY <1>3, <1>6, <1>7 DEF n

\* The identities ids are those of the sessions sids.
Names(m, ids, sids) == \A r \in Copies(m) : IdOf(r) \in ids <=> r.sid \in sids

LEMMA WithoutGood ==
    ASSUME NEW m, NEW s, Good(m, s), NEW ids, NEW sids,
           Names(m, ids, sids)
    PROVE  LET n == WithoutStale(s, Thread, ids) IN
           Good(m, n) /\ Slot(n) = Slot(s) /\ Rowed(n) = Rowed(s) \ sids
<1> DEFINE n == WithoutStale(s, Thread, ids)
<1>1. ASSUME NEW row \in RowsOf(s, Thread) PROVE IdOf(row) \in ids <=> row.sid \in sids
  <2>1. row.sid \in Incarnations(m) /\ Like(row, m[row.sid])
    BY DEF Good
  <2>2. m[row.sid] \in Copies(m) /\ IdOf(row) = IdOf(m[row.sid]) /\ m[row.sid].sid = row.sid
    BY <2>1, IncarnationIs DEF Like, IdOf
  <2> QED
    BY <2>2 DEF Names
<1>2. /\ StoreShape(n) /\ Slot(n) = Slot(s)
      /\ n.stale = {row \in s.stale : row.thread # Thread \/ IdOf(row) \notin ids}
  BY WithoutStaleIs DEF Good
<1> HIDE DEF n
<1>3. RowsOf(n, Thread) = {row \in RowsOf(s, Thread) : row.sid \notin sids}
  BY <1>1, <1>2 DEF RowsOf
<1>4. Good(m, n) /\ Rowed(n) = Rowed(s) \ sids
  BY <1>2, <1>3 DEF Good, Rowed
<1> QED
  BY <1>2, <1>4 DEF n

LEMMA RemoveStaleGood ==
    ASSUME NEW m, NEW s, Good(m, s), NEW r \in Copies(m)
    PROVE  LET n == RemoveStale(s, Thread, IdOf(r)) IN
           Good(m, n) /\ Slot(n) = Slot(s) /\ Rowed(n) = Rowed(s) \ {r.sid}
<1> DEFINE ids == {IdOf(r)}
           sids == {r.sid}
<1>1. Names(m, ids, sids)
  BY DEF Names, Copies, Like, IdOf
<1>2. RemoveStale(s, Thread, IdOf(r)) = WithoutStale(s, Thread, ids)
  BY DEF RemoveStale
<1> HIDE DEF ids, sids
<1>3. LET n == WithoutStale(s, Thread, ids) IN
      Good(m, n) /\ Slot(n) = Slot(s) /\ Rowed(n) = Rowed(s) \ sids
  BY <1>1, WithoutGood
<1> QED
  BY <1>2, <1>3 DEF sids

\* Whatever replaces the slot by a copy, or empties it, leaves the rows.
LEMMA SlotGood ==
    ASSUME NEW m, NEW s, Good(m, s), NEW n, StoreShape(n), n.stale = s.stale,
           Slot(n) \in Copies(m) \cup {None}
    PROVE  Good(m, n) /\ Rowed(n) = Rowed(s)
  BY DEF Good, Rowed, RowsOf

LEMMA LikeACopy ==
    ASSUME NEW m, NEW x \in Record, NEW r \in Copies(m), Like(x, r)
    PROVE  x \in Copies(m) /\ x.sid = r.sid
  BY DEF Copies, Like

LEMMA SetStateGood ==
    ASSUME NEW m, NEW s, Good(m, s), Slot(s) # None, NEW state \in States
    PROVE  LET n == SetState(s, Thread, state) IN
           /\ Good(m, n) /\ Rowed(n) = Rowed(s)
           /\ Slot(n) # None /\ Slot(n).sid = Slot(s).sid /\ Slot(n).state = state
<1> DEFINE n == SetState(s, Thread, state)
<1>1. /\ StoreShape(n) /\ n.stale = s.stale /\ Slot(n) \in Record
      /\ Like(Slot(n), Slot(s)) /\ Slot(n).state = state
  BY SetStateIs DEF Good
<1> HIDE DEF n
<1>2. Slot(s) \in Copies(m)
  BY DEF Good
<1>3. Slot(n) \in Copies(m) /\ Slot(n).sid = Slot(s).sid
  BY <1>1, <1>2, LikeACopy
<1>4. Good(m, n) /\ Rowed(n) = Rowed(s)
  BY <1>1, <1>3, SlotGood
<1> QED
  BY <1>1, <1>3, <1>4, CopyIs DEF n

LEMMA RemoveGood ==
    ASSUME NEW m, NEW s, Good(m, s)
    PROVE  LET n == Remove(s, Thread) IN
           Good(m, n) /\ Rowed(n) = Rowed(s) /\ Slot(n) = None
<1>1. /\ StoreShape(Remove(s, Thread)) /\ Slot(Remove(s, Thread)) = None
      /\ Remove(s, Thread).stale = s.stale
  BY RemoveIs DEF Good
<1> QED
  BY <1>1, SlotGood

LEMMA RestoreGood ==
    ASSUME NEW m, NEW s, Good(m, s), Slot(s) # None, NEW r \in Copies(m)
    PROVE  LET n == Restore(s, Thread, r) IN
           /\ Good(m, n) /\ Rowed(n) = Rowed(s)
           /\ Slot(n) # None /\ Slot(n).sid = r.sid /\ Slot(n).state = r.state
<1> DEFINE n == Restore(s, Thread, r)
<1>1. /\ StoreShape(n) /\ n.stale = s.stale /\ Slot(n) \in Record
      /\ Like(Slot(n), r) /\ Slot(n).state = r.state
  BY RestoreIs, CopyIs DEF Good
<1> HIDE DEF n
<1>2. Slot(n) \in Copies(m) /\ Slot(n).sid = r.sid
  BY <1>1, LikeACopy
<1>3. Good(m, n) /\ Rowed(n) = Rowed(s)
  BY <1>1, <1>2, SlotGood
<1> QED
  BY <1>1, <1>2, <1>3, CopyIs DEF n

LEMMA ReserveGood ==
    ASSUME NEW m, NEW s, Good(m, s), NEW r \in Copies(m)
    PROVE  LET n == Reserve(s, Thread, r) IN
           /\ Good(m, n) /\ Rowed(n) = Rowed(s)
           /\ Slot(n) # None /\ Slot(n).sid = r.sid /\ Slot(n).state = "creating"
<1> DEFINE n == Reserve(s, Thread, r)
<1>1. /\ StoreShape(n) /\ n.stale = s.stale /\ Slot(n) \in Record
      /\ Like(Slot(n), r) /\ Slot(n).state = "creating"
  BY ReserveIs, CopyIs DEF Good
<1> HIDE DEF n
<1>2. Slot(n) \in Copies(m) /\ Slot(n).sid = r.sid
  BY <1>1, LikeACopy
<1>3. Good(m, n) /\ Rowed(n) = Rowed(s)
  BY <1>1, <1>2, SlotGood
<1> QED
  BY <1>1, <1>2, <1>3, CopyIs DEF n

\* reconcileRebindFallback: the slot gives way, and the rows of sids go with it.
LEMMA ReconcileGood ==
    ASSUME NEW m, NEW s, Good(m, s), Slot(s) # None,
           NEW r \in Copies(m) \cup {None}, NEW ids, NEW sids,
           Names(m, ids, sids)
    PROVE  LET n == ReconcileFallback(s, Thread, r, ids) IN
           /\ Good(m, n) /\ Rowed(n) = Rowed(s) \ sids
           /\ IF r = None THEN Slot(n) = None
              ELSE Slot(n) # None /\ Slot(n).sid = r.sid /\ Slot(n).state = r.state
<1> DEFINE n == ReconcileFallback(s, Thread, r, ids)
           w == WithoutStale(s, Thread, ids)
<1>1. r \in Record \cup {None}
  BY CopyIs
<1>2. Good(m, w) /\ Rowed(w) = Rowed(s) \ sids
  BY WithoutGood
<1>3. /\ StoreShape(n)
      /\ n.stale = {row \in s.stale : row.thread # Thread \/ IdOf(row) \notin ids}
      /\ IF r = None THEN Slot(n) = None
         ELSE Slot(n) \in Record /\ Like(Slot(n), r) /\ Slot(n).state = r.state
  BY <1>1, ReconcileIs DEF Good
<1>4. w.stale = {row \in s.stale : row.thread # Thread \/ IdOf(row) \notin ids}
  BY WithoutStaleIs DEF Good
<1> HIDE DEF n, w
<1>5. Slot(n) \in Copies(m) \cup {None} /\ (r # None => Slot(n) # None /\ Slot(n).sid = r.sid)
  BY <1>3, LikeACopy, CopyIs
<1>6. Good(m, n) /\ Rowed(n) = Rowed(w)
  BY <1>2, <1>3, <1>4, <1>5, SlotGood
<1> QED
  BY <1>2, <1>3, <1>5, <1>6 DEF n

\* A new incarnation leaves the others what they were.
LEMMA OneMore ==
    ASSUME NEW m \in [Sids -> Record \cup {None}], NEW s \in Sids, m[s] = None,
           NEW r \in Record, r.sid = s
    PROVE  LET n == [m EXCEPT ![s] = r] IN
           /\ Incarnations(m) \subseteq Incarnations(n) /\ s \in Incarnations(n)
           /\ Copies(m) \subseteq Copies(n) /\ r \in Copies(n)
           /\ \A x : Good(m, x) => Good(n, x)
<1> DEFINE n == [m EXCEPT ![s] = r]
<1>1. Incarnations(m) \subseteq Incarnations(n) /\ s \in Incarnations(n)
      /\ \A u \in Incarnations(m) : n[u] = m[u]
  BY RebindAssumption DEF Incarnations
<1>2. n[s] = r
  OBVIOUS
<1> HIDE DEF n
<1>3. Copies(m) \subseteq Copies(n) /\ r \in Copies(n)
  BY <1>1, <1>2 DEF Copies, Like
<1>4. \A x : Good(m, x) => Good(n, x)
  BY <1>1, <1>3 DEF Good
<1> QED
  BY <1>1, <1>3, <1>4 DEF n

-----------------------------------------------------------------------------
(* Types: everything remembered of the thread names an incarnation.         *)

Transactions(m) ==
    [pc : Phases, old : Incarnations(m), new : Incarnations(m) \cup {None},
     prev : Copies(m) \cup {None}, bind : Binds,
     created : BOOLEAN, lost : {"no", "operator", "shutdown"}]

Endings(m) == [pc : EndPhases, sid : Incarnations(m) \cup {None}, pending : BOOLEAN]

Sweeps(m) ==
    [{"end", "stop"} -> [todo : SUBSET Incarnations(m), wait : Incarnations(m) \cup {None}]]

RuntimeTyped ==
    /\ runtime \in [Sids -> {"unused", "starting", "maybe", "stopped"}]
    /\ rec \in [Sids -> Record \cup {None}]
    /\ \A s \in Sids : IF runtime[s] = "unused" THEN rec[s] = None ELSE s \in Incarnations(rec)
    /\ trees \subseteq Trees

SessionTyped ==
    /\ live \in Incarnations(rec) \cup {None}
    /\ ended \subseteq Incarnations(rec) /\ pendingOld \subseteq Incarnations(rec)
    /\ fenced \subseteq Incarnations(rec) /\ gaveUp \subseteq Incarnations(rec)
    /\ stop \in {"running", "sweeping", "closing", "asking", "settling", "down"}

DetachedTyped ==
    /\ tracked \subseteq Incarnations(rec) /\ owed \subseteq Incarnations(rec)
    /\ retry \subseteq Incarnations(rec)
    /\ fallback \in [Sids -> Copies(rec) \cup {None, Removal}]
    /\ disc \in [Sids -> {"idle", "asked", "cleaning"}]
    /\ \A s \in Sids : disc[s] # "idle" => s \in Incarnations(rec)
    /\ sweep \in Sweeps(rec)

TxTyped ==
    /\ tx \in Transactions(rec) \cup {None}
    /\ tx # None =>
        /\ tx.pc \in {"creating", "uncommitted", "retiring", "joining"} => tx.new # None
        /\ tx.pc = "unreserved" \/ tx.new # None => tx.prev # None
        /\ tx.pc = "opening" => tx.bind \in Trees

EndTyped ==
    /\ end \in Endings(rec) \cup {None}
    /\ end # None /\ end.pc \notin {"reconciling", "rows"} => end.sid # None

Typed ==
    /\ Good(rec, store)
    /\ RuntimeTyped /\ SessionTyped /\ DetachedTyped /\ TxTyped /\ EndTyped


-----------------------------------------------------------------------------
(* What each handler's writes make of the store.                            *)

LEMMA TxIs ==
    ASSUME Typed, tx # None
    PROVE  /\ tx \in Transactions(rec) /\ tx.pc \in Phases /\ tx.old \in Incarnations(rec)
           /\ tx.new \in Incarnations(rec) \cup {None} /\ tx.prev \in Copies(rec) \cup {None}
           /\ tx.bind \in Binds /\ tx.created \in BOOLEAN
           /\ tx.lost \in {"no", "operator", "shutdown"}
  BY DEF Typed, TxTyped, Transactions

LEMMA EndIs ==
    ASSUME Typed, end # None
    PROVE  /\ end \in Endings(rec) /\ end.pc \in EndPhases /\ end.pending \in BOOLEAN
           /\ end.sid \in Incarnations(rec) \cup {None}
  BY DEF Typed, EndTyped, Endings

\* The old record is back in the slot of the store `before`.
RolledBack(before, dropped) ==
    /\ Slot(store') # None /\ Slot(store').sid = tx.prev.sid
    /\ Slot(store').state = tx.prev.state
    /\ Rowed(store') = IF dropped THEN Rowed(before) \ {tx.prev.sid} ELSE Rowed(before)
    /\ pendingOld' = pendingOld \ {tx.old}
    /\ fenced' = IF Owns THEN fenced \ {tx.old} ELSE fenced

LEMMA RollBackIs ==
    ASSUME Typed, tx # None, tx.new # None, NEW before, Good(rec, before),
           NEW back, NEW dropped, RollBack(before, back, dropped)
    PROVE  /\ Good(rec, store')
           /\ IF Slot(before) # None /\ Slot(before).sid = tx.new /\ back
              THEN RolledBack(before, dropped)
              ELSE store' = before /\ UNCHANGED <<pendingOld, fenced>>
<1>1. tx.new \in Incarnations(rec) /\ tx.prev \in Copies(rec)
  BY TxIs DEF Typed, TxTyped
<1>2. rec[tx.new] \in Copies(rec) /\ rec[tx.new].sid = tx.new
  BY <1>1, IncarnationIs
<1>3. IsCurrent(before, Thread, IdOf(rec[tx.new])) <=> Slot(before) # None /\ Slot(before).sid = tx.new
  BY <1>2, NamedBy
<1>4. CASE Slot(before) # None /\ Slot(before).sid = tx.new /\ back
  <2> DEFINE r == Restore(before, Thread, tx.prev)
  <2>1. /\ Good(rec, r) /\ Rowed(r) = Rowed(before)
        /\ Slot(r) # None /\ Slot(r).sid = tx.prev.sid /\ Slot(r).state = tx.prev.state
    BY <1>1, <1>4, RestoreGood
  <2> HIDE DEF r
  <2>2. /\ Good(rec, RemoveStale(r, Thread, IdOf(tx.prev)))
        /\ Slot(RemoveStale(r, Thread, IdOf(tx.prev))) = Slot(r)
        /\ Rowed(RemoveStale(r, Thread, IdOf(tx.prev))) = Rowed(r) \ {tx.prev.sid}
    BY <1>1, <2>1, RemoveStaleGood
  <2>3. /\ store' = IF dropped THEN RemoveStale(r, Thread, IdOf(tx.prev)) ELSE r
        /\ pendingOld' = pendingOld \ {tx.old}
        /\ fenced' = IF Owns THEN fenced \ {tx.old} ELSE fenced
    BY <1>3, <1>4 DEF RollBack, Written, r
  <2> QED
    BY <1>4, <2>1, <2>2, <2>3 DEF RolledBack
<1>5. CASE ~(Slot(before) # None /\ Slot(before).sid = tx.new /\ back)
  BY <1>3, <1>5 DEF RollBack, Written
<1> QED
  BY <1>4, <1>5

\* One written row, or none.
LEMMA CompanionIs ==
    ASSUME NEW m, NEW s, Good(m, s), NEW r \in Copies(m), NEW ok
    PROVE  LET n == Written(s, Companion(s, r), ok) IN
           /\ Good(m, n) /\ Slot(n) = Slot(s)
           /\ Rowed(n) = IF ok THEN Rowed(s) \cup {r.sid} ELSE Rowed(s)
  BY RetainGood DEF Written, Companion

LEMMA DropIs ==
    ASSUME NEW m, NEW s, Good(m, s), NEW r \in Copies(m), NEW ok
    PROVE  LET n == Written(s, RemoveStale(s, Thread, IdOf(r)), ok) IN
           /\ Good(m, n) /\ Slot(n) = Slot(s)
           /\ Rowed(n) = IF ok THEN Rowed(s) \ {r.sid} ELSE Rowed(s)
  BY RemoveStaleGood DEF Written

\* captureAndReserve, by how far it came: the companion row, then the slot.
Captured(kept, reserved, s) ==
    /\ runtime[s] = "unused" /\ s \notin Incarnations(rec)
    /\ Rowed(store') = IF kept THEN Rowed(store) \cup {Slot(store).sid} ELSE Rowed(store)
    /\ pendingOld' = IF kept THEN pendingOld \cup {tx.old} ELSE pendingOld
    /\ \/ /\ kept /\ reserved
          /\ tx' = [tx EXCEPT !.pc = "creating", !.new = s, !.prev = Slot(store)]
          /\ runtime' = [runtime EXCEPT ![s] = "starting"]
          /\ rec' = [rec EXCEPT ![s] = rec'[s]]
          /\ rec'[s] \in Copies(rec') /\ rec'[s].sid = s /\ rec'[s].bind = tx.bind
          /\ Slot(store') # None /\ Slot(store').sid = s /\ Slot(store').state = "creating"
          /\ UNCHANGED fenced
       \/ /\ kept /\ ~reserved /\ Slot(store') = Slot(store)
          /\ tx' = [tx EXCEPT !.pc = "unreserved", !.prev = Slot(store)]
          /\ UNCHANGED <<runtime, rec, fenced>>
       \/ /\ ~kept /\ Slot(store') = Slot(store)
          /\ GoTo("undoing") /\ Unfence
          /\ UNCHANGED <<runtime, rec>>

LEMMA CaptureIs ==
    ASSUME Typed, CaptureAndReserve, Slot(store) # None
    PROVE  /\ Good(rec', store')
           /\ Incarnations(rec) \subseteq Incarnations(rec') /\ Copies(rec) \subseteq Copies(rec')
           /\ \E kept, reserved \in Outcomes, s \in Sids : Captured(kept, reserved, s)
<1> DEFINE prev == Slot(store)
           R(s) == [sid |-> s, gen |-> NextGeneration(store), state |-> "creating",
                    bytes |-> prev.bytes, bind |-> tx.bind]
           K(kept) == Written(store, Companion(store, prev), kept)
<1>1. prev \in Copies(rec) /\ Good(rec, store) /\ tx # None /\ Primary = prev
  BY DEF Typed, Good, CaptureAndReserve, Primary, Slot
<1>2. PICK kept \in Outcomes, reserved \in Outcomes, s \in Sids :
        /\ runtime[s] = "unused"
        /\ store' = Written(K(kept), Reserve(K(kept), Thread, R(s)), kept /\ reserved)
        /\ pendingOld' = IF kept THEN pendingOld \cup {tx.old} ELSE pendingOld
        /\ \/ /\ kept /\ reserved
              /\ tx' = [tx EXCEPT !.pc = "creating", !.new = s, !.prev = prev]
              /\ runtime' = [runtime EXCEPT ![s] = "starting"]
              /\ rec' = [rec EXCEPT ![s] = R(s)]
              /\ UNCHANGED fenced
           \/ /\ kept /\ ~reserved
              /\ tx' = [tx EXCEPT !.pc = "unreserved", !.prev = prev]
              /\ UNCHANGED <<runtime, rec, fenced>>
           \/ /\ ~kept
              /\ GoTo("undoing") /\ Unfence
              /\ UNCHANGED <<runtime, rec>>
  BY <1>1, ZenonT(60) DEF CaptureAndReserve
<1>3. /\ Good(rec, K(kept)) /\ Slot(K(kept)) = prev
      /\ Rowed(K(kept)) = IF kept THEN Rowed(store) \cup {prev.sid} ELSE Rowed(store)
  BY <1>1, CompanionIs
<1>4. s \notin Incarnations(rec) /\ rec[s] = None /\ rec \in [Sids -> Record \cup {None}]
  BY <1>2, RebindAssumption DEF Typed, RuntimeTyped, Incarnations
<1>5. R(s) \in Record /\ R(s).sid = s /\ R(s).bind = tx.bind
  <2>1. store.high \in Nat /\ prev.bytes \in Nat /\ tx.bind \in Binds /\ "creating" \in States
    BY <1>1, CopyIs, RecordIs, TxIs DEF Good, StoreShape, States
  <2>2. NextGeneration(store) \in Nat \ {0}
    BY <2>1 DEF NextGeneration
  <2> QED
    BY <2>1, <2>2 DEF Record
<1> HIDE DEF R, K, prev
<1>6. CASE kept /\ reserved
  <2>1. rec' = [rec EXCEPT ![s] = R(s)]
    BY <1>2, <1>6
  <2>2. /\ Incarnations(rec) \subseteq Incarnations(rec') /\ Copies(rec) \subseteq Copies(rec')
        /\ R(s) \in Copies(rec') /\ Good(rec', K(kept))
    BY <1>3, <1>4, <1>5, <2>1, OneMore
  <2>3. store' = Reserve(K(kept), Thread, R(s))
    BY <1>2, <1>6 DEF Written
  <2>4. /\ Good(rec', store') /\ Rowed(store') = Rowed(K(kept))
        /\ Slot(store') # None /\ Slot(store').sid = R(s).sid /\ Slot(store').state = "creating"
    BY <2>2, <2>3, ReserveGood
  <2>5. rec'[s] = R(s)
    BY <1>4, <2>1
  <2>6. Captured(kept, reserved, s)
    BY <1>2, <1>3, <1>4, <1>5, <1>6, <2>1, <2>2, <2>4, <2>5 DEF Captured, prev
  <2> QED
    BY <2>2, <2>4, <2>6
<1>7. CASE ~(kept /\ reserved)
  <2>1. store' = K(kept) /\ rec' = rec
    BY <1>2, <1>7 DEF Written
  <2>2. Captured(kept, reserved, s)
    BY <1>2, <1>3, <1>4, <1>7, <2>1 DEF Captured, prev
  <2> QED
    BY <1>3, <2>1, <2>2
<1> QED
  BY <1>6, <1>7

\* An unwritten reservation: its companion row goes again, if the thread is ours.
LEMMA UnreservedIs ==
    ASSUME Typed, Unreserved
    PROVE  /\ Good(rec, store') /\ Slot(store') = Slot(store)
           /\ IF Owns THEN Rowed(store') \in {Rowed(store), Rowed(store) \ {tx.prev.sid}}
                      ELSE store' = store
           /\ \A s \in Rowed(store) : s # tx.prev.sid => s \in Rowed(store')
<1>1. tx.prev \in Copies(rec) /\ Good(rec, store)
  BY TxIs DEF Typed, TxTyped, Unreserved
<1>2. CASE Owns
  <2>1. PICK ok \in Outcomes : store' = Written(store, RemoveStale(store, Thread, IdOf(tx.prev)), ok)
    BY <1>2 DEF Unreserved
  <2>2. /\ Good(rec, store') /\ Slot(store') = Slot(store)
        /\ Rowed(store') = IF ok THEN Rowed(store) \ {tx.prev.sid} ELSE Rowed(store)
    BY <1>1, <2>1, DropIs
  <2> QED
    BY <1>2, <2>2
<1>3. CASE ~Owns
  BY <1>1, <1>3 DEF Unreserved
<1> QED
  BY <1>2, <1>3

\* The swap commits the slot and tries to keep the predecessor's row.
LEMMA SwapIs ==
    ASSUME Typed, Swap, Slot(store) # None
    PROVE  /\ Good(rec, store')
           /\ Slot(store') # None /\ Slot(store').sid = Slot(store).sid
           /\ Slot(store').state = "active"
           /\ Rowed(store) \subseteq Rowed(store') /\ Rowed(store') \subseteq Rowed(store) \cup {tx.prev.sid}
<1>1. tx.prev \in Copies(rec) /\ Good(rec, store) /\ "active" \in States
  BY TxIs DEF Typed, TxTyped, Swap, States
<1> DEFINE c == Commit(store, Thread)
<1>2. /\ Good(rec, c) /\ Rowed(c) = Rowed(store)
      /\ Slot(c) # None /\ Slot(c).sid = Slot(store).sid /\ Slot(c).state = "active"
  BY <1>1, SetStateGood DEF Commit
<1>3. PICK kept \in Outcomes : store' = Written(c, Companion(c, tx.prev), kept)
  BY DEF Swap
<1> HIDE DEF c
<1>4. /\ Good(rec, store') /\ Slot(store') = Slot(c)
      /\ Rowed(store') = IF kept THEN Rowed(c) \cup {tx.prev.sid} ELSE Rowed(c)
  BY <1>1, <1>2, <1>3, CompanionIs
<1> QED
  BY <1>2, <1>4

\* The rollback's verdict on a slot that is still the replacement's: nobody's
\* after `/end`, the old record's otherwise.
LEMMA SettleSlotIs ==
    ASSUME Typed, tx # None, NEW before, Good(rec, before),
           NEW back, NEW dropped, SettleSlot(before, back, dropped)
    PROVE  /\ Good(rec, store')
           /\ IF tx.new # None /\ Slot(before) # None /\ Slot(before).sid = tx.new /\ back
              THEN IF GivenUp
                   THEN /\ Slot(store') = None /\ Rowed(store') = Rowed(before)
                        /\ UNCHANGED <<pendingOld, fenced>>
                   ELSE RolledBack(before, dropped)
              ELSE store' = before /\ UNCHANGED <<pendingOld, fenced>>
<1>1. CASE tx.new = None
  BY <1>1 DEF SettleSlot
<1>2. CASE tx.new # None /\ GivenUp
  <2>1. tx.new \in Incarnations(rec)
    BY <1>2, TxIs
  <2>2. rec[tx.new] \in Copies(rec) /\ rec[tx.new].sid = tx.new
    BY <2>1, IncarnationIs
  <2>3. IsCurrent(before, Thread, IdOf(rec[tx.new])) <=> Slot(before) # None /\ Slot(before).sid = tx.new
    BY <2>2, NamedBy
  <2>4. /\ Good(rec, Remove(before, Thread)) /\ Rowed(Remove(before, Thread)) = Rowed(before)
        /\ Slot(Remove(before, Thread)) = None
    BY RemoveGood
  <2> QED
    BY <1>2, <2>3, <2>4 DEF SettleSlot, Written
<1>3. CASE tx.new # None /\ ~GivenUp
  <2>1. RollBack(before, back, dropped)
    BY <1>3 DEF SettleSlot
  <2> QED
    BY <1>3, <2>1, RollBackIs
<1> QED
  BY <1>1, <1>2, <1>3

\* The companion row of one of our incarnations is kept, if the write succeeds.
LEMMA KeepRowIs ==
    ASSUME Typed, NEW s \in Incarnations(rec), NEW ok
    PROVE  LET n == Written(store, Companion(store, rec[s]), ok) IN
           /\ Good(rec, n) /\ Slot(n) = Slot(store)
           /\ Rowed(n) = IF ok THEN Rowed(store) \cup {s} ELSE Rowed(store)
<1>1. PICK r \in Copies(rec) : r = rec[s] /\ r.sid = s
  BY IncarnationIs
<1>2. LET n == Written(store, Companion(store, r), ok) IN
      /\ Good(rec, n) /\ Slot(n) = Slot(store)
      /\ Rowed(n) = IF ok THEN Rowed(store) \cup {r.sid} ELSE Rowed(store)
  BY CompanionIs DEF Typed
<1> QED
  BY <1>1, <1>2

LEMMA DropRowIs ==
    ASSUME Typed, NEW s \in Incarnations(rec), NEW ok
    PROVE  LET n == Written(store, RemoveStale(store, Thread, IdOf(rec[s])), ok) IN
           /\ Good(rec, n) /\ Slot(n) = Slot(store)
           /\ Rowed(n) = IF ok THEN Rowed(store) \ {s} ELSE Rowed(store)
<1>1. PICK r \in Copies(rec) : r = rec[s] /\ r.sid = s
  BY IncarnationIs
<1>2. LET n == Written(store, RemoveStale(store, Thread, IdOf(r)), ok) IN
      /\ Good(rec, n) /\ Slot(n) = Slot(store)
      /\ Rowed(n) = IF ok THEN Rowed(store) \ {r.sid} ELSE Rowed(store)
  BY DropIs DEF Typed
<1> QED
  BY <1>1, <1>2

\* A row names the incarnation it was kept for.
LEMMA RowIs ==
    ASSUME Typed, NEW row \in RowsOf(store, Thread)
    PROVE  /\ row.sid \in Incarnations(rec) /\ row.sid \in Rowed(store)
           /\ IdOf(row) = IdOf(rec[row.sid]) /\ row.bind = rec[row.sid].bind
  BY DEF Typed, Good, Rowed, Like, IdOf

\* The reconciliation of a fallback: its plan takes the slot and gives up its row,
\* or nothing takes the slot; the reservation and its row are gone.
Reconciled(s, restores, done) ==
    /\ done => Slot(store) # None /\ Slot(store).sid = s /\ Slot(store).state = "creating"
    /\ IF done /\ restores
       THEN /\ Slot(store') # None /\ Slot(store').sid = fallback[s].sid
            /\ Slot(store').state = fallback[s].state
            /\ Rowed(store') = Rowed(store) \ {s, fallback[s].sid}
            /\ pendingOld' = pendingOld \ {fallback[s].sid}
            /\ fenced' = fenced \ {fallback[s].sid}
       ELSE /\ UNCHANGED <<pendingOld, fenced>>
            /\ IF done THEN Slot(store') = None /\ Rowed(store') = Rowed(store) \ {s}
                       ELSE store' = store
    /\ tracked' = IF done THEN tracked \ {s} ELSE tracked
    /\ fallback' = [fallback EXCEPT ![s] = IF done THEN None
                                           ELSE IF restores THEN fallback[s] ELSE Removal]

LEMMA CleanupFallbackIs ==
    ASSUME Typed, NEW s \in Sids, CleanupFallback(s)
    PROVE  /\ Good(rec, store')
           /\ \E restores, done \in BOOLEAN :
                /\ restores <=> fallback[s] # Removal /\ OwnsSession(fallback[s].sid)
                /\ WritesFail = FALSE =>
                     (done <=> Slot(store) # None /\ Slot(store).sid = s /\ Slot(store).state = "creating")
                /\ Reconciled(s, restores, done)
<1>1. /\ Good(rec, store) /\ s \in Incarnations(rec) /\ fallback[s] # None
      /\ fallback[s] \in Copies(rec) \cup {None, Removal}
  BY DEF Typed, DetachedTyped, CleanupFallback
<1>2. rec[s] \in Copies(rec) /\ rec[s].sid = s
  BY <1>1, IncarnationIs
<1>3. PICK restores \in BOOLEAN : restores <=> fallback[s] # Removal /\ OwnsSession(fallback[s].sid)
  OBVIOUS
<1> DEFINE plan == IF restores THEN fallback[s] ELSE Removal
           ids == {IdOf(rec[s])} \cup (IF restores THEN {IdOf(plan)} ELSE {})
           original == IF restores THEN plan ELSE None
<1>4. PICK ok \in Outcomes :
        LET done == ok /\ MayReconcileFallback(store, Thread, IdOf(rec[s])) IN
        /\ store' = Written(store, ReconcileFallback(store, Thread, original, ids), done)
        /\ tracked' = IF done THEN tracked \ {s} ELSE tracked
        /\ fallback' = [fallback EXCEPT ![s] = IF done THEN None ELSE plan]
        /\ pendingOld' = IF done /\ restores THEN pendingOld \ {plan.sid} ELSE pendingOld
        /\ fenced' = IF done /\ restores THEN fenced \ {plan.sid} ELSE fenced
  BY <1>3 DEF CleanupFallback
<1>5. PICK done \in BOOLEAN : done <=> ok /\ MayReconcileFallback(store, Thread, IdOf(rec[s]))
  OBVIOUS
<1>6. MayReconcileFallback(store, Thread, IdOf(rec[s]))
        <=> Slot(store) # None /\ Slot(store).sid = s /\ Slot(store).state = "creating"
  BY <1>1, <1>2, NamedBy DEF MayReconcileFallback, Slot
<1>7. restores => fallback[s] \in Copies(rec)
  BY <1>1, <1>3
<1> DEFINE sids == {s} \cup (IF restores THEN {fallback[s].sid} ELSE {})
<1>8. Names(rec, ids, sids)
  BY <1>2, <1>7 DEF Names, Copies, Like, IdOf
<1>9. original \in Copies(rec) \cup {None} /\ (restores <=> original # None)
  BY <1>7, CopyIs
<1>10. /\ store' = IF done THEN ReconcileFallback(store, Thread, original, ids) ELSE store
       /\ tracked' = IF done THEN tracked \ {s} ELSE tracked
       /\ fallback' = [fallback EXCEPT ![s] = IF done THEN None ELSE plan]
       /\ pendingOld' = IF done /\ restores THEN pendingOld \ {plan.sid} ELSE pendingOld
       /\ fenced' = IF done /\ restores THEN fenced \ {plan.sid} ELSE fenced
  BY <1>4, <1>5 DEF Written
<1>11. original = IF restores THEN fallback[s] ELSE None
  OBVIOUS
<1> HIDE DEF ids, original
<1>12. ASSUME done
       PROVE  /\ Good(rec, store') /\ Rowed(store') = Rowed(store) \ sids
              /\ IF original = None THEN Slot(store') = None
                 ELSE Slot(store') # None /\ Slot(store').sid = original.sid
                      /\ Slot(store').state = original.state
  <2> HIDE DEF sids
  <2>1. Slot(store) # None
    BY <1>5, <1>6, <1>12
  <2>2. LET n == ReconcileFallback(store, Thread, original, ids) IN
        /\ Good(rec, n) /\ Rowed(n) = Rowed(store) \ sids
        /\ IF original = None THEN Slot(n) = None
           ELSE Slot(n) # None /\ Slot(n).sid = original.sid /\ Slot(n).state = original.state
    BY <1>1, <1>8, <1>9, <2>1, ReconcileGood
  <2>3. store' = ReconcileFallback(store, Thread, original, ids)
    BY <1>10, <1>12
  <2> QED
    BY <2>2, <2>3
<1>13. Good(rec, store')
  BY <1>1, <1>10, <1>12
<1>14. Reconciled(s, restores, done)
  BY <1>5, <1>6, <1>9, <1>10, <1>11, <1>12 DEF Reconciled
<1>15. WritesFail = FALSE =>
         (done <=> Slot(store) # None /\ Slot(store).sid = s /\ Slot(store).state = "creating")
  BY <1>5, <1>6 DEF Outcomes
<1> QED
  BY <1>3, <1>13, <1>14, <1>15

\* reclaim keeps a record it may not remove, as blocked.
LEMMA ReclaimIs ==
    ASSUME Typed, NEW b, Reclaim(b)
    PROVE  /\ Good(rec, store') /\ Rowed(store') = Rowed(store)
           /\ \/ store' = store /\ (WritesFail \/ Slot(store) = None)
              \/ Slot(store') = None
              \/ /\ Slot(store) # None /\ Slot(store') # None
                 /\ Slot(store').sid = Slot(store).sid /\ Slot(store').state = "blocked"
<1>1. Good(rec, store) /\ "blocked" \in States /\ Primary = Slot(store)
  BY DEF Typed, States, Primary, Slot
<1>2. PICK gone \in BOOLEAN, ok \in Outcomes :
        store' = IF gone THEN Written(store, Remove(store, Thread), ok)
                 ELSE IF Primary = None THEN store
                 ELSE Written(store, SetState(store, Thread, "blocked"), ok)
  BY DEF Reclaim
<1>3. CASE gone
  <2>1. /\ Good(rec, Remove(store, Thread)) /\ Rowed(Remove(store, Thread)) = Rowed(store)
        /\ Slot(Remove(store, Thread)) = None
    BY <1>1, RemoveGood
  <2> QED
    BY <1>1, <1>2, <1>3, <2>1 DEF Written, Outcomes
<1>4. CASE ~gone /\ Primary # None
  <2> DEFINE n == SetState(store, Thread, "blocked")
  <2>1. /\ Good(rec, n) /\ Rowed(n) = Rowed(store)
        /\ Slot(n) # None /\ Slot(n).sid = Slot(store).sid /\ Slot(n).state = "blocked"
    BY <1>1, <1>4, SetStateGood
  <2>2. store' = n \/ (store' = store /\ WritesFail)
    BY <1>2, <1>4 DEF Written, Outcomes
  <2> QED
    BY <1>1, <1>4, <2>1, <2>2
<1>5. CASE ~gone /\ Primary = None
  BY <1>1, <1>2, <1>5
<1> QED
  BY <1>3, <1>4, <1>5

-----------------------------------------------------------------------------
(* The base: types, and that the slot of a rebind on its way is its own.    *)

Forward == {"checking", "opening", "capturing", "unreserved", "creating", "uncommitted"}

Sited ==
    /\ tx # None /\ tx.pc \in {"creating", "uncommitted"} /\ Owns =>
         Slot(store) # None /\ Slot(store).sid = tx.new /\ Slot(store).state = "creating"
    /\ tx # None /\ tx.pc \in Forward => \A s \in Sids : fallback[s] = None
    /\ \A s \in Sids : fallback[s] # None => s \in tracked
    /\ end # None /\ end.pc \notin {"asking", "joining"} => live = None

Base == Typed /\ Sited

LEMMA SomeTx == ASSUME NEW m, NEW x \in Transactions(m) PROVE x # None
  BY NoneIsNoCommand DEF Transactions, Transaction, Incarnations, Copies

LEMMA SomeEnd == ASSUME NEW m, NEW x \in Endings(m) PROVE x # None
  BY NoneIsNoCommand DEF Endings, Ending, Incarnations

\* A sound worktree or none: what is done to the checkouts does not matter here.
LEMMA TreesTyped ==
    ASSUME trees \subseteq Trees, NEW b, NEW gone, RemoveTree(b, gone)
    PROVE  trees' \subseteq Trees
  BY DEF RemoveTree

\* The transaction after a step that only moves it on, and after one that gives way.
LEMMA GoToBase ==
    ASSUME Base, tx # None, NEW p \in Phases, GoTo(p)
    PROVE  /\ tx' \in Transactions(rec) /\ tx' # None /\ tx'.pc = p
           /\ tx'.old = tx.old /\ tx'.new = tx.new /\ tx'.prev = tx.prev /\ tx'.bind = tx.bind
           /\ tx'.created = tx.created /\ tx'.lost = tx.lost
<1>1. tx \in Transactions(rec)
  BY TxIs DEF Base
<1>2. tx' = [pc |-> p, old |-> tx.old, new |-> tx.new, prev |-> tx.prev,
             bind |-> tx.bind, created |-> tx.created, lost |-> tx.lost]
  BY <1>1 DEF Transactions, GoTo
<1>3. tx' \in Transactions(rec)
  BY <1>1, <1>2 DEF Transactions
<1> QED
  BY <1>2, <1>3, SomeTx

LEMMA GiveWayBase ==
    ASSUME Base, tx # None, GiveWay(tx)
    PROVE  /\ tx' \in Transactions(rec) /\ tx' # None /\ tx'.pc = "abandoning"
           /\ tx'.old = tx.old /\ tx'.new = tx.new /\ tx'.prev = tx.prev /\ tx'.bind = tx.bind
           /\ tx'.created = tx.created /\ tx'.lost = Lost
<1>1. tx \in Transactions(rec)
  BY TxIs DEF Base
<1>2. PICK l \in {"no", "operator", "shutdown"} : l = Lost
  BY TxIs DEF Base, Lost
<1>3. tx' = [tx EXCEPT !.pc = "abandoning", !.lost = l]
  BY <1>2 DEF GiveWay
<1>4. tx' = [pc |-> "abandoning", old |-> tx.old, new |-> tx.new, prev |-> tx.prev,
             bind |-> tx.bind, created |-> tx.created, lost |-> l]
  BY <1>1, <1>3 DEF Transactions
<1>5. tx' \in Transactions(rec)
  BY <1>1, <1>4 DEF Transactions, Phases
<1> QED
  BY <1>2, <1>4, <1>5, SomeTx

\* The plans of the incarnations nobody proved stopped, once `/end` has spoken.
LEMMA RemovalBase ==
    ASSUME Base
    PROVE  /\ AllToRemoval \in [Sids -> Copies(rec) \cup {None, Removal}]
           /\ \A s \in Sids : AllToRemoval[s] = IF fallback[s] = None THEN None ELSE Removal
<1>1. \A s \in Sids : fallback[s] # None => s \in tracked
  BY DEF Base, Sited
<1> QED
  BY <1>1 DEF Base, Typed, DetachedTyped, AllToRemoval

LEMMA OpenTreeBase == ASSUME Base, OpenTree PROVE Base'
<1>1. tx \in Transactions(rec) /\ tx.bind \in Trees /\ trees \subseteq Trees
  BY TxIs DEF Base, Typed, TxTyped, RuntimeTyped, OpenTree
<1>2. RuntimeTyped' /\ SessionTyped' /\ DetachedTyped' /\ EndTyped' /\ Good(rec', store')
  <2>1. trees' \subseteq Trees
    BY <1>1 DEF OpenTree
  <2>2. fenced' \subseteq Incarnations(rec)
    BY DEF Base, Typed, SessionTyped, OpenTree, Unfence
  <2> QED
    BY <2>1, <2>2 DEF Base, Typed, RuntimeTyped, SessionTyped, DetachedTyped, EndTyped, OpenTree, detached
<1>3. CASE tx' = None
  BY <1>2, <1>3 DEF Base, Sited, Typed, TxTyped, OpenTree, detached
<1>4. CASE tx' # None
  <2>1. PICK p \in {"capturing", "undoing"} : tx' = [tx EXCEPT !.created = TRUE, !.pc = p]
    BY <1>4 DEF OpenTree
  <2>2. tx' = [pc |-> p, old |-> tx.old, new |-> tx.new, prev |-> tx.prev,
               bind |-> tx.bind, created |-> TRUE, lost |-> tx.lost]
    BY <1>1, <2>1 DEF Transactions
  <2>3. tx' \in Transactions(rec)
    BY <1>1, <2>2 DEF Transactions, Phases
  <2> QED
    BY <1>2, <2>2, <2>3 DEF Base, Sited, Forward, Typed, TxTyped, OpenTree, detached
<1> QED
  BY <1>3, <1>4

\* Two ways on for an unfinished rebind: undo the worktree, or give way.
LEMMA OnwardBase ==
    ASSUME Base, tx # None, GoTo("undoing") \/ GoTo("uncommitted") \/ GoTo("joining") \/ GiveWay(tx)
    PROVE  /\ tx' \in Transactions(rec) /\ tx' # None
           /\ tx'.pc \in {"undoing", "uncommitted", "joining", "abandoning"}
           /\ tx'.old = tx.old /\ tx'.new = tx.new /\ tx'.prev = tx.prev
           /\ GoTo("undoing") => tx'.pc = "undoing"
           /\ GoTo("uncommitted") => tx'.pc = "uncommitted"
           /\ GoTo("joining") => tx'.pc = "joining"
           /\ GiveWay(tx) => tx'.pc = "abandoning"
<1>1. {"undoing", "uncommitted", "joining"} \subseteq Phases
  BY DEF Phases
<1> QED
  BY <1>1, GoToBase, GiveWayBase

LEMMA CaptureFailsBase == ASSUME Base, CaptureFails PROVE Base'
<1>1. tx # None /\ (GoTo("undoing") \/ GiveWay(tx))
  BY DEF CaptureFails
<1>2. /\ tx' \in Transactions(rec) /\ tx' # None /\ tx'.pc \in {"undoing", "abandoning"}
      /\ tx'.old = tx.old /\ tx'.new = tx.new /\ tx'.prev = tx.prev
  BY <1>1, OnwardBase
<1>3. DetachedTyped' /\ \A s \in Sids : fallback'[s] # None => s \in tracked'
  BY RemovalBase DEF Base, Sited, Typed, DetachedTyped, CaptureFails, world
<1>4. RuntimeTyped' /\ SessionTyped' /\ EndTyped' /\ Good(rec', store')
  BY DEF Base, Typed, RuntimeTyped, SessionTyped, EndTyped, CaptureFails, world, Unfence
<1>5. TxTyped'
  BY <1>2 DEF Base, Typed, TxTyped, CaptureFails, world
<1>6. Sited'
  BY <1>2, <1>3 DEF Base, Sited, Forward, CaptureFails
<1> QED
  BY <1>3, <1>4, <1>5, <1>6 DEF Base, Typed

LEMMA CaptureBase == ASSUME Base, CaptureAndReserve PROVE Base'
<1>1. /\ tx # None /\ tx.pc = "capturing" /\ tx \in Transactions(rec)
      /\ UNCHANGED <<trees, live, ended, tracked, fallback, owed, disc, retry, end, stop, sweep, gaveUp>>
  BY TxIs DEF Base, CaptureAndReserve, detached
<1>2. CASE Slot(store) = None
  <2>1. GoTo("undoing") /\ Unfence /\ UNCHANGED <<store, runtime, rec, pendingOld>>
    BY <1>2 DEF CaptureAndReserve, Primary, Slot
  <2>2. /\ tx' \in Transactions(rec) /\ tx' # None /\ tx'.pc = "undoing"
        /\ tx'.old = tx.old /\ tx'.new = tx.new /\ tx'.prev = tx.prev
    BY <1>1, <2>1, OnwardBase
  <2>3. TxTyped' /\ Sited'
    BY <1>1, <2>1, <2>2 DEF Base, Sited, Forward, Typed, TxTyped
  <2> QED
    BY <1>1, <2>1, <2>3 DEF Base, Typed, RuntimeTyped, SessionTyped, DetachedTyped, EndTyped, Unfence
<1>3. CASE Slot(store) # None
  <2>1. /\ Good(rec', store')
        /\ Incarnations(rec) \subseteq Incarnations(rec') /\ Copies(rec) \subseteq Copies(rec')
    BY <1>3, CaptureIs DEF Base
  <2>2. PICK kept \in Outcomes, reserved \in Outcomes, s \in Sids : Captured(kept, reserved, s)
    BY <1>3, CaptureIs DEF Base
  <2>3. Slot(store) \in Copies(rec) /\ Slot(store) \in Copies(rec')
    BY <1>3, <2>1 DEF Base, Typed, Good
  <2>4. SessionTyped' /\ DetachedTyped' /\ EndTyped'
    <3>1. tx.old \in Incarnations(rec) /\ fenced' \subseteq fenced
      BY <1>1, <2>2, TxIs DEF Base, Captured, Unfence
    <3>2. EndTyped'
      BY <1>1, <2>1 DEF Base, Typed, EndTyped, Endings
    <3>3. DetachedTyped'
      BY <1>1, <2>1 DEF Base, Typed, DetachedTyped, Sweeps
    <3> QED
      BY <1>1, <2>1, <2>2, <3>1, <3>2, <3>3 DEF Base, Typed, SessionTyped, Captured
  <2>5. CASE kept /\ reserved
    <3>1. /\ tx' = [tx EXCEPT !.pc = "creating", !.new = s, !.prev = Slot(store)]
          /\ runtime' = [runtime EXCEPT ![s] = "starting"]
          /\ rec' = [rec EXCEPT ![s] = rec'[s]]
          /\ rec'[s] \in Copies(rec') /\ rec'[s].sid = s
          /\ Slot(store') # None /\ Slot(store').sid = s /\ Slot(store').state = "creating"
      BY <2>2, <2>5 DEF Captured
    <3>2. PICK prev : prev = Slot(store)
      OBVIOUS
    <3>3. s \in Incarnations(rec') /\ rec'[s] \in Record
      BY <3>1, CopyIs
    <3>4. tx' = [pc |-> "creating", old |-> tx.old, new |-> s, prev |-> prev,
                 bind |-> tx.bind, created |-> tx.created, lost |-> tx.lost]
      BY <1>1, <3>1, <3>2 DEF Transactions
    <3>5. tx' \in Transactions(rec')
      BY <1>1, <2>1, <2>3, <3>2, <3>3, <3>4 DEF Transactions, Phases
    <3>6. TxTyped'
      BY <2>3, <3>2, <3>3, <3>4, <3>5, CopyIs, IncarnationIs DEF TxTyped
    <3>7. RuntimeTyped'
      BY <1>1, <2>1, <3>1, <3>3 DEF Base, Typed, RuntimeTyped
    <3>8. Sited'
      BY <1>1, <3>1, <3>4 DEF Base, Sited, Forward
    <3> QED
      BY <2>1, <2>4, <3>6, <3>7, <3>8 DEF Base, Typed
  <2>6. CASE kept /\ ~reserved
    <3>1. tx' = [tx EXCEPT !.pc = "unreserved", !.prev = Slot(store)] /\ UNCHANGED <<runtime, rec>>
      BY <2>2, <2>6 DEF Captured
    <3>2. PICK prev : prev = Slot(store)
      OBVIOUS
    <3>3. tx' = [pc |-> "unreserved", old |-> tx.old, new |-> tx.new, prev |-> prev,
                 bind |-> tx.bind, created |-> tx.created, lost |-> tx.lost]
      BY <1>1, <3>1, <3>2 DEF Transactions
    <3>4. tx' \in Transactions(rec')
      BY <1>1, <2>3, <3>1, <3>2, <3>3 DEF Transactions, Phases
    <3>5. TxTyped'
      BY <2>3, <3>2, <3>3, <3>4, CopyIs DEF TxTyped
    <3>6. RuntimeTyped' /\ Sited'
      BY <1>1, <3>1, <3>3 DEF Base, Typed, RuntimeTyped, Sited, Forward
    <3> QED
      BY <2>1, <2>4, <3>5, <3>6 DEF Base, Typed
  <2>7. CASE ~kept
    <3>1. GoTo("undoing") /\ UNCHANGED <<runtime, rec>>
      BY <2>2, <2>7 DEF Captured
    <3>2. /\ tx' \in Transactions(rec) /\ tx' # None /\ tx'.pc = "undoing"
          /\ tx'.old = tx.old /\ tx'.new = tx.new /\ tx'.prev = tx.prev
      BY <1>1, <3>1, OnwardBase
    <3>3. TxTyped' /\ RuntimeTyped' /\ Sited'
      BY <1>1, <3>1, <3>2 DEF Base, Sited, Forward, Typed, TxTyped, RuntimeTyped
    <3> QED
      BY <2>1, <2>4, <3>3 DEF Base, Typed
  <2> QED
    BY <2>5, <2>6, <2>7
<1> QED
  BY <1>2, <1>3

LEMMA UnreservedBase == ASSUME Base, Unreserved PROVE Base'
<1>1. /\ tx # None /\ tx.pc = "unreserved" /\ (GoTo("undoing") \/ GiveWay(tx))
      /\ UNCHANGED <<runtime, rec, trees, live, ended, tracked, owed, disc, retry, end, stop, sweep, gaveUp>>
  BY DEF Unreserved, world
<1>2. /\ tx' \in Transactions(rec) /\ tx' # None /\ tx'.pc \in {"undoing", "abandoning"}
      /\ tx'.old = tx.old /\ tx'.new = tx.new /\ tx'.prev = tx.prev
  BY <1>1, OnwardBase
<1>3. DetachedTyped' /\ \A s \in Sids : fallback'[s] # None => s \in tracked'
  BY <1>1, RemovalBase DEF Base, Sited, Typed, DetachedTyped, Unreserved
<1>4. Good(rec', store')
  BY <1>1, UnreservedIs DEF Base
<1>5. SessionTyped'
  BY <1>1 DEF Base, Typed, SessionTyped, Unreserved, Unfence
<1>6. RuntimeTyped' /\ EndTyped' /\ TxTyped'
  BY <1>1, <1>2 DEF Base, Typed, RuntimeTyped, EndTyped, TxTyped
<1>7. Sited'
  BY <1>1, <1>2, <1>3 DEF Base, Sited, Forward
<1> QED
  BY <1>3, <1>4, <1>5, <1>6, <1>7 DEF Base, Typed

\* The two steps in which an unwanted replacement is confirmed stopped.
Closes == CreateFails \/ UncommittedCloses

LEMMA ClosesIs ==
    ASSUME Base, Closes
    PROVE  /\ tx # None /\ tx.pc \in {"creating", "uncommitted"} /\ tx.new # None
           /\ tx.new \in Incarnations(rec) /\ tx \in Transactions(rec)
           /\ runtime' = [runtime EXCEPT ![tx.new] = "stopped"]
           /\ UNCHANGED <<rec, trees, live, ended, tracked, owed, disc, retry, end, stop, sweep, gaveUp>>
           /\ tx' \in Transactions(rec) /\ tx' # None
           /\ tx'.old = tx.old /\ tx'.new = tx.new /\ tx'.prev = tx.prev
           /\ Good(rec, store')
           /\ \/ /\ Owns /\ tx'.pc = "undoing" /\ UNCHANGED fallback
                 /\ \E back, dropped \in Outcomes : RollBack(store, back, dropped)
              \/ /\ ~Owns /\ tx'.pc = "abandoning" /\ GiveWay(tx)
                 /\ fallback' = IF GivenUp THEN AllToRemoval ELSE fallback
                 /\ UNCHANGED <<store, pendingOld, fenced>>
<1>1. /\ tx # None /\ tx.pc \in {"creating", "uncommitted"} /\ tx.new # None
      /\ tx \in Transactions(rec) /\ tx.new \in Incarnations(rec) /\ Good(rec, store)
  BY TxIs DEF Base, Typed, TxTyped, Closes, CreateFails, UncommittedCloses
<1>2. /\ runtime' = [runtime EXCEPT ![tx.new] = "stopped"]
      /\ UNCHANGED <<rec, trees, live, ended, tracked, owed, disc, retry, end, stop, sweep, gaveUp>>
  BY DEF Closes, CreateFails, UncommittedCloses
<1>3. \/ /\ Owns /\ GoTo("undoing") /\ UNCHANGED fallback
         /\ \E back, dropped \in Outcomes : RollBack(store, back, dropped)
      \/ /\ ~Owns /\ GiveWay(tx)
         /\ fallback' = IF GivenUp THEN AllToRemoval ELSE fallback
         /\ UNCHANGED <<store, pendingOld, fenced>>
  BY DEF Closes, CreateFails, UncommittedCloses
<1>4. CASE Owns /\ GoTo("undoing") /\ \E back, dropped \in Outcomes : RollBack(store, back, dropped)
  <2>1. Good(rec, store')
    BY <1>1, <1>4, RollBackIs DEF Base
  <2> QED
    BY <1>1, <1>2, <1>3, <1>4, <2>1, OnwardBase
<1>5. CASE ~Owns /\ GiveWay(tx)
  BY <1>1, <1>2, <1>3, <1>5, OnwardBase
<1> QED
  BY <1>3, <1>4, <1>5

LEMMA ClosesBase == ASSUME Base, Closes PROVE Base'
<1>1. /\ tx # None /\ tx.pc \in {"creating", "uncommitted"} /\ tx.new # None
      /\ tx.new \in Incarnations(rec) /\ tx \in Transactions(rec)
      /\ runtime' = [runtime EXCEPT ![tx.new] = "stopped"]
      /\ UNCHANGED <<rec, trees, live, ended, tracked, owed, disc, retry, end, stop, sweep, gaveUp>>
      /\ tx' \in Transactions(rec) /\ tx' # None /\ tx'.pc \in {"undoing", "abandoning"}
      /\ tx'.old = tx.old /\ tx'.new = tx.new /\ tx'.prev = tx.prev
      /\ Good(rec, store') /\ fallback' \in {AllToRemoval, fallback}
  BY ClosesIs
<1>2. pendingOld' \subseteq pendingOld /\ fenced' \subseteq fenced
  <2>1. ASSUME NEW back \in Outcomes, NEW dropped \in Outcomes, RollBack(store, back, dropped)
        PROVE  pendingOld' \subseteq pendingOld /\ fenced' \subseteq fenced
    BY <2>1 DEF RollBack
  <2> QED
    BY <2>1, ClosesIs
<1>3. DetachedTyped' /\ \A s \in Sids : fallback'[s] # None => s \in tracked'
  BY <1>1, RemovalBase DEF Base, Sited, Typed, DetachedTyped
<1>4. RuntimeTyped' /\ SessionTyped' /\ EndTyped' /\ TxTyped'
  BY <1>1, <1>2 DEF Base, Typed, RuntimeTyped, SessionTyped, EndTyped, TxTyped
<1>5. Sited'
  BY <1>1, <1>3 DEF Base, Sited, Forward
<1> QED
  BY <1>1, <1>3, <1>4, <1>5 DEF Base, Typed

LEMMA CreatedTooLateBase == ASSUME Base, CreatedTooLate PROVE Base'
<1>1. /\ tx # None /\ tx.new # None /\ GiveWay(tx) /\ tx.new \in Incarnations(rec)
      /\ runtime' = [runtime EXCEPT ![tx.new] = "maybe"]
      /\ fallback' \in {AllToRemoval, fallback}
      /\ UNCHANGED <<store, rec, trees, session, tracked, owed, disc, retry, end, stop, sweep, gaveUp>>
  BY TxIs DEF Base, Typed, TxTyped, CreatedTooLate
<1>2. /\ tx' \in Transactions(rec) /\ tx' # None /\ tx'.pc = "abandoning"
      /\ tx'.old = tx.old /\ tx'.new = tx.new /\ tx'.prev = tx.prev
  BY <1>1, OnwardBase
<1>3. DetachedTyped' /\ \A s \in Sids : fallback'[s] # None => s \in tracked'
  BY <1>1, RemovalBase DEF Base, Sited, Typed, DetachedTyped
<1>4. RuntimeTyped' /\ SessionTyped' /\ EndTyped' /\ TxTyped' /\ Good(rec', store')
  BY <1>1, <1>2 DEF Base, Typed, RuntimeTyped, SessionTyped, EndTyped, TxTyped, session
<1>5. Sited'
  BY <1>1, <1>2, <1>3 DEF Base, Sited, Forward, session
<1> QED
  BY <1>3, <1>4, <1>5 DEF Base, Typed

LEMMA SwapBase == ASSUME Base, Swap PROVE Base'
<1>1. /\ tx # None /\ tx.new # None /\ tx.pc = "creating" /\ Owns /\ GoTo("retiring") /\ Keep(tx.old)
      /\ tx.new \in Incarnations(rec) /\ tx.old \in Incarnations(rec) /\ "retiring" \in Phases
      /\ runtime' = [runtime EXCEPT ![tx.new] = "maybe"]
      /\ disc' = [disc EXCEPT ![tx.old] = "asked"] /\ live' = tx.new
      /\ pendingOld' = pendingOld \ {tx.old}
      /\ UNCHANGED <<rec, trees, ended, fenced, fallback, end, stop, sweep, gaveUp>>
  BY TxIs DEF Base, Typed, TxTyped, Swap, Phases
<1>2. Slot(store) # None
  BY <1>1 DEF Base, Sited
<1>3. Good(rec, store')
  BY <1>2, SwapIs DEF Base
<1>4. /\ tx' \in Transactions(rec) /\ tx' # None /\ tx'.pc = "retiring"
      /\ tx'.old = tx.old /\ tx'.new = tx.new /\ tx'.prev = tx.prev
  BY <1>1, GoToBase
<1>5. RuntimeTyped' /\ SessionTyped' /\ EndTyped' /\ TxTyped'
  BY <1>1, <1>4 DEF Base, Typed, RuntimeTyped, SessionTyped, EndTyped, TxTyped
<1>6. DetachedTyped'
  BY <1>1, IncarnationIs DEF Base, Typed, DetachedTyped, Keep
<1>7. Sited'
  <2>1. live # None
    BY <1>1, IncarnationIs DEF Owns, OwnsSession
  <2> QED
    BY <1>1, <1>4, <2>1 DEF Base, Sited, Forward, Keep
<1> QED
  BY <1>1, <1>3, <1>5, <1>6, <1>7 DEF Base, Typed

\* An uncommitted replacement that may still run: its row first, then the slot.
Stays(durable, back, dropped, retained, plan) ==
    /\ Good(rec, retained) /\ Slot(retained) = Slot(store)
    /\ Rowed(retained) = IF durable THEN Rowed(store) \cup {tx.new} ELSE Rowed(store)
    /\ Good(rec, store')
    /\ plan = IF Owns THEN tx.prev ELSE Removal
    /\ fallback' = IF durable THEN fallback ELSE [fallback EXCEPT ![tx.new] = plan]
    /\ \/ /\ Owns /\ durable /\ tx' = None
          /\ RollBack(retained, back, dropped)
       \/ /\ Owns /\ ~durable /\ tx' = None
          /\ store' = retained /\ UNCHANGED <<pendingOld, fenced>>
       \/ /\ ~Owns /\ GiveWay(tx)
          /\ store' = retained /\ UNCHANGED <<pendingOld, fenced>>

LEMMA UncommittedStaysIs ==
    ASSUME Base, UncommittedStays
    PROVE  /\ tx # None /\ tx.pc = "uncommitted" /\ tx.new # None /\ Keep(tx.new)
           /\ tx.new \in Incarnations(rec) /\ tx.prev \in Copies(rec)
           /\ UNCHANGED <<runtime, rec, trees, live, ended, disc, end, stop, sweep, gaveUp>>
           /\ \E durable, back, dropped \in Outcomes : \E retained, plan :
                 Stays(durable, back, dropped, retained, plan)
<1>1. /\ tx # None /\ tx.pc = "uncommitted" /\ tx.new # None /\ Keep(tx.new)
      /\ tx.new \in Incarnations(rec) /\ tx.prev \in Copies(rec)
      /\ UNCHANGED <<runtime, rec, trees, live, ended, disc, end, stop, sweep, gaveUp>>
  BY TxIs DEF Base, Typed, TxTyped, UncommittedStays, world
<1>2. PICK durable \in Outcomes, back \in Outcomes, dropped \in Outcomes :
        LET retained == Written(store, Companion(store, rec[tx.new]), durable)
            plan == IF Owns THEN tx.prev ELSE Removal
        IN /\ fallback' = IF durable THEN fallback ELSE [fallback EXCEPT ![tx.new] = plan]
           /\ \/ /\ Owns /\ durable
                 /\ RollBack(retained, back, dropped)
                 /\ tx' = None
              \/ /\ Owns /\ ~durable
                 /\ tx' = None
                 /\ store' = retained /\ UNCHANGED <<pendingOld, fenced>>
              \/ /\ ~Owns
                 /\ GiveWay(tx)
                 /\ store' = retained /\ UNCHANGED <<pendingOld, fenced>>
  BY DEF UncommittedStays
<1> DEFINE retained == Written(store, Companion(store, rec[tx.new]), durable)
           plan == IF Owns THEN tx.prev ELSE Removal
<1>3. /\ Good(rec, retained) /\ Slot(retained) = Slot(store)
      /\ Rowed(retained) = IF durable THEN Rowed(store) \cup {tx.new} ELSE Rowed(store)
  BY <1>1, KeepRowIs DEF Base
<1>4. plan = IF Owns THEN tx.prev ELSE Removal
  OBVIOUS
<1>5. /\ fallback' = IF durable THEN fallback ELSE [fallback EXCEPT ![tx.new] = plan]
      /\ \/ /\ Owns /\ durable /\ tx' = None
            /\ RollBack(retained, back, dropped)
         \/ /\ Owns /\ ~durable /\ tx' = None
            /\ store' = retained /\ UNCHANGED <<pendingOld, fenced>>
         \/ /\ ~Owns /\ GiveWay(tx)
            /\ store' = retained /\ UNCHANGED <<pendingOld, fenced>>
  BY <1>2
<1> HIDE DEF retained, plan
<1>6. Good(rec, store')
  <2>1. RollBack(retained, back, dropped) => Good(rec, store')
    BY <1>1, <1>3, RollBackIs DEF Base
  <2> QED
    BY <1>3, <1>5, <2>1
<1>7. Stays(durable, back, dropped, retained, plan)
  BY <1>3, <1>4, <1>5, <1>6 DEF Stays
<1> QED
  BY <1>1, <1>7

LEMMA RollBackShrinks ==
    ASSUME NEW before, NEW back, NEW dropped, RollBack(before, back, dropped)
    PROVE  pendingOld' \subseteq pendingOld /\ fenced' \subseteq fenced
  BY DEF RollBack

LEMMA KeepTyped ==
    ASSUME Typed, NEW s \in Incarnations(rec), Keep(s), UNCHANGED rec
    PROVE  /\ tracked' \subseteq Incarnations(rec) /\ owed' \subseteq Incarnations(rec)
           /\ retry' \subseteq Incarnations(rec) /\ tracked \subseteq tracked' /\ s \in tracked'
  BY DEF Typed, DetachedTyped, Keep

LEMMA UncommittedStaysBase == ASSUME Base, UncommittedStays PROVE Base'
<1>1. /\ tx # None /\ tx.pc = "uncommitted" /\ tx.new # None /\ Keep(tx.new)
      /\ tx.new \in Incarnations(rec) /\ tx.prev \in Copies(rec)
      /\ UNCHANGED <<runtime, rec, trees, live, ended, disc, end, stop, sweep, gaveUp>>
  BY UncommittedStaysIs
<1>0. PICK durable \in Outcomes, back \in Outcomes, dropped \in Outcomes :
        \E retained, plan : Stays(durable, back, dropped, retained, plan)
  BY UncommittedStaysIs
<1>2. PICK retained, plan : Stays(durable, back, dropped, retained, plan)
  BY <1>0
<1>3. /\ tracked' \subseteq Incarnations(rec) /\ owed' \subseteq Incarnations(rec)
      /\ retry' \subseteq Incarnations(rec) /\ tracked \subseteq tracked' /\ tx.new \in tracked'
  BY <1>1, KeepTyped DEF Base
<1>4. plan \in Copies(rec) \cup {Removal} /\ fallback' = IF durable THEN fallback ELSE [fallback EXCEPT ![tx.new] = plan]
  BY <1>1, <1>2 DEF Stays
<1>5. DetachedTyped' /\ \A s \in Sids : fallback'[s] # None => s \in tracked'
  <2>1. fallback' \in [Sids -> Copies(rec) \cup {None, Removal}]
    BY <1>1, <1>4 DEF Base, Typed, DetachedTyped
  <2>2. \A s \in Sids : fallback'[s] # None => s \in tracked'
    BY <1>1, <1>3, <1>4 DEF Base, Typed, DetachedTyped, Sited
  <2> QED
    BY <1>1, <1>3, <2>1, <2>2 DEF Base, Typed, DetachedTyped
<1>6. pendingOld' \subseteq pendingOld /\ fenced' \subseteq fenced
  BY <1>2, RollBackShrinks DEF Stays
<1>7. \/ tx' = None
      \/ /\ tx' \in Transactions(rec) /\ tx' # None /\ tx'.pc = "abandoning"
         /\ tx'.old = tx.old /\ tx'.new = tx.new /\ tx'.prev = tx.prev
  BY <1>1, <1>2, OnwardBase DEF Stays
<1>8. RuntimeTyped' /\ SessionTyped' /\ EndTyped' /\ TxTyped'
  BY <1>1, <1>6, <1>7 DEF Base, Typed, RuntimeTyped, SessionTyped, EndTyped, TxTyped
<1>9. Sited'
  BY <1>1, <1>5, <1>7 DEF Base, Sited, Forward
<1> QED
  BY <1>1, <1>2, <1>5, <1>8, <1>9 DEF Base, Typed, Stays

LEMMA AbandonTrackedBase == ASSUME Base, AbandonTracked PROVE Base'
<1>1. /\ tx # None /\ tx.new # None /\ GoTo("joining") /\ tx.new \in Incarnations(rec)
      /\ disc' = [disc EXCEPT ![tx.new] = IF @ = "idle" THEN "asked" ELSE @]
      /\ UNCHANGED <<store, world, session, tracked, fallback, owed, retry, end, stop, sweep, gaveUp>>
  BY TxIs DEF Base, AbandonTracked, HasReplacement
<1>2. /\ tx' \in Transactions(rec) /\ tx' # None /\ tx'.pc = "joining"
      /\ tx'.old = tx.old /\ tx'.new = tx.new /\ tx'.prev = tx.prev
  BY <1>1, OnwardBase
<1>3. DetachedTyped'
  BY <1>1 DEF Base, Typed, DetachedTyped, world
<1> QED
  BY <1>1, <1>2, <1>3 DEF Base, Sited, Forward, Typed, TxTyped, EndTyped, RuntimeTyped, SessionTyped, world, session

\* What the rollback that decides by itself does to the store and the sets.
LEMMA AbandonStoppedIs ==
    ASSUME Base, AbandonStopped
    PROVE  /\ tx # None /\ tx.pc = "abandoning" /\ tx \in Transactions(rec)
           /\ tx' \in Transactions(rec) /\ tx' # None /\ tx'.pc = "undoing"
           /\ tx'.old = tx.old /\ tx'.new = tx.new /\ tx'.prev = tx.prev
           /\ HasReplacement => tx.new \notin tracked \/ fallback[tx.new] = None
           /\ runtime' = IF HasReplacement THEN [runtime EXCEPT ![tx.new] = "stopped"] ELSE runtime
           /\ UNCHANGED <<rec, trees, live, ended, detached, end, stop, sweep, gaveUp>>
           /\ Good(rec, store')
           /\ \E back, dropped \in Outcomes : SettleSlot(store, back, dropped)
<1>1. /\ tx # None /\ tx.pc = "abandoning" /\ tx \in Transactions(rec) /\ GoTo("undoing")
  BY TxIs DEF Base, AbandonStopped
<1>2. PICK back \in Outcomes, dropped \in Outcomes : SettleSlot(store, back, dropped)
  BY DEF AbandonStopped
<1>3. Good(rec, store')
  BY <1>1, <1>2, SettleSlotIs DEF Base, Typed
<1> QED
  BY <1>1, <1>2, <1>3, OnwardBase DEF AbandonStopped

LEMMA SettleSlotShrinks ==
    ASSUME NEW before, NEW back, NEW dropped, SettleSlot(before, back, dropped)
    PROVE  pendingOld' \subseteq pendingOld /\ fenced' \subseteq fenced
  BY RollBackShrinks DEF SettleSlot

LEMMA AbandonStoppedBase == ASSUME Base, AbandonStopped PROVE Base'
<1>1. /\ tx # None /\ tx.pc = "abandoning" /\ tx \in Transactions(rec)
      /\ tx' \in Transactions(rec) /\ tx' # None /\ tx'.pc = "undoing"
      /\ tx'.old = tx.old /\ tx'.new = tx.new /\ tx'.prev = tx.prev
      /\ UNCHANGED <<rec, trees, live, ended, detached, end, stop, sweep, gaveUp>>
      /\ Good(rec, store')
  BY AbandonStoppedIs
<1>2. pendingOld' \subseteq pendingOld /\ fenced' \subseteq fenced
  BY AbandonStoppedIs, SettleSlotShrinks
<1>3. RuntimeTyped'
  <2>1. HasReplacement => tx.new \in Incarnations(rec)
    BY <1>1, TxIs DEF Base, HasReplacement
  <2>2. runtime' = IF HasReplacement THEN [runtime EXCEPT ![tx.new] = "stopped"] ELSE runtime
    BY AbandonStoppedIs
  <2> QED
    BY <1>1, <2>1, <2>2 DEF Base, Typed, RuntimeTyped
<1>4. SessionTyped' /\ DetachedTyped' /\ EndTyped' /\ TxTyped'
  BY <1>1, <1>2 DEF Base, Typed, SessionTyped, DetachedTyped, EndTyped, TxTyped, detached
<1>5. Sited'
  BY <1>1 DEF Base, Sited, Forward, detached
<1> QED
  BY <1>1, <1>3, <1>4, <1>5 DEF Base, Typed

\* A replacement that may still run, abandoned: its row, or a plan for later.
Leaves(durable, back, dropped, retained, plan) ==
    /\ Good(rec, retained) /\ Slot(retained) = Slot(store)
    /\ Rowed(retained) = IF durable THEN Rowed(store) \cup {tx.new} ELSE Rowed(store)
    /\ Good(rec, store')
    /\ plan = IF GivenUp THEN Removal ELSE tx.prev
    /\ IF durable
       THEN SettleSlot(retained, back, dropped) /\ UNCHANGED fallback
       ELSE /\ fallback' = [fallback EXCEPT ![tx.new] = plan]
            /\ UNCHANGED <<store, pendingOld, fenced>>

LEMMA AbandonUnconfirmedIs ==
    ASSUME Base, AbandonUnconfirmed
    PROVE  /\ tx # None /\ tx.pc = "abandoning" /\ tx.new # None /\ Keep(tx.new) /\ tx' = None
           /\ runtime[tx.new] = "maybe"
           /\ tx.new \in Incarnations(rec) /\ tx.prev \in Copies(rec)
           /\ tx.new \notin tracked \/ fallback[tx.new] = None
           /\ UNCHANGED <<runtime, rec, trees, live, ended, disc, end, stop, sweep, gaveUp>>
           /\ \E durable, back, dropped \in Outcomes : \E retained, plan :
                 Leaves(durable, back, dropped, retained, plan)
<1>1. /\ tx # None /\ tx.pc = "abandoning" /\ tx.new # None /\ Keep(tx.new) /\ tx' = None
      /\ runtime[tx.new] = "maybe"
      /\ tx.new \in Incarnations(rec) /\ tx.prev \in Copies(rec)
      /\ tx.new \notin tracked \/ fallback[tx.new] = None
      /\ UNCHANGED <<runtime, rec, trees, live, ended, disc, end, stop, sweep, gaveUp>>
  BY TxIs DEF Base, Typed, TxTyped, AbandonUnconfirmed, HasReplacement, world
<1>2. PICK durable \in Outcomes, back \in Outcomes, dropped \in Outcomes :
        LET retained == Written(store, Companion(store, rec[tx.new]), durable)
            plan == IF GivenUp THEN Removal ELSE tx.prev
        IN IF durable
           THEN SettleSlot(retained, back, dropped) /\ UNCHANGED fallback
           ELSE /\ fallback' = [fallback EXCEPT ![tx.new] = plan]
                /\ UNCHANGED <<store, pendingOld, fenced>>
  BY DEF AbandonUnconfirmed
<1> DEFINE retained == Written(store, Companion(store, rec[tx.new]), durable)
           plan == IF GivenUp THEN Removal ELSE tx.prev
<1>3. /\ Good(rec, retained) /\ Slot(retained) = Slot(store)
      /\ Rowed(retained) = IF durable THEN Rowed(store) \cup {tx.new} ELSE Rowed(store)
  BY <1>1, KeepRowIs DEF Base
<1>4. plan = IF GivenUp THEN Removal ELSE tx.prev
  OBVIOUS
<1>5. IF durable
      THEN SettleSlot(retained, back, dropped) /\ UNCHANGED fallback
      ELSE /\ fallback' = [fallback EXCEPT ![tx.new] = plan]
           /\ UNCHANGED <<store, pendingOld, fenced>>
  BY <1>2
<1> HIDE DEF retained, plan
<1>6. Good(rec, store')
  <2>1. SettleSlot(retained, back, dropped) => Good(rec, store')
    BY <1>1, <1>3, SettleSlotIs DEF Base
  <2> QED
    BY <1>5, <2>1 DEF Base, Typed
<1>7. Leaves(durable, back, dropped, retained, plan)
  BY <1>3, <1>4, <1>5, <1>6 DEF Leaves
<1> QED
  BY <1>1, <1>7

LEMMA AbandonUnconfirmedBase == ASSUME Base, AbandonUnconfirmed PROVE Base'
<1>1. /\ tx # None /\ tx.new # None /\ Keep(tx.new) /\ tx' = None
      /\ tx.new \in Incarnations(rec) /\ tx.prev \in Copies(rec)
      /\ UNCHANGED <<runtime, rec, trees, live, ended, disc, end, stop, sweep, gaveUp>>
  BY AbandonUnconfirmedIs
<1>0. PICK durable \in Outcomes, back \in Outcomes, dropped \in Outcomes :
        \E retained, plan : Leaves(durable, back, dropped, retained, plan)
  BY AbandonUnconfirmedIs
<1>2. PICK retained, plan : Leaves(durable, back, dropped, retained, plan)
  BY <1>0
<1>3. /\ tracked' \subseteq Incarnations(rec) /\ owed' \subseteq Incarnations(rec)
      /\ retry' \subseteq Incarnations(rec) /\ tracked \subseteq tracked' /\ tx.new \in tracked'
  BY <1>1, KeepTyped DEF Base
<1>4. plan \in Copies(rec) \cup {Removal} /\ fallback' \in {fallback, [fallback EXCEPT ![tx.new] = plan]}
  BY <1>1, <1>2 DEF Leaves
<1>5. DetachedTyped' /\ \A s \in Sids : fallback'[s] # None => s \in tracked'
  <2>1. fallback' \in [Sids -> Copies(rec) \cup {None, Removal}]
    BY <1>1, <1>4 DEF Base, Typed, DetachedTyped
  <2>2. \A s \in Sids : fallback'[s] # None => s \in tracked'
    BY <1>1, <1>3, <1>4 DEF Base, Typed, DetachedTyped, Sited
  <2> QED
    BY <1>1, <1>3, <2>1, <2>2 DEF Base, Typed, DetachedTyped
<1>6. pendingOld' \subseteq pendingOld /\ fenced' \subseteq fenced
  BY <1>2, SettleSlotShrinks DEF Leaves
<1>7. RuntimeTyped' /\ SessionTyped' /\ EndTyped' /\ TxTyped' /\ Sited'
  BY <1>1, <1>5, <1>6 DEF Base, Typed, RuntimeTyped, SessionTyped, EndTyped, TxTyped, Sited
<1> QED
  BY <1>1, <1>2, <1>5, <1>7 DEF Base, Typed, Leaves

LEMMA StaysUnconfirmedBase ==
    ASSUME Base, NEW s \in Sids, StaysUnconfirmed(s) PROVE Base'
<1>1. s \in Incarnations(rec) /\ UNCHANGED rec
  BY DEF Base, Typed, DetachedTyped, StaysUnconfirmed, world
<1>2. PICK ok \in Outcomes : store' = Written(store, Companion(store, rec[s]), ok)
  BY DEF StaysUnconfirmed
<1>3. Good(rec, store') /\ Slot(store') = Slot(store)
  BY <1>1, <1>2, KeepRowIs DEF Base
<1> QED
  BY <1>1, <1>3 DEF Base, Sited, Forward, Owns, OwnsSession, Typed, RuntimeTyped, SessionTyped,
     DetachedTyped, TxTyped, EndTyped, StaysUnconfirmed, world, session, procs

LEMMA CleanupKeptBase ==
    ASSUME Base, NEW s \in Sids, CleanupKept(s) PROVE Base'
<1>1. s \in Incarnations(rec) /\ UNCHANGED rec
  BY DEF Base, Typed, DetachedTyped, CleanupKept
<1>2. PICK ok \in Outcomes : store' = Written(store, Companion(store, rec[s]), ok)
  BY DEF CleanupKept
<1>3. Good(rec, store') /\ Slot(store') = Slot(store)
  BY <1>1, <1>2, KeepRowIs DEF Base
<1>4. trees' \subseteq Trees
  BY TreesTyped DEF Base, Typed, RuntimeTyped, CleanupKept
<1> QED
  BY <1>1, <1>3, <1>4 DEF Base, Sited, Forward, Owns, OwnsSession, Typed, RuntimeTyped,
     SessionTyped, DetachedTyped, TxTyped, EndTyped, CleanupKept, session, procs

LEMMA CleanupDoneBase ==
    ASSUME Base, NEW s \in Sids, CleanupDone(s) PROVE Base'
<1>1. s \in Incarnations(rec) /\ UNCHANGED rec
  BY DEF Base, Typed, DetachedTyped, CleanupDone
<1>2. PICK ok \in Outcomes :
        store' = Written(store, RemoveStale(store, Thread, IdOf(rec[s])),
                         ok \/ ~HasStale(store, Thread, IdOf(rec[s])))
  BY DEF CleanupDone
<1>2a. Good(rec, store') /\ Slot(store') = Slot(store)
  BY <1>1, <1>2, DropRowIs DEF Base
<1>3. trees' \subseteq Trees
  BY TreesTyped DEF Base, Typed, RuntimeTyped, CleanupDone
<1>4. tracked' \subseteq tracked /\ \A x \in Sids : fallback[x] # None /\ x \in tracked => x \in tracked'
  BY DEF CleanupDone
<1> QED
  BY <1>1, <1>2a, <1>3, <1>4 DEF Base, Sited, Forward, Owns, OwnsSession, Typed, RuntimeTyped,
     SessionTyped, DetachedTyped, TxTyped, EndTyped, CleanupDone, session, procs

LEMMA CleanupFallbackBase ==
    ASSUME Base, NEW s \in Sids, CleanupFallback(s) PROVE Base'
<1>1. s \in Incarnations(rec) /\ UNCHANGED rec /\ fallback[s] \in Copies(rec) \cup {Removal}
  BY DEF Base, Typed, DetachedTyped, CleanupFallback
<1>2. Good(rec, store')
  BY <1>1, CleanupFallbackIs DEF Base
<1>3. PICK restores \in BOOLEAN, done \in BOOLEAN : Reconciled(s, restores, done)
  BY CleanupFallbackIs DEF Base
<1>4. trees' \subseteq Trees
  BY TreesTyped DEF Base, Typed, RuntimeTyped, CleanupFallback
<1>5. /\ pendingOld' \subseteq pendingOld /\ fenced' \subseteq fenced /\ tracked' \subseteq tracked
      /\ fallback' \in [Sids -> Copies(rec) \cup {None, Removal}]
      /\ \A x \in Sids : fallback'[x] # None => x \in tracked'
  <2>1. fallback \in [Sids -> Copies(rec) \cup {None, Removal}] /\ s \in Sids
    BY DEF Base, Typed, DetachedTyped
  <2>2. PICK plan \in Copies(rec) \cup {None, Removal} : fallback' = [fallback EXCEPT ![s] = plan]
    BY <1>1, <1>3 DEF Reconciled
  <2>3. fallback' \in [Sids -> Copies(rec) \cup {None, Removal}]
    BY <2>1, <2>2
  <2>4. pendingOld' \subseteq pendingOld /\ fenced' \subseteq fenced /\ tracked' \subseteq tracked
    BY <1>3 DEF Reconciled
  <2>5. ASSUME NEW x \in Sids, fallback'[x] # None PROVE x \in tracked'
    <3>1. fallback[x] # None /\ (x = s => tracked' = tracked)
      BY <1>1, <1>3, <2>1, <2>5, CopyIs, RebindAssumption DEF Reconciled
    <3> QED
      BY <1>3, <3>1 DEF Base, Sited, Reconciled
  <2> QED
    BY <2>3, <2>4, <2>5
<1>6. ~(tx # None /\ tx.pc \in Forward)
  BY <1>1, CopyIs, RebindAssumption DEF Base, Sited
<1>7. /\ disc' = [disc EXCEPT ![s] = "idle"] /\ owed' = owed \ {s}
      /\ UNCHANGED <<runtime, rec, live, ended, retry, tx, end, stop, sweep, gaveUp>>
  BY DEF CleanupFallback, procs
<1> QED
  BY <1>1, <1>2, <1>4, <1>5, <1>6, <1>7 DEF Base, Sited, Forward, Typed, RuntimeTyped,
     SessionTyped, DetachedTyped, TxTyped, EndTyped

-----------------------------------------------------------------------------

\* /end goes on.
LEMMA EndAtBase ==
    ASSUME Base, end # None, NEW p \in EndPhases, EndAt(p)
    PROVE  /\ end' \in Endings(rec) /\ end' # None /\ end'.pc = p
           /\ end'.sid = end.sid /\ end'.pending = end.pending
<1>1. end \in Endings(rec)
  BY EndIs DEF Base
<1>2. end' = [pc |-> p, sid |-> end.sid, pending |-> end.pending]
  BY <1>1 DEF Endings, EndAt
<1>3. end' \in Endings(rec)
  BY <1>1, <1>2 DEF Endings
<1> QED
  BY <1>2, <1>3, SomeEnd

\* What it joins next.
LEMMA SettleBase ==
    ASSUME Base, NEW p \in {"end", "stop"}, NEW S \in SUBSET Incarnations(rec), Settle(p, S)
    PROVE  /\ sweep' \in Sweeps(rec) /\ sweep'[p].todo = S /\ sweep'[p].wait = sweep[p].wait
           /\ \A q \in {"end", "stop"} : q # p => sweep'[q] = sweep[q]
<1>1. sweep \in Sweeps(rec)
  BY DEF Base, Typed, DetachedTyped
<1>2. sweep' = [sweep EXCEPT ![p] = [todo |-> S, wait |-> sweep[p].wait]]
  <2>1. sweep[p] = [todo |-> sweep[p].todo, wait |-> sweep[p].wait]
    BY <1>1 DEF Sweeps
  <2>2. PICK j : j = sweep[p]
    OBVIOUS
  <2>3. sweep' = [sweep EXCEPT ![p] = [j EXCEPT !.todo = S]]
    BY <2>2 DEF Settle
  <2>4. [j EXCEPT !.todo = S] = [todo |-> S, wait |-> j.wait]
    BY <2>1, <2>2
  <2> QED
    BY <2>2, <2>3, <2>4
<1>2a. [todo |-> S, wait |-> sweep[p].wait] \in [todo : SUBSET Incarnations(rec), wait : Incarnations(rec) \cup {None}]
  BY <1>1 DEF Sweeps
<1> QED
  BY <1>1, <1>2, <1>2a DEF Sweeps

LEMMA EndUnconfirmedBase == ASSUME Base, EndUnconfirmed PROVE Base'
<1>1. /\ end # None /\ end.pc = "asking" /\ end.sid \in Incarnations(rec)
      /\ UNCHANGED <<runtime, rec, trees, live, ended, pendingOld, fenced, fallback, disc, tx, stop, gaveUp>>
  BY EndIs DEF Base, Typed, EndTyped, EndUnconfirmed, world, session
<1>2. Good(rec, store') /\ Slot(store') = Slot(store)
  <2>1. \/ UNCHANGED store
        \/ \E ok \in Outcomes : store' = Written(store, Companion(store, rec[end.sid]), ok)
    BY DEF EndUnconfirmed
  <2>2. Typed /\ Good(rec, store)
    BY DEF Base, Typed
  <2>3. ASSUME NEW ok \in Outcomes, store' = Written(store, Companion(store, rec[end.sid]), ok)
        PROVE  Good(rec, store') /\ Slot(store') = Slot(store)
    BY <1>1, <2>2, <2>3, KeepRowIs
  <2> QED
    BY <1>1, <2>1, <2>2, <2>3
<1>3. /\ tracked' \subseteq Incarnations(rec) /\ owed' \subseteq Incarnations(rec)
      /\ retry' \subseteq Incarnations(rec) /\ tracked \subseteq tracked'
  BY <1>1 DEF Base, Typed, DetachedTyped, EndUnconfirmed, Keep
<1>4. sweep' \in Sweeps(rec)
  BY <1>3, SettleBase DEF EndUnconfirmed
<1>5. end' \in Endings(rec) /\ end' # None /\ end'.pc = "joining" /\ end'.sid = end.sid
  BY <1>1, EndAtBase DEF EndUnconfirmed, EndPhases
<1> QED
  BY <1>1, <1>2, <1>3, <1>4, <1>5 DEF Base, Sited, Forward, Owns, OwnsSession, Typed,
     RuntimeTyped, SessionTyped, DetachedTyped, TxTyped, EndTyped

LEMMA EndConfirmedBase == ASSUME Base, EndConfirmed PROVE Base'
<1>1. /\ end # None /\ end.pc = "asking" /\ end.sid \in Incarnations(rec)
      /\ runtime' = [runtime EXCEPT ![end.sid] = "stopped"] /\ live' = None
      /\ pendingOld' \subseteq pendingOld
      /\ UNCHANGED <<store, rec, trees, ended, fenced, tracked, fallback, owed, disc, retry, tx, stop, gaveUp>>
  BY EndIs DEF Base, Typed, EndTyped, EndConfirmed, detached
<1>2. sweep' \in Sweeps(rec)
  <2>1. sweep \in Sweeps(rec) /\ {end.sid} \subseteq Incarnations(rec) /\ tracked \subseteq Incarnations(rec)
    BY <1>1 DEF Base, Typed, DetachedTyped
  <2> QED
    BY <2>1, SettleBase DEF EndConfirmed
<1>3. end' \in Endings(rec) /\ end' # None /\ end'.pc \in {"settling", "cleaning"} /\ end'.sid = end.sid
  <2>1. PICK p \in {"settling", "cleaning"} : EndAt(p)
    BY DEF EndConfirmed
  <2> QED
    BY <1>1, <2>1, EndAtBase DEF EndPhases
<1>4. tx # None => ~Owns'
  <2>1. tx # None => tx.old # None
    BY TxIs, IncarnationIs DEF Base
  <2> QED
    BY <1>1, <2>1 DEF Owns, OwnsSession
<1> QED
  BY <1>1, <1>2, <1>3, <1>4 DEF Base, Sited, Forward, Owns, OwnsSession, Typed,
     RuntimeTyped, SessionTyped, DetachedTyped, TxTyped, EndTyped

LEMMA EndCleansBase == ASSUME Base, EndCleans PROVE Base'
<1>1. /\ end # None /\ end.pc = "cleaning" /\ end.sid \in Incarnations(rec)
      /\ UNCHANGED <<runtime, rec, live, ended, pendingOld, fenced, tracked, fallback, owed, disc, retry, tx, stop, gaveUp>>
  BY EndIs DEF Base, Typed, EndTyped, EndCleans, session, detached
<1>2. PICK gone \in BOOLEAN, ok \in Outcomes :
        /\ RemoveTree(rec[end.sid].bind, gone)
        /\ store' = Written(store, IF gone THEN RemoveStale(store, Thread, IdOf(rec[end.sid]))
                                           ELSE Companion(store, rec[end.sid]), ok)
  BY DEF EndCleans
<1>3. Good(rec, store') /\ Slot(store') = Slot(store)
  BY <1>1, <1>2, KeepRowIs, DropRowIs DEF Base
<1>4. trees' \subseteq Trees
  BY <1>2, TreesTyped DEF Base, Typed, RuntimeTyped
<1>5. sweep' \in Sweeps(rec)
  BY SettleBase DEF EndCleans, Base, Typed, DetachedTyped
<1>6. end' \in Endings(rec) /\ end' # None /\ end'.pc = "settling" /\ end'.sid = end.sid
  BY <1>1, EndAtBase DEF EndCleans, EndPhases
<1> QED
  BY <1>1, <1>3, <1>4, <1>5, <1>6 DEF Base, Sited, Forward, Owns, OwnsSession, Typed,
     RuntimeTyped, SessionTyped, DetachedTyped, TxTyped, EndTyped

\* Reclaiming the record is the end of `/end`; nobody may be at work on the slot.
LEMMA ReclaimsBase == ASSUME Base, EndReclaims \/ EndReclaimsRecord PROVE Base'
<1>1. /\ end # None /\ end.pc \in {"settling", "reclaiming"} /\ end.sid \in Incarnations(rec)
      /\ Reclaim(rec[end.sid].bind) /\ end' = None
      /\ UNCHANGED <<runtime, rec, live, ended, pendingOld, fenced, tracked, fallback, owed, disc, retry, tx, stop, sweep>>
  BY EndIs DEF Base, Typed, EndTyped, EndReclaims, EndReclaimsRecord, session, detached
<1>2. Good(rec, store')
  BY <1>1, ReclaimIs DEF Base
<1>3. trees' \subseteq Trees /\ gaveUp' \subseteq Incarnations(rec)
  BY <1>1, TreesTyped DEF Base, Typed, RuntimeTyped, SessionTyped, Reclaim
<1>4. tx # None => ~Owns
  BY <1>1, TxIs, IncarnationIs DEF Base, Sited, Owns, OwnsSession
<1> QED
  BY <1>1, <1>2, <1>3, <1>4 DEF Base, Sited, Forward, Owns, OwnsSession, Typed,
     RuntimeTyped, SessionTyped, DetachedTyped, TxTyped, EndTyped

LEMMA EndLooksBase == ASSUME Base, EndLooks PROVE Base'
<1>1. /\ end # None /\ end.pc = "reconciling" /\ end \in Endings(rec)
      /\ UNCHANGED <<store, runtime, rec, trees, live, ended, pendingOld, fenced, tracked, fallback,
                     owed, disc, retry, tx, stop, gaveUp>>
  BY EndIs DEF Base, EndLooks, world, session, detached
<1>2. CASE end' = None /\ UNCHANGED sweep
  BY <1>1, <1>2 DEF Base, Sited, Forward, Owns, OwnsSession, Typed,
     RuntimeTyped, SessionTyped, DetachedTyped, TxTyped, EndTyped
<1>3. CASE Settle("end", tracked) /\ EndAt("rows")
  <2>1. sweep' \in Sweeps(rec)
    BY <1>3, SettleBase DEF Base, Typed, DetachedTyped
  <2>2. end' \in Endings(rec) /\ end' # None /\ end'.pc = "rows" /\ end'.sid = end.sid
    BY <1>1, <1>3, EndAtBase DEF EndPhases
  <2> QED
    BY <1>1, <2>1, <2>2 DEF Base, Sited, Forward, Owns, OwnsSession, Typed,
       RuntimeTyped, SessionTyped, DetachedTyped, TxTyped, EndTyped
<1>4. CASE /\ Primary # None /\ UNCHANGED sweep
           /\ end' = [end EXCEPT !.pc = "reclaiming", !.sid = Primary.sid]
  <2>1. PICK s \in Incarnations(rec) : s = Primary.sid
    BY <1>4, CopyIs DEF Base, Typed, Good, Primary, Slot
  <2>2. end' = [pc |-> "reclaiming", sid |-> s, pending |-> end.pending]
    BY <1>1, <1>4, <2>1 DEF Endings
  <2>3. end' \in Endings(rec) /\ end'.sid # None
    BY <1>1, <2>2, IncarnationIs DEF Endings, EndPhases
  <2> QED
    BY <1>1, <1>4, <2>2, <2>3 DEF Base, Sited, Forward, Owns, OwnsSession, Typed,
       RuntimeTyped, SessionTyped, DetachedTyped, TxTyped, EndTyped
<1> QED
  BY <1>2, <1>3, <1>4 DEF EndLooks

LEMMA EndReapsRowBase == ASSUME Base, EndReapsRow PROVE Base'
<1>1. /\ end # None /\ end.pc = "rows" /\ (end' = end \/ end' = None)
      /\ UNCHANGED <<runtime, rec, live, ended, pendingOld, fenced, tracked, fallback,
                     owed, disc, retry, tx, stop, sweep, gaveUp>>
  BY DEF EndReapsRow, session, detached
<1>2. Good(rec, store') /\ trees' \subseteq Trees /\ Slot(store') = Slot(store)
  <2>1. CASE UNCHANGED <<store, trees>>
    BY <2>1 DEF Base, Typed, RuntimeTyped
  <2>2. ASSUME NEW row \in RowsOf(store, Thread), NEW gone \in BOOLEAN, NEW ok \in Outcomes,
               RemoveTree(row.bind, gone),
               store' = Written(store, RemoveStale(store, Thread, IdOf(row)), gone /\ ok)
        PROVE  Good(rec, store') /\ trees' \subseteq Trees /\ Slot(store') = Slot(store)
    <3>1. row.sid \in Incarnations(rec) /\ IdOf(row) = IdOf(rec[row.sid])
      BY RowIs DEF Base
    <3>2. PICK wrote \in BOOLEAN : wrote <=> gone /\ ok
      OBVIOUS
    <3>3. store' = Written(store, RemoveStale(store, Thread, IdOf(rec[row.sid])), wrote)
      BY <2>2, <3>1, <3>2 DEF Written
    <3>4. Good(rec, store') /\ Slot(store') = Slot(store)
      BY <3>1, <3>3, DropRowIs DEF Base
    <3>5. trees' \subseteq Trees
      BY <2>2, TreesTyped DEF Base, Typed, RuntimeTyped
    <3> QED
      BY <3>4, <3>5
  <2> QED
    BY <1>1, <2>1, <2>2 DEF EndReapsRow
<1> QED
  BY <1>1, <1>2 DEF Base, Sited, Forward, Owns, OwnsSession, Typed,
     RuntimeTyped, SessionTyped, DetachedTyped, TxTyped, EndTyped

-----------------------------------------------------------------------------

LEMMA BaseInit == Init => Base
<1> SUFFICES ASSUME Init PROVE Base
  OBVIOUS
<1>1. PICK s \in Sids, b \in Binds :
        LET r == [sid |-> s, gen |-> 1, state |-> "active", bytes |-> 0, bind |-> b] IN
        /\ store = WithPrimary(EmptyStore, Thread, r)
        /\ runtime = [x \in Sids |-> IF x = s THEN "maybe" ELSE "unused"]
        /\ rec = [x \in Sids |-> IF x = s THEN r ELSE None]
        /\ trees = Trees \cap {b} /\ live = s
  BY DEF Init
<1> DEFINE r == [sid |-> s, gen |-> 1, state |-> "active", bytes |-> 0, bind |-> b]
<1>2. /\ ended = {} /\ pendingOld = {} /\ fenced = {} /\ gaveUp = {}
      /\ tracked = {} /\ owed = {} /\ retry = {} /\ stop = "running"
      /\ fallback = [x \in Sids |-> None] /\ disc = [x \in Sids |-> "idle"]
      /\ tx = None /\ end = None
      /\ sweep = [p \in {"end", "stop"} |-> [todo |-> {}, wait |-> None]]
  BY DEF Init, Nobody
<1>3. r \in Record /\ r.sid = s
  BY DEF Record, States
<1>4. /\ rec = [x \in Sids |-> IF x = s THEN r ELSE None] /\ live = s /\ trees = Trees \cap {b}
      /\ runtime = [x \in Sids |-> IF x = s THEN "maybe" ELSE "unused"]
      /\ store = WithPrimary(EmptyStore, Thread, r)
  BY <1>1
<1> HIDE DEF r
<1>5. s \in Incarnations(rec) /\ r \in Copies(rec)
  BY <1>3, <1>4 DEF Incarnations, Copies, Like
<1>6. Good(rec, store)
  <2>1. StoreShape(EmptyStore) /\ RowsOf(EmptyStore, Thread) = {}
    BY DEF EmptyStore, StoreShape, RowsOf
  <2>2. StoreShape(store) /\ Slot(store) = r /\ store.stale = EmptyStore.stale
    BY <1>3, <1>4, <2>1, WithPrimaryIs
  <2>3. RowsOf(store, Thread) = {}
    BY <2>1, <2>2 DEF RowsOf
  <2> QED
    BY <1>5, <2>2, <2>3 DEF Good
<1>7. RuntimeTyped
  BY <1>3, <1>4, <1>5 DEF RuntimeTyped
<1>8. SessionTyped /\ DetachedTyped /\ TxTyped /\ EndTyped
  BY <1>2, <1>4, <1>5 DEF SessionTyped, DetachedTyped, Sweeps, TxTyped, EndTyped
<1>9. Sited
  BY <1>2 DEF Sited
<1> QED
  BY <1>6, <1>7, <1>8, <1>9 DEF Base, Typed

LEMMA BaseStep == Base /\ [Next]_vars => Base'
<1> SUFFICES ASSUME Base, [Next]_vars PROVE Base'
  OBVIOUS
<1>1. CASE OpenTree
  BY <1>1, OpenTreeBase
<1>2. CASE CaptureFails
  BY <1>2, CaptureFailsBase
<1>3. CASE CaptureAndReserve
  BY <1>3, CaptureBase
<1>4. CASE Unreserved
  BY <1>4, UnreservedBase
<1>5. CASE CreateFails \/ UncommittedCloses
  BY <1>5, ClosesBase DEF Closes
<1>6. CASE CreatedTooLate
  BY <1>6, CreatedTooLateBase
<1>7. CASE Swap
  BY <1>7, SwapBase
<1>8. CASE UncommittedStays
  BY <1>8, UncommittedStaysBase
<1>9. CASE AbandonTracked
  BY <1>9, AbandonTrackedBase
<1>10. CASE AbandonStopped
  BY <1>10, AbandonStoppedBase
<1>11. CASE AbandonUnconfirmed
  BY <1>11, AbandonUnconfirmedBase
<1>12. ASSUME NEW s \in Sids, StaysUnconfirmed(s) PROVE Base'
  BY <1>12, StaysUnconfirmedBase
<1>13. ASSUME NEW s \in Sids, CleanupKept(s) PROVE Base'
  BY <1>13, CleanupKeptBase
<1>14. ASSUME NEW s \in Sids, CleanupDone(s) PROVE Base'
  BY <1>14, CleanupDoneBase
<1>15. ASSUME NEW s \in Sids, CleanupFallback(s) PROVE Base'
  BY <1>15, CleanupFallbackBase
<1>16. CASE EndUnconfirmed
  BY <1>16, EndUnconfirmedBase
<1>17. CASE EndConfirmed
  BY <1>17, EndConfirmedBase
<1>18. CASE EndCleans
  BY <1>18, EndCleansBase
<1>19. CASE EndReclaims \/ EndReclaimsRecord
  BY <1>19, ReclaimsBase
<1>20. CASE EndLooks
  BY <1>20, EndLooksBase
<1>21. CASE EndReapsRow
  BY <1>21, EndReapsRowBase
<1> USE DEF Base, Sited, Forward, Owns, OwnsSession, Typed, RuntimeTyped, SessionTyped,
            DetachedTyped, TxTyped, EndTyped, Transactions, Endings, Sweeps, EndPhases,
            Phases, world, session, detached, procs
<1>22. ASSUME NEW b \in Binds, Begin(b) PROVE Base'
  BY <1>22, SomeTx, SomeEnd DEF Begin, HasUnreconciledFallback
<1>23. CASE Checked
  BY <1>23, SomeTx, SomeEnd DEF Checked, GoTo, Unfence
<1>24. CASE CommitFails
  BY <1>24, SomeTx, SomeEnd DEF CommitFails, GoTo
<1>25. CASE Retired
  BY <1>25, SomeTx, SomeEnd DEF Retired
<1>26. CASE AbandonJoined
  BY <1>26, SomeTx, SomeEnd DEF AbandonJoined
<1>27. CASE Undo
  BY <1>27, SomeTx, SomeEnd DEF Undo, RemoveTree
<1>28. ASSUME NEW s \in Sids, Retry(s) PROVE Base'
  BY <1>28, SomeTx, SomeEnd DEF Retry, Ask
<1>29. ASSUME NEW s \in Sids, Confirmed(s) PROVE Base'
  BY <1>29, SomeTx, SomeEnd DEF Confirmed
<1>30. ASSUME NEW p \in {"end", "stop"}, SettleNext(p) PROVE Base'
  BY <1>30, SomeTx, SomeEnd DEF SettleNext, Ask
<1>31. ASSUME NEW p \in {"end", "stop"}, SettleJoined(p) PROVE Base'
  BY <1>31, SomeTx, SomeEnd DEF SettleJoined
<1>32. CASE EndLive
  BY <1>32, SomeTx, SomeEnd DEF EndLive, AllToRemoval
<1>33. CASE EndStale
  BY <1>33, SomeTx, SomeEnd DEF EndStale, Settle
<1>34. CASE EndRefuses
  BY <1>34, SomeTx, SomeEnd DEF EndRefuses
<1>35. CASE EndReports
  BY <1>35, SomeTx, SomeEnd DEF EndReports
<1>36. CASE Stop
  BY <1>36, SomeTx, SomeEnd DEF Stop, Settle
<1>37. CASE TearDown
  BY <1>37, SomeTx, SomeEnd DEF TearDown, Settle
<1>38. CASE TornDown
  BY <1>38, SomeTx, SomeEnd DEF TornDown, Settle
<1>39. CASE Down
  BY <1>39, SomeTx, SomeEnd DEF Down
<1>40. CASE UNCHANGED vars
  BY <1>40 DEF vars
<1> HIDE DEF Base
<1> QED
  BY <1>1, <1>2, <1>3, <1>4, <1>5, <1>6, <1>7, <1>8, <1>9, <1>10, <1>11, <1>12, <1>13,
     <1>14, <1>15, <1>16, <1>17, <1>18, <1>19, <1>20, <1>21, <1>22, <1>23, <1>24, <1>25,
     <1>26, <1>27, <1>28, <1>29, <1>30, <1>31, <1>32, <1>33, <1>34, <1>35, <1>36, <1>37,
     <1>38, <1>39, <1>40
     DEF Next, RebindStep, EndStep, StopStep, Teardown

\* Of every session id, record, row and plan the rebinds, `/end` and the shutdown
\* of a thread remember, each names an incarnation there has been, by the id,
\* the generation and the binding it was created under; and while a rebind owns
\* the thread, the slot holds the reservation that rebind made.
THEOREM BaseHolds == Spec => []Base
<1>1. Init => Base
  BY BaseInit
<1>2. Base /\ [Next]_vars => Base'
  BY BaseStep
<1> QED
  BY <1>1, <1>2, PTL DEF Spec

-----------------------------------------------------------------------------
(* Every runtime is somebody's.                                             *)

\* The types alone, the store's left out.
Plain ==
    /\ runtime \in [Sids -> {"unused", "starting", "maybe", "stopped"}]
    /\ None \notin Sids
    /\ live \in Sids \cup {None} /\ ended \subseteq Sids /\ pendingOld \subseteq Sids
    /\ tracked \subseteq Sids /\ owed \subseteq Sids /\ retry \subseteq Sids
    /\ fallback \in [Sids -> Record \cup {None, Removal}]
    /\ disc \in [Sids -> {"idle", "asked", "cleaning"}]
    /\ tx # None => tx \in Transaction
    /\ end # None => end \in Ending
    /\ None \notin Transaction \cup Ending
    /\ end # None /\ end.pc \notin {"reconciling", "rows"} => end.sid # None

LEMMA BasePlain == Base => Plain
<1> SUFFICES ASSUME Base PROVE Plain
  OBVIOUS
<1>1. Copies(rec) \subseteq Record /\ Incarnations(rec) \subseteq Sids
  BY DEF Copies, Incarnations
<1> QED
  BY <1>1, NoneIsNoCommand, RebindAssumption
     DEF Base, Typed, RuntimeTyped, SessionTyped, DetachedTyped, TxTyped, EndTyped,
         Plain, Transactions, Transaction, Endings, Ending

\* It exists, and has been answered for.
Begun(s) == runtime[s] \in {"maybe", "stopped"}

\* Nothing is lost with the memory of it: it is stopped, or holds the lock.
Held(s) == runtime[s] = "stopped" \/ (runtime[s] = "maybe" /\ s \in owed)

GatedRuntimes ==
    /\ RuntimeGatesLock
    /\ live # None => Begun(live)
    /\ \A s \in Sids :
        /\ runtime[s] = "starting" => tx # None /\ tx.pc = "creating" /\ tx.new = s
        /\ s \in owed => Begun(s)
        /\ s \in tracked => Held(s)
        /\ disc[s] # "idle" => s \in tracked
        /\ disc[s] = "cleaning" => runtime[s] = "stopped"

GatedTx ==
    tx # None =>
        /\ tx.pc \in {"checking", "opening", "capturing", "unreserved"} => tx.new = None
        /\ tx.pc = "creating" => tx.new # None /\ runtime[tx.new] = "starting"
        /\ tx.pc = "uncommitted" => tx.new # None /\ Begun(tx.new)
        /\ tx.pc = "abandoning" => tx.new = None \/ Begun(tx.new)
        /\ tx.pc = "retiring" => tx.new # None /\ (tx.new = live \/ Held(tx.new))
        /\ tx.pc = "joining" => tx.new # None /\ Held(tx.new)
        /\ tx.pc = "undoing" => tx.new = None \/ runtime[tx.new] = "stopped"

GatedEnd ==
    end # None =>
        /\ end.pc \in {"asking", "joining"} =>
             end.sid \in ended /\ Begun(end.sid) /\ live \in {None, end.sid}
        /\ end.pc \in {"cleaning", "settling"} => runtime[end.sid] = "stopped" /\ live = None

Gated ==
    /\ GatedRuntimes /\ GatedTx /\ GatedEnd
    /\ stop = "asking" /\ live # None => Held(live)

\* Only the replacement's runtime has moved, from nobody's to the rebind's.
LEMMA GatedAnswers ==
    ASSUME Plain, Gated, tx # None, tx.new \in Sids, NEW y \in {"maybe", "stopped"},
           runtime' = [runtime EXCEPT ![tx.new] = y],
           tx.pc = "creating" \/ y = "stopped",
           tx' # None, tx'.new = tx.new, tx'.pc # "creating",
           UNCHANGED <<live, ended, tracked, owed, disc, end, stop>>
    PROVE  GatedRuntimes' /\ GatedEnd' /\ (stop' = "asking" /\ live' # None => Held(live)')
<1>1. \A s \in Sids : runtime'[s] = IF s = tx.new THEN y ELSE runtime[s]
  BY DEF Plain
<1>2. ASSUME NEW s \in Sids, Begun(s) PROVE Begun(s)'
  BY <1>1, <1>2 DEF Begun
<1>3. ASSUME NEW s \in Sids, Held(s) PROVE Held(s)'
  BY <1>1, <1>3 DEF Held, Gated, GatedTx
<1>4. GatedRuntimes'
  <2>1. RuntimeGatesLock'
    BY <1>1 DEF Gated, GatedRuntimes, RuntimeGatesLock
  <2>2. live' # None => Begun(live)'
    BY <1>2 DEF Gated, GatedRuntimes, Plain
  <2>3. ASSUME NEW s \in Sids
        PROVE  /\ runtime'[s] # "starting"
               /\ s \in owed' => Begun(s)'
               /\ s \in tracked' => Held(s)'
               /\ disc'[s] # "idle" => s \in tracked'
               /\ disc'[s] = "cleaning" => runtime'[s] = "stopped"
    <3>1. runtime[s] = "starting" => s = tx.new
      BY DEF Gated, GatedRuntimes
    <3>2. disc[s] = "cleaning" => s # tx.new \/ y = "stopped"
      BY DEF Gated, GatedRuntimes, GatedTx
    <3> QED
      BY <1>1, <1>2, <1>3, <3>1, <3>2 DEF Gated, GatedRuntimes
  <2> QED
    BY <2>1, <2>2, <2>3 DEF GatedRuntimes
<1>5. GatedEnd'
  <2>1. end # None /\ end.pc \notin {"reconciling", "rows"} => end.sid \in Sids
    BY DEF Plain, Ending
  <2> QED
    BY <1>1, <2>1 DEF Gated, GatedTx, GatedEnd, Begun
<1> QED
  BY <1>3, <1>4, <1>5 DEF Gated, Plain


LEMMA OpenTreeGated == ASSUME Plain, Gated, OpenTree PROVE Gated'
<1>1. tx # None /\ tx.new = None /\ UNCHANGED <<runtime, live, ended, tracked, owed, disc, end, stop>>
  BY DEF Gated, GatedTx, OpenTree, detached
<1>2. \/ tx' = None
      \/ tx' # None /\ tx'.pc \in {"capturing", "undoing"} /\ tx'.new = tx.new
  <2>1. CASE tx' # None
    <3>1. PICK p \in {"capturing", "undoing"} : tx' = [tx EXCEPT !.created = TRUE, !.pc = p]
      BY <2>1 DEF OpenTree
    <3> QED
      BY <1>1, <2>1, <3>1 DEF Plain, Transaction
  <2> QED
    BY <2>1
<1>3. GatedTx'
  BY <1>1, <1>2 DEF GatedTx
<1>4. GatedRuntimes'
  BY <1>1, <1>2, RebindAssumption DEF Gated, GatedRuntimes, RuntimeGatesLock, Begun, Held, OpenTree
<1> QED
  BY <1>1, <1>3, <1>4 DEF Gated, GatedEnd, Begun, Held

LEMMA CaptureFailsGated == ASSUME Base, Plain, Gated, CaptureFails PROVE Gated'
<1>1. /\ tx # None /\ tx.pc = "capturing" /\ tx.new = None
      /\ UNCHANGED <<runtime, live, ended, tracked, owed, disc, end, stop>>
  BY DEF Gated, GatedTx, CaptureFails, world
<1>2. tx' # None /\ tx'.pc \in {"undoing", "abandoning"} /\ tx'.new = None
  BY <1>1, OnwardBase DEF CaptureFails
<1>3. GatedTx'
  BY <1>2 DEF GatedTx
<1>4. GatedRuntimes'
  BY <1>1, <1>2 DEF Gated, GatedRuntimes, RuntimeGatesLock, Begun, Held, Plain
<1> QED
  BY <1>1, <1>3, <1>4 DEF Gated, GatedEnd, Begun, Held

LEMMA CaptureGated == ASSUME Base, Plain, Gated, CaptureAndReserve PROVE Gated'
<1>1. /\ tx # None /\ tx.pc = "capturing" /\ tx.new = None
      /\ UNCHANGED <<live, ended, tracked, owed, disc, end, stop>>
  BY DEF Gated, GatedTx, CaptureAndReserve, detached
<1>2. CASE Slot(store) = None
  <2>1. GoTo("undoing") /\ UNCHANGED runtime
    BY <1>2 DEF CaptureAndReserve, Primary, Slot
  <2>2. tx' # None /\ tx'.pc = "undoing" /\ tx'.new = None
    BY <1>1, <2>1, OnwardBase
  <2> QED
    BY <1>1, <2>1, <2>2 DEF Gated, GatedRuntimes, GatedTx, GatedEnd, RuntimeGatesLock, Begun, Held, Plain
<1>3. CASE Slot(store) # None
  <2>1. PICK kept \in Outcomes, reserved \in Outcomes, s \in Sids : Captured(kept, reserved, s)
    BY <1>3, CaptureIs DEF Base
  <2>2. PICK prev : prev = Slot(store)
    OBVIOUS
  <2>3. CASE kept /\ reserved
    <3>1. /\ tx' = [tx EXCEPT !.pc = "creating", !.new = s, !.prev = prev]
          /\ runtime' = [runtime EXCEPT ![s] = "starting"] /\ runtime[s] = "unused"
      BY <2>1, <2>2, <2>3 DEF Captured
    <3>2. tx' = [pc |-> "creating", old |-> tx.old, new |-> s, prev |-> prev,
                 bind |-> tx.bind, created |-> tx.created, lost |-> tx.lost]
      BY <1>1, <3>1 DEF Plain, Transaction
    <3>3. tx' # None
      <4>1. prev \in Record
        BY <1>3, <2>2, CopyIs DEF Base, Typed, Good
      <4>2. tx' \in Transaction
        BY <1>1, <3>2, <4>1 DEF Plain, Transaction, Phases
      <4> QED
        BY <4>2 DEF Plain
    <3>4. \A x \in Sids : runtime'[x] = IF x = s THEN "starting" ELSE runtime[x]
      BY <3>1 DEF Plain
    <3>5. GatedRuntimes'
      BY <1>1, <3>1, <3>2, <3>3, <3>4 DEF Gated, GatedRuntimes, RuntimeGatesLock, Begun, Held, Plain
    <3>6. GatedTx'
      BY <3>2, <3>4 DEF GatedTx, Plain
    <3>7. GatedEnd'
      <4>1. end # None /\ end.pc \notin {"reconciling", "rows"} => end.sid \in Sids
        BY DEF Plain, Ending
      <4> QED
        BY <1>1, <3>1, <3>4, <4>1 DEF Gated, GatedEnd, Begun
    <3> QED
      BY <1>1, <3>1, <3>4, <3>5, <3>6, <3>7 DEF Gated, Held, Plain
  <2>4. CASE ~(kept /\ reserved)
    <3>1. tx' # None /\ tx'.pc \in {"unreserved", "undoing"} /\ tx'.new = None /\ UNCHANGED runtime
      <4>1. CASE kept
        <5>1. tx' = [tx EXCEPT !.pc = "unreserved", !.prev = prev] /\ UNCHANGED runtime
          BY <2>1, <2>2, <2>4, <4>1 DEF Captured
        <5>2. tx' = [pc |-> "unreserved", old |-> tx.old, new |-> None, prev |-> prev,
                     bind |-> tx.bind, created |-> tx.created, lost |-> tx.lost]
          BY <1>1, <5>1 DEF Plain, Transaction
        <5>3. prev \in Record
          BY <1>3, <2>2, CopyIs DEF Base, Typed, Good
        <5>4. tx' \in Transaction
          BY <1>1, <5>2, <5>3 DEF Plain, Transaction, Phases
        <5>5. tx' # None
          BY <5>4 DEF Plain
        <5>6. UNCHANGED runtime
          BY <5>1
        <5> QED
          BY <5>2, <5>5, <5>6
      <4>2. CASE ~kept
        BY <1>1, <2>1, <2>4, <4>2, OnwardBase DEF Captured
      <4> QED
        BY <4>1, <4>2
    <3> QED
      BY <1>1, <3>1 DEF Gated, GatedRuntimes, GatedTx, GatedEnd, RuntimeGatesLock, Begun, Held, Plain
  <2> QED
    BY <2>3, <2>4
<1> QED
  BY <1>2, <1>3

LEMMA UnreservedGated == ASSUME Base, Plain, Gated, Unreserved PROVE Gated'
<1>1. /\ tx # None /\ tx.pc = "unreserved" /\ tx.new = None /\ (GoTo("undoing") \/ GiveWay(tx))
      /\ UNCHANGED <<runtime, live, ended, tracked, owed, disc, end, stop>>
  BY DEF Gated, GatedTx, Unreserved, world
<1>2. tx' # None /\ tx'.pc \in {"undoing", "abandoning"} /\ tx'.new = None
  BY <1>1, OnwardBase
<1> QED
  BY <1>1, <1>2 DEF Gated, GatedRuntimes, GatedTx, GatedEnd, RuntimeGatesLock, Begun, Held, Plain

LEMMA ClosesGated == ASSUME Base, Plain, Gated, Closes PROVE Gated'
<1>1. /\ tx # None /\ tx.pc \in {"creating", "uncommitted"} /\ tx.new # None /\ tx.new \in Sids
      /\ runtime' = [runtime EXCEPT ![tx.new] = "stopped"]
      /\ UNCHANGED <<live, ended, tracked, owed, disc, end, stop>>
      /\ tx' # None /\ tx'.pc \in {"undoing", "abandoning"} /\ tx'.new = tx.new
  BY ClosesIs DEF Incarnations
<1>2. GatedRuntimes' /\ GatedEnd' /\ (stop' = "asking" /\ live' # None => Held(live)')
  BY <1>1, GatedAnswers
<1>3. GatedTx'
  BY <1>1 DEF GatedTx, Begun, Plain
<1> QED
  BY <1>2, <1>3 DEF Gated

LEMMA CreatedGated == ASSUME Base, Plain, Gated, CreatedTooLate \/ CommitFails PROVE Gated'
<1>1. /\ tx # None /\ tx.pc = "creating" /\ tx.new # None /\ tx.new \in Sids
      /\ runtime' = [runtime EXCEPT ![tx.new] = "maybe"]
      /\ UNCHANGED <<live, ended, tracked, owed, disc, end, stop>>
      /\ GiveWay(tx) \/ GoTo("uncommitted")
  BY DEF Gated, GatedTx, Plain, Transaction, CreatedTooLate, CommitFails, session, detached
<1>2. tx' # None /\ tx'.pc \in {"uncommitted", "abandoning"} /\ tx'.new = tx.new
  BY <1>1, OnwardBase
<1>3. GatedRuntimes' /\ GatedEnd' /\ (stop' = "asking" /\ live' # None => Held(live)')
  BY <1>1, <1>2, GatedAnswers
<1>4. GatedTx'
  BY <1>1, <1>2 DEF GatedTx, Begun, Plain
<1> QED
  BY <1>3, <1>4 DEF Gated

\* A confirmed incarnation holds nothing any more.
LEMMA CleanupGated ==
    ASSUME Plain, Gated, NEW s \in Sids, CleanupKept(s) \/ CleanupDone(s) \/ CleanupFallback(s)
    PROVE  Gated'
<1>1. /\ disc[s] = "cleaning" /\ tracked' \subseteq tracked /\ owed' = owed \ {s}
      /\ disc' = [disc EXCEPT ![s] = "idle"]
      /\ UNCHANGED <<runtime, live, ended, tx, end, stop>>
      /\ \A x \in Sids : x # s /\ x \in tracked => x \in tracked'
  BY DEF CleanupKept, CleanupDone, CleanupFallback, session, procs
<1>2. runtime[s] = "stopped"
  BY <1>1 DEF Gated, GatedRuntimes
<1>3. \A x \in Sids : disc'[x] = IF x = s THEN "idle" ELSE disc[x]
  BY <1>1 DEF Plain
<1>4. ASSUME NEW x \in Sids
      PROVE  (Held(x) => Held(x)') /\ (Begun(x) => Begun(x)')
  BY <1>1, <1>2 DEF Held, Begun, Plain
<1>5. GatedRuntimes'
  BY <1>1, <1>2, <1>3, <1>4 DEF Gated, GatedRuntimes, RuntimeGatesLock, Plain
<1>6. GatedTx' /\ GatedEnd'
  <2>1. GatedTx'
    BY <1>1, <1>2 DEF Gated, GatedTx, Begun, Held, Plain
  <2>2. GatedEnd'
    BY <1>1 DEF Gated, GatedEnd, Begun, Plain
  <2> QED
    BY <2>1, <2>2
<1> QED
  BY <1>1, <1>4, <1>5, <1>6 DEF Gated, Plain

\* The old conversation is confirmed stopped, and the map lets go of it.
LEMMA GatedUnmaps ==
    ASSUME Plain, Gated, NEW s \in Sids, Begun(s), live \in {None, s},
           runtime' = [runtime EXCEPT ![s] = "stopped"], live' = None,
           UNCHANGED <<tracked, disc, tx>>, owed' \in {owed, owed \ {s}}
    PROVE  GatedRuntimes' /\ GatedTx' /\ \A x \in Sids : Begun(x) => Begun(x)'
<1>1. \A x \in Sids : runtime'[x] = IF x = s THEN "stopped" ELSE runtime[x]
  BY DEF Plain
<1>2. ASSUME NEW x \in Sids
      PROVE  (Held(x) => Held(x)') /\ (Begun(x) => Begun(x)')
  BY <1>1 DEF Held, Begun
<1>3. GatedRuntimes'
  <2>1. RuntimeGatesLock'
    BY <1>1 DEF Gated, GatedRuntimes, RuntimeGatesLock
  <2>2. ASSUME NEW x \in Sids
        PROVE  /\ runtime'[x] = "starting" => tx' # None /\ tx'.pc = "creating" /\ tx'.new = x
               /\ x \in owed' => Begun(x)'
               /\ x \in tracked' => Held(x)'
               /\ disc'[x] # "idle" => x \in tracked'
               /\ disc'[x] = "cleaning" => runtime'[x] = "stopped"
    BY <1>1, <1>2 DEF Gated, GatedRuntimes
  <2> QED
    BY <2>1, <2>2 DEF GatedRuntimes
<1>4. GatedTx'
  <2>1. tx # None => tx.new \in Sids \cup {None}
    BY DEF Plain, Transaction
  <2>2. tx # None /\ tx.pc = "creating" => tx.new # s
    BY DEF Gated, GatedTx, Begun
  <2>3. tx # None /\ tx.pc = "retiring" /\ tx.new = live => tx.new = s
    BY DEF Gated, GatedTx
  <2> QED
    BY <1>1, <1>2, <2>1, <2>2, <2>3 DEF Gated, GatedTx, Begun, Held
<1> QED
  BY <1>2, <1>3, <1>4

LEMMA EndConfirmedGated == ASSUME Plain, Gated, EndConfirmed PROVE Gated'
<1>1. /\ end # None /\ end.pc = "asking" /\ end.sid \in Sids /\ Begun(end.sid) /\ live \in {None, end.sid}
      /\ runtime' = [runtime EXCEPT ![end.sid] = "stopped"] /\ live' = None
      /\ UNCHANGED <<tracked, owed, disc, tx, stop>>
      /\ EndAt("settling") \/ EndAt("cleaning")
  BY DEF Plain, Ending, Gated, GatedEnd, EndConfirmed, detached
<1>2. end'.pc \in {"settling", "cleaning"} /\ end'.sid = end.sid
  <2>1. PICK p \in {"settling", "cleaning"} : end' = [end EXCEPT !.pc = p]
    BY <1>1 DEF EndAt
  <2>2. end \in Ending
    BY <1>1 DEF Plain
  <2> QED
    BY <2>1, <2>2 DEF Ending
<1>3. GatedRuntimes' /\ GatedTx'
  BY <1>1, GatedUnmaps
<1>4. runtime'[end.sid] = "stopped"
  BY <1>1 DEF Plain
<1>5. GatedEnd'
  BY <1>1, <1>2, <1>4 DEF GatedEnd
<1> QED
  BY <1>1, <1>3, <1>5 DEF Gated

LEMMA TornDownGated == ASSUME Plain, Gated, TornDown PROVE Gated'
<1>1. /\ stop = "asking" /\ live' = None /\ stop' = "settling"
      /\ UNCHANGED <<tracked, disc, tx, end, ended>>
  BY DEF TornDown
<1>2. CASE live # None /\ runtime' = [runtime EXCEPT ![live] = "stopped"] /\ owed' = owed \ {live}
  <2>1. live \in Sids /\ Begun(live)
    BY <1>2 DEF Plain, Gated, GatedRuntimes
  <2>2. PICK s : s = live
    OBVIOUS
  <2>3. GatedRuntimes' /\ GatedTx' /\ \A x \in Sids : Begun(x) => Begun(x)'
    BY <1>1, <1>2, <2>1, <2>2, GatedUnmaps
  <2>4. GatedEnd'
    <3>1. end # None /\ end.pc \notin {"reconciling", "rows"} => end.sid \in Sids
      BY DEF Plain, Ending
    <3> QED
      BY <1>1, <1>2, <3>1 DEF Gated, GatedEnd, Begun, Plain
  <2> QED
    BY <1>1, <2>3, <2>4 DEF Gated
<1>3. CASE UNCHANGED <<runtime, owed>>
  <2>1. live # None => Held(live)
    BY <1>1 DEF Gated
  <2> QED
    BY <1>1, <1>3, <2>1 DEF Gated, GatedRuntimes, GatedTx, GatedEnd, RuntimeGatesLock, Begun, Held, Plain
<1> QED
  BY <1>2, <1>3 DEF TornDown

LEMMA UncommittedStaysGated == ASSUME Base, Plain, Gated, UncommittedStays PROVE Gated'
<1>1. /\ tx # None /\ tx.pc = "uncommitted" /\ tx.new # None /\ tx.new \in Sids /\ Begun(tx.new)
      /\ tracked' = tracked \cup {tx.new} /\ owed' = owed \cup {tx.new}
      /\ UNCHANGED <<runtime, live, ended, disc, end, stop>>
  BY UncommittedStaysIs DEF Gated, GatedTx, Keep, Incarnations
<1>2. tx' # None => tx'.pc = "abandoning" /\ tx'.new = tx.new
  <2>1. tx' = None \/ GiveWay(tx)
    BY UncommittedStaysIs DEF Stays
  <2> QED
    BY <1>1, <2>1, OnwardBase
<1>3. \A s \in Sids : (Begun(s) => Begun(s)') /\ (Held(s) => Held(s)') /\ (s = tx.new => Held(s)')
  BY <1>1 DEF Begun, Held
<1>4. GatedRuntimes'
  BY <1>1, <1>3 DEF Gated, GatedRuntimes, RuntimeGatesLock, Plain
<1>5. GatedTx' /\ GatedEnd'
  BY <1>1, <1>2, <1>3 DEF Gated, GatedTx, GatedEnd, Begun
<1> QED
  BY <1>1, <1>3, <1>4, <1>5 DEF Gated, Plain

LEMMA EndLooksGated == ASSUME Plain, Gated, EndLooks PROVE Gated'
<1>1. /\ end # None /\ end \in Ending
      /\ UNCHANGED <<runtime, live, ended, tracked, owed, disc, tx, stop>>
  BY DEF EndLooks, world, session, detached, Plain
<1>2. end' # None => end'.pc \in {"rows", "reclaiming"}
  <2>1. CASE EndAt("rows")
    BY <1>1, <2>1 DEF EndAt, Ending
  <2>2. CASE end' = [end EXCEPT !.pc = "reclaiming", !.sid = Primary.sid]
    <3>1. PICK s : s = Primary.sid
      OBVIOUS
    <3>2. end' = [end EXCEPT !.pc = "reclaiming", !.sid = s]
      BY <2>2, <3>1
    <3> QED
      BY <1>1, <3>2 DEF Ending
  <2> QED
    BY <2>1, <2>2 DEF EndLooks
<1>3. GatedRuntimes' /\ GatedTx'
  BY <1>1 DEF Gated, GatedRuntimes, GatedTx, RuntimeGatesLock, Begun, Held
<1> QED
  BY <1>1, <1>2, <1>3 DEF Gated, GatedEnd, Held

LEMMA GatedStep == Base /\ Gated /\ [Next]_vars => Gated'
<1> SUFFICES ASSUME Base, Plain, Gated, [Next]_vars PROVE Gated'
  BY BasePlain
<1>1. CASE OpenTree
  BY <1>1, OpenTreeGated
<1>2. CASE CaptureFails
  BY <1>2, CaptureFailsGated
<1>3. CASE CaptureAndReserve
  BY <1>3, CaptureGated
<1>4. CASE Unreserved
  BY <1>4, UnreservedGated
<1>5. CASE CreateFails
  BY <1>5, ClosesGated DEF Closes
<1>6. CASE UncommittedCloses
  BY <1>6, ClosesGated DEF Closes
<1>7. CASE CreatedTooLate
  BY <1>7, CreatedGated
<1>8. CASE CommitFails
  BY <1>8, CreatedGated
<1>9. CASE EndConfirmed
  BY <1>9, EndConfirmedGated
<1>10. CASE TornDown
  BY <1>10, TornDownGated
<1>11. ASSUME NEW s \in Sids, CleanupKept(s) PROVE Gated'
  BY <1>11, CleanupGated
<1>12. ASSUME NEW s \in Sids, CleanupDone(s) PROVE Gated'
  BY <1>12, CleanupGated
<1>13. ASSUME NEW s \in Sids, CleanupFallback(s) PROVE Gated'
  BY <1>13, CleanupGated
<1>14. CASE UncommittedStays
  BY <1>14, UncommittedStaysGated
<1>15. CASE EndLooks
  BY <1>15, EndLooksGated
<1> USE DEF Gated, GatedRuntimes, GatedTx, GatedEnd, RuntimeGatesLock, Begun, Held, Plain,
            Transaction, Ending, world, session, detached, procs, GoTo, GiveWay, Keep, Ask,
            EndAt, Owns, OwnsSession, HasReplacement
<1>16. ASSUME NEW b \in Binds, Begin(b) PROVE Gated'
  BY <1>16 DEF Begin
<1>17. CASE Checked
  BY <1>17 DEF Checked
<1>18. CASE Swap
  BY <1>18 DEF Swap
<1>19. CASE Retired
  BY <1>19 DEF Retired
<1>20. CASE AbandonTracked
  BY <1>20 DEF AbandonTracked
<1>21. CASE AbandonJoined
  BY <1>21 DEF AbandonJoined
<1>22. CASE AbandonStopped
  BY <1>22 DEF AbandonStopped
<1>23. CASE AbandonUnconfirmed
  BY <1>23 DEF AbandonUnconfirmed
<1>24. CASE Undo
  BY <1>24 DEF Undo
<1>25. CASE EndLive
  BY <1>25 DEF EndLive
<1>26. CASE EndStale
  BY <1>26 DEF EndStale
<1>27. CASE EndUnconfirmed
  BY <1>27 DEF EndUnconfirmed
<1>28. CASE EndRefuses
  BY <1>28 DEF EndRefuses
<1>29. CASE EndCleans
  BY <1>29 DEF EndCleans
<1>30. CASE EndReports
  BY <1>30 DEF EndReports
<1>31. CASE EndReclaims
  BY <1>31 DEF EndReclaims
<1>32. CASE EndReclaimsRecord
  BY <1>32 DEF EndReclaimsRecord
<1>33. CASE EndReapsRow
  BY <1>33 DEF EndReapsRow
<1>34. CASE Stop
  BY <1>34 DEF Stop
<1>35. CASE TearDown
  BY <1>35 DEF TearDown
<1>36. CASE Down
  BY <1>36 DEF Down
<1>37. ASSUME NEW s \in Sids, Retry(s) PROVE Gated'
  BY <1>37 DEF Retry
<1>38. ASSUME NEW s \in Sids, StaysUnconfirmed(s) PROVE Gated'
  BY <1>38 DEF StaysUnconfirmed
<1>39. ASSUME NEW s \in Sids, Confirmed(s) PROVE Gated'
  BY <1>39 DEF Confirmed
<1>40. ASSUME NEW p \in {"end", "stop"}, SettleNext(p) PROVE Gated'
  BY <1>40 DEF SettleNext
<1>41. ASSUME NEW p \in {"end", "stop"}, SettleJoined(p) PROVE Gated'
  BY <1>41 DEF SettleJoined
<1>42. CASE UNCHANGED vars
  BY <1>42 DEF vars
<1> HIDE DEF Gated
<1> QED
  BY <1>1, <1>2, <1>3, <1>4, <1>5, <1>6, <1>7, <1>8, <1>9, <1>10, <1>11, <1>12, <1>13,
     <1>14, <1>15, <1>16, <1>17, <1>18, <1>19, <1>20, <1>21, <1>22, <1>23, <1>24, <1>25,
     <1>26, <1>27, <1>28, <1>29, <1>30, <1>31, <1>32, <1>33, <1>34, <1>35, <1>36, <1>37,
     <1>38, <1>39, <1>40, <1>41, <1>42
     DEF Next, RebindStep, EndStep, StopStep, Teardown

LEMMA GatedInit == Init => Gated
  BY RebindAssumption DEF Init, Gated, GatedRuntimes, GatedTx, GatedEnd, RuntimeGatesLock, Begun, Held

\* A runtime nobody could prove stopped is the live session's, the running
\* rebind's, or an obligation that holds the process lock, whatever `/end`, the
\* retries and the shutdown did meanwhile and whatever could not be written.
THEOREM NobodysRuntime == Spec => []RuntimeGatesLock
<1>1. Init => Base /\ Gated
  BY BaseInit, GatedInit
<1>2. Base /\ Gated /\ [Next]_vars => (Base /\ Gated)'
  BY BaseStep, GatedStep
<1>3. Gated => RuntimeGatesLock
  BY DEF Gated, GatedRuntimes
<1> QED
  BY <1>1, <1>2, <1>3, PTL DEF Spec

-----------------------------------------------------------------------------
(* Every runtime has its row.                                               *)

Row(s) == s \in Rowed(store)
Cur(s) == Slot(store) # None /\ Slot(store).sid = s
Creating == Slot(store) # None /\ Slot(store).state = "creating"
Active(s) == Cur(s) /\ Slot(store).state = "active"

\* Named by what no rollback takes away.
Pointed(s) == Row(s) \/ Active(s)

Fallen == \E s \in Sids : fallback[s] # None

AccountRuntimes ==
    \A s \in Sids :
        /\ runtime[s] \in {"starting", "maybe"} => Row(s) \/ Cur(s)
        /\ runtime[s] = "maybe" =>
             /\ s \in tracked /\ fallback[s] = None => Pointed(s)
             /\ stop \in {"running", "sweeping"} =>
                  s = live \/ s \in tracked \/ (tx # None /\ tx.new = s)

AccountLive ==
    live # None =>
        /\ live \notin pendingOld => Active(live)
        /\ runtime[live] = "maybe" => Pointed(live)
        /\ live \in pendingOld /\ OwnsSession(live) =>
             Creating \/ (tx # None /\ tx.pc = "unreserved")

AccountPlans ==
    \A s \in Sids : fallback[s] # None =>
        /\ s # live /\ s \notin ended
        /\ fallback[s] # Removal => fallback[s].state = "active"
        /\ live # None /\ OwnsSession(live) => fallback[s] # Removal /\ fallback[s].sid = live

AccountTx ==
    tx # None =>
        /\ tx.new # tx.old
        /\ tx.prev # None => tx.prev.sid = tx.old /\ tx.prev.state = "active"
        /\ tx.pc # "retiring" => live \in {None, tx.old}
        /\ tx.pc = "retiring" /\ stop \in {"running", "sweeping"} /\ runtime[tx.new] = "maybe" =>
             tx.new = live
        /\ tx.pc = "joining" /\ runtime[tx.new] = "maybe" => tx.new \in tracked
        /\ tx.pc = "abandoning" => ~Owns
        /\ tx.pc \in {"checking", "opening", "capturing", "unreserved"} /\ Owns => Active(tx.old)
        /\ tx.pc \in {"creating", "uncommitted"} /\ Owns => tx.old \in pendingOld
        /\ tx.pc \in {"creating", "uncommitted", "abandoning"} /\ tx.new # None =>
             tx.new \notin ended /\ tx.new \notin pendingOld /\ tx.new # live

AccountEnd ==
    end # None =>
        /\ end.pc \in {"asking", "joining", "cleaning", "settling"} => end.sid \in ended
        /\ end.pc = "cleaning" => end.pending
        /\ end.pc \in {"asking", "joining", "settling"} /\ ~end.pending =>
             Slot(store) = None \/ (Cur(end.sid) /\ ~Creating)
        /\ end.pc = "asking" /\ runtime[end.sid] = "maybe" => Pointed(end.sid)
        /\ end.pc \in {"reconciling", "reclaiming", "rows"} =>
             /\ live = None /\ tx = None
             /\ \A s \in Sids : runtime[s] = "maybe" => s \in tracked
        /\ end.pc = "reclaiming" => ~Fallen /\ (Slot(store) = None \/ Slot(store).state # "active")

Account == AccountRuntimes /\ AccountLive /\ AccountPlans /\ AccountTx /\ AccountEnd

\* A rebind that owns the thread has it to itself: no `/end` is under way.
LEMMA OwnsAlone ==
    ASSUME Base, Plain, Gated, tx # None, Owns
    PROVE  end = None /\ live = tx.old /\ live \in Sids /\ live # None /\ live \notin ended /\ stop = "running"
<1>1. tx.old \in Sids /\ live = tx.old /\ live # None /\ live \notin ended /\ stop = "running"
  BY DEF Plain, Transaction, Owns, OwnsSession
<1>2. ASSUME end # None PROVE FALSE
  <2>1. end.pc \in {"asking", "joining"}
    BY <1>1, <1>2 DEF Base, Sited
  <2> QED
    BY <1>1, <1>2, <2>1 DEF Gated, GatedEnd
<1> QED
  BY <1>1, <1>2

\* Before the swap nothing waits for its worktree, so there are no plans to change.
LEMMA NoPlans ==
    ASSUME Base, Plain, tx # None, tx.pc \in Forward
    PROVE  AllToRemoval = fallback /\ \A s \in Sids : fallback[s] = None
<1>1. \A s \in Sids : fallback[s] = None
  BY DEF Base, Sited
<1> QED
  BY <1>1 DEF AllToRemoval, Plain

\* A rebind that only goes on, or gives way, changes nobody's row.
Moves ==
    /\ tx # None /\ tx' # None /\ tx'.old = tx.old /\ tx'.new = tx.new /\ tx'.prev = tx.prev
    /\ tx.pc \in {"checking", "opening", "capturing", "unreserved", "creating", "abandoning"}
    /\ tx'.pc \in {"opening", "capturing", "uncommitted", "abandoning", "joining", "undoing"}
    /\ tx.pc = "unreserved" \/ tx'.pc = "abandoning" => ~Owns
    /\ tx'.pc \in {"opening", "capturing"} => tx.pc \in {"checking", "opening"}
    /\ tx'.pc = "uncommitted" => tx.pc = "creating"
    /\ tx'.pc = "abandoning" => tx.pc \in {"capturing", "unreserved", "creating"}
    /\ tx'.pc = "joining" => tx.new \in tracked
    /\ \A s \in Sids : \/ runtime'[s] = runtime[s]
                       \/ tx.pc = "creating" /\ s = tx.new /\ runtime'[s] = "maybe"
    /\ UNCHANGED <<store, live, ended, pendingOld, tracked, fallback, end, stop>>

LEMMA AccountMoves ==
    ASSUME Base, Plain, Gated, Account, Moves
    PROVE  Account'
<1>1. tx.new \in Sids \cup {None} /\ tx.old \in Sids
  BY DEF Moves, Plain, Transaction
<1>2. tx.pc = "creating" =>
        /\ tx.new # None /\ runtime[tx.new] = "starting" /\ tx.new \notin tracked
        /\ tx.new \notin ended /\ tx.new # live
  BY <1>1 DEF Moves, Gated, GatedTx, GatedRuntimes, Held, Account, AccountTx
<1>3. AccountRuntimes'
  BY <1>2 DEF Moves, Account, AccountRuntimes, Row, Cur, Pointed, Active
<1>4. AccountLive'
  BY <1>2 DEF Moves, Account, AccountLive, AccountTx, Plain, Pointed, Row, Active, Cur, Creating, Owns, OwnsSession
<1>5. AccountPlans'
  BY DEF Moves, Account, AccountPlans, OwnsSession
<1>6. AccountTx'
  <2>1. tx.pc \in {"checking", "opening", "capturing", "unreserved"} => tx.new = None
    BY DEF Moves, Gated, GatedTx
  <2>2. Owns' <=> Owns
    BY DEF Moves, Owns, OwnsSession
  <2>3. Active(tx.old)' <=> Active(tx.old)
    BY DEF Moves, Active, Cur
  <2> QED
    BY <1>1, <1>2, <2>1, <2>2, <2>3 DEF Moves, Account, AccountTx
<1>7. AccountEnd'
  <2>1. end # None /\ end.pc \notin {"reconciling", "rows"} => end.sid \in Sids
    BY DEF Plain, Ending
  <2>2. end # None => end.pc \notin {"reconciling", "reclaiming", "rows"}
    BY DEF Moves, Account, AccountEnd
  <2> QED
    BY <1>2, <2>1, <2>2 DEF Moves, Account, AccountEnd, Pointed, Row, Active, Cur, Creating, Fallen
<1> QED
  BY <1>3, <1>4, <1>5, <1>6, <1>7 DEF Account

\* One that is over before it made anything.
LEMMA AccountLeaves ==
    ASSUME Base, Plain, Gated, Account, tx # None, tx.pc \in {"checking", "opening"}, tx' = None,
           UNCHANGED <<store, runtime, live, ended, pendingOld, tracked, fallback, end, stop>>
    PROVE  Account'
<1>1. tx.new = None
  BY DEF Gated, GatedTx
<1>2. AccountRuntimes' /\ AccountLive'
  BY <1>1 DEF Account, AccountRuntimes, AccountLive, Row, Cur, Pointed, Active, Creating, OwnsSession, Plain
<1>3. AccountPlans' /\ AccountTx'
  BY DEF Account, AccountPlans, AccountTx, OwnsSession
<1>4. AccountEnd'
  BY DEF Account, AccountEnd, Pointed, Row, Active, Cur, Creating, Fallen
<1> QED
  BY <1>2, <1>3, <1>4 DEF Account

LEMMA CheckedAccount == ASSUME Base, Plain, Gated, Account, Checked PROVE Account'
<1>1. CASE tx' = None
  BY <1>1, AccountLeaves DEF Checked, world, detached
<1>2. CASE Owns /\ GoTo(IF tx.bind \in Trees THEN "opening" ELSE "capturing")
  <2>1. PICK p \in {"opening", "capturing"} : GoTo(p)
    BY <1>2
  <2>2. tx' # None /\ tx'.pc = p /\ tx'.old = tx.old /\ tx'.new = tx.new /\ tx'.prev = tx.prev
    BY <2>1, GoToBase DEF Phases, Checked
  <2>3. Moves
    BY <2>2 DEF Moves, Checked, world, detached
  <2> QED
    BY <2>3, AccountMoves
<1> QED
  BY <1>1, <1>2 DEF Checked

LEMMA OpenTreeAccount == ASSUME Base, Plain, Gated, Account, OpenTree PROVE Account'
<1>1. CASE tx' = None
  BY <1>1, AccountLeaves DEF OpenTree, detached
<1>2. CASE tx' # None
  <2>1. PICK p \in {"capturing", "undoing"} : tx' = [tx EXCEPT !.created = TRUE, !.pc = p]
    BY <1>2 DEF OpenTree
  <2>2. tx'.pc = p /\ tx'.old = tx.old /\ tx'.new = tx.new /\ tx'.prev = tx.prev
    BY <2>1 DEF Plain, Transaction, OpenTree
  <2>3. Moves
    BY <1>2, <2>2 DEF Moves, OpenTree, detached
  <2> QED
    BY <2>3, AccountMoves
<1> QED
  BY <1>1, <1>2

LEMMA CaptureFailsAccount == ASSUME Base, Plain, Gated, Account, CaptureFails PROVE Account'
<1>1. /\ tx' # None /\ tx'.pc = (IF Owns THEN "undoing" ELSE "abandoning")
      /\ tx'.old = tx.old /\ tx'.new = tx.new /\ tx'.prev = tx.prev
  BY OnwardBase DEF CaptureFails
<1>2. UNCHANGED fallback
  BY NoPlans DEF CaptureFails, Forward
<1>3. Moves
  BY <1>1, <1>2 DEF Moves, CaptureFails, world
<1> QED
  BY <1>3, AccountMoves

LEMMA CreatedAccount == ASSUME Base, Plain, Gated, Account, CreatedTooLate \/ CommitFails PROVE Account'
<1>1. /\ tx # None /\ tx.pc = "creating" /\ runtime' = [runtime EXCEPT ![tx.new] = "maybe"]
      /\ (GiveWay(tx) /\ ~Owns) \/ GoTo("uncommitted")
      /\ UNCHANGED <<store, live, ended, pendingOld, tracked, end, stop>>
  BY DEF CreatedTooLate, CommitFails, session, detached
<1>2. /\ tx' # None /\ tx'.pc \in {"uncommitted", "abandoning"} /\ (tx'.pc = "abandoning" => ~Owns)
      /\ tx'.old = tx.old /\ tx'.new = tx.new /\ tx'.prev = tx.prev
  BY <1>1, OnwardBase
<1>3. UNCHANGED fallback
  BY <1>1, NoPlans DEF Forward, CreatedTooLate, CommitFails, detached
<1>4. \A s \in Sids : runtime'[s] = runtime[s] \/ (s = tx.new /\ runtime'[s] = "maybe")
  BY <1>1 DEF Plain
<1>5. Moves
  BY <1>1, <1>2, <1>3, <1>4 DEF Moves
<1> QED
  BY <1>5, AccountMoves

LEMMA AbandonTrackedAccount == ASSUME Base, Plain, Gated, Account, AbandonTracked PROVE Account'
<1>1. /\ tx' # None /\ tx'.pc = "joining"
      /\ tx'.old = tx.old /\ tx'.new = tx.new /\ tx'.prev = tx.prev
  BY OnwardBase DEF AbandonTracked
<1>2. Moves
  BY <1>1 DEF Moves, AbandonTracked, world, session
<1> QED
  BY <1>2, AccountMoves


\* Slots untouched, and of the rows of what may run only more than there were.
Keeps ==
    /\ Slot(store') = Slot(store)
    /\ \A x \in Sids : runtime[x] \in {"starting", "maybe"} /\ Row(x) => Row(x)'
    /\ \A x \in Sids : runtime[x] = "maybe" =>
         /\ x \in tracked => x \in tracked'
         /\ x \in tracked' => x \in tracked \/ Pointed(x)
    /\ UNCHANGED <<runtime, live, ended, pendingOld, fallback, tx, stop>>

LEMMA AccountKeeps ==
    ASSUME Base, Plain, Gated, Account, Keeps
    PROVE  /\ AccountRuntimes' /\ AccountLive' /\ AccountPlans' /\ AccountTx'
           /\ end' = end => AccountEnd'
<1>1. \A x \in Sids : (Cur(x) <=> Cur(x)') /\ (Active(x) <=> Active(x)') /\ (Creating <=> Creating')
  BY DEF Keeps, Cur, Active, Creating
<1>2. ASSUME NEW x \in Sids, runtime[x] = "maybe", Pointed(x) PROVE Pointed(x)'
  BY <1>1, <1>2 DEF Keeps, Pointed
<1>3. AccountRuntimes'
  BY <1>1, <1>2 DEF Keeps, Account, AccountRuntimes
<1>4. AccountLive'
  <2>1. live # None => live \in Sids
    BY DEF Plain
  <2> QED
    BY <1>1, <1>2, <2>1 DEF Keeps, Account, AccountLive, OwnsSession
<1>5. AccountPlans'
  BY DEF Keeps, Account, AccountPlans, OwnsSession
<1>6. AccountTx'
  <2>1. tx # None => tx.old \in Sids /\ tx.new \in Sids \cup {None}
    BY DEF Plain, Transaction
  <2>2. tx # None /\ tx.pc = "joining" => tx.new # None
    BY DEF Gated, GatedTx
  <2> QED
    BY <1>1, <2>1, <2>2 DEF Keeps, Account, AccountTx, Owns, OwnsSession
<1>7. ASSUME end' = end PROVE AccountEnd'
  <2>1. end # None /\ end.pc \notin {"reconciling", "rows"} => end.sid \in Sids
    BY DEF Plain, Ending
  <2> QED
    BY <1>1, <1>2, <1>7, <2>1 DEF Keeps, Account, AccountEnd, Fallen
<1> QED
  BY <1>3, <1>4, <1>5, <1>6, <1>7

LEMMA StaysUnconfirmedAccount ==
    ASSUME Base, Plain, Gated, Account, NEW s \in Sids, StaysUnconfirmed(s) PROVE Account'
<1>1. s \in Incarnations(rec) /\ s \in tracked
  BY DEF Base, Typed, DetachedTyped, StaysUnconfirmed, Gated, GatedRuntimes
<1>2. PICK ok \in Outcomes : store' = Written(store, Companion(store, rec[s]), ok)
  BY DEF StaysUnconfirmed
<1>3. Slot(store') = Slot(store) /\ Rowed(store') = IF ok THEN Rowed(store) \cup {s} ELSE Rowed(store)
  BY <1>1, <1>2, KeepRowIs DEF Base
<1>4. Keeps /\ end' = end
  BY <1>1, <1>3 DEF Keeps, Row, StaysUnconfirmed, world, session, procs
<1> QED
  BY <1>4, AccountKeeps DEF Account

LEMMA CleanupKeptAccount ==
    ASSUME Base, Plain, Gated, Account, NEW s \in Sids, CleanupKept(s) PROVE Account'
<1>1. s \in Incarnations(rec)
  BY DEF Base, Typed, DetachedTyped, CleanupKept
<1>2. PICK ok \in Outcomes : store' = Written(store, Companion(store, rec[s]), ok)
  BY DEF CleanupKept
<1>3. Slot(store') = Slot(store) /\ Rowed(store') = IF ok THEN Rowed(store) \cup {s} ELSE Rowed(store)
  BY <1>1, <1>2, KeepRowIs DEF Base
<1>4. Keeps /\ end' = end
  BY <1>1, <1>3 DEF Keeps, Row, CleanupKept, session, procs
<1> QED
  BY <1>4, AccountKeeps DEF Account

LEMMA CleanupDoneAccount ==
    ASSUME Base, Plain, Gated, Account, NEW s \in Sids, CleanupDone(s) PROVE Account'
<1>1. s \in Incarnations(rec) /\ runtime[s] = "stopped"
  BY DEF Base, Typed, DetachedTyped, CleanupDone, Gated, GatedRuntimes
<1>2. PICK ok \in Outcomes :
        store' = Written(store, RemoveStale(store, Thread, IdOf(rec[s])),
                         ok \/ ~HasStale(store, Thread, IdOf(rec[s])))
  BY DEF CleanupDone
<1>3. Slot(store') = Slot(store) /\ Rowed(store') \in {Rowed(store), Rowed(store) \ {s}}
  BY <1>1, <1>2, DropRowIs DEF Base
<1>4. tracked' \in {tracked, tracked \ {s}} /\ end' = end
      /\ UNCHANGED <<runtime, live, ended, pendingOld, fallback, tx, stop>>
  BY DEF CleanupDone, session, procs
<1>5. Keeps
  BY <1>1, <1>3, <1>4 DEF Keeps, Row
<1> QED
  BY <1>4, <1>5, AccountKeeps DEF Account

LEMMA EndUnconfirmedAccount == ASSUME Base, Plain, Gated, Account, EndUnconfirmed PROVE Account'
<1>1. /\ end # None /\ end.pc = "asking" /\ end.sid \in Incarnations(rec) /\ end.sid \in Sids
      /\ end.sid \in ended
      /\ UNCHANGED <<runtime, live, ended, pendingOld, fallback, tx, stop>>
  BY EndIs DEF Base, Typed, EndTyped, EndUnconfirmed, world, session, Incarnations, Account, AccountEnd
<1>2. /\ end'.pc = "joining" /\ end'.sid = end.sid /\ end'.pending = end.pending /\ end' # None
  BY <1>1, EndAtBase DEF EndUnconfirmed, EndPhases
<1>3. /\ tracked' \in {tracked, tracked \cup {end.sid}}
      /\ \/ UNCHANGED store
         \/ \E ok \in Outcomes : store' = Written(store, Companion(store, rec[end.sid]), ok)
  BY DEF EndUnconfirmed, Keep
<1>4. Slot(store') = Slot(store) /\ Rowed(store) \subseteq Rowed(store')
  <2>1. Typed
    BY DEF Base
  <2>2. ASSUME NEW ok \in Outcomes, store' = Written(store, Companion(store, rec[end.sid]), ok)
        PROVE  Slot(store') = Slot(store) /\ Rowed(store) \subseteq Rowed(store')
    BY <1>1, <2>1, <2>2, KeepRowIs
  <2> QED
    BY <1>3, <2>2
<1>5. runtime[end.sid] = "maybe" => Pointed(end.sid)
  BY <1>1 DEF Account, AccountEnd
<1>6. Keeps
  BY <1>1, <1>3, <1>4, <1>5 DEF Keeps, Row
<1>7. AccountEnd'
  BY <1>1, <1>2, <1>4 DEF Account, AccountEnd, Cur, Creating
<1> QED
  BY <1>6, <1>7, AccountKeeps DEF Account

LEMMA EndCleansAccount == ASSUME Base, Plain, Gated, Account, EndCleans PROVE Account'
<1>1. /\ end # None /\ end.pc = "cleaning" /\ end.sid \in Incarnations(rec) /\ end.sid \in Sids
      /\ runtime[end.sid] = "stopped" /\ end.sid \in ended /\ end.pending
      /\ UNCHANGED <<runtime, live, ended, pendingOld, tracked, fallback, tx, stop>>
  BY EndIs DEF Base, Typed, EndTyped, EndCleans, session, detached, Incarnations, Gated, GatedEnd,
     Account, AccountEnd
<1>2. /\ end'.pc = "settling" /\ end'.sid = end.sid /\ end'.pending = end.pending /\ end' # None
  BY <1>1, EndAtBase DEF EndCleans, EndPhases
<1>3. PICK gone \in BOOLEAN, ok \in Outcomes :
        store' = Written(store, IF gone THEN RemoveStale(store, Thread, IdOf(rec[end.sid]))
                                        ELSE Companion(store, rec[end.sid]), ok)
  BY DEF EndCleans
<1>4. Slot(store') = Slot(store) /\ Rowed(store) \ {end.sid} \subseteq Rowed(store')
  BY <1>1, <1>3, KeepRowIs, DropRowIs DEF Base
<1>5. Keeps
  BY <1>1, <1>4 DEF Keeps, Row
<1>6. AccountEnd'
  BY <1>1, <1>2 DEF AccountEnd
<1> QED
  BY <1>5, <1>6, AccountKeeps DEF Account

LEMMA EndReapsRowAccount == ASSUME Base, Plain, Gated, Account, EndReapsRow PROVE Account'
<1>1. /\ end # None /\ end.pc = "rows" /\ (end' = end \/ end' = None)
      /\ UNCHANGED <<runtime, live, ended, pendingOld, tracked, fallback, tx, stop>>
  BY DEF EndReapsRow, session, detached
<1>2. CASE UNCHANGED store
  BY <1>1, <1>2, AccountKeeps DEF Keeps, Row, Account, AccountEnd
<1>3. CASE tracked = {}
  <2>1. \A x \in Sids : runtime[x] \notin {"starting", "maybe"}
    BY <1>1, <1>3 DEF Account, AccountEnd, Gated, GatedRuntimes
  <2>2. Slot(store') = Slot(store)
    <3>1. ASSUME NEW row \in RowsOf(store, Thread), NEW gone \in BOOLEAN, NEW ok \in Outcomes,
                 store' = Written(store, RemoveStale(store, Thread, IdOf(row)), gone /\ ok)
          PROVE  Slot(store') = Slot(store)
      <4>1. row.sid \in Incarnations(rec) /\ IdOf(row) = IdOf(rec[row.sid])
        BY RowIs DEF Base
      <4>2. PICK wrote \in BOOLEAN : wrote <=> gone /\ ok
        OBVIOUS
      <4>3. store' = Written(store, RemoveStale(store, Thread, IdOf(rec[row.sid])), wrote)
        BY <3>1, <4>1, <4>2 DEF Written
      <4> QED
        BY <4>1, <4>3, DropRowIs DEF Base
    <3> QED
      BY <3>1 DEF EndReapsRow
  <2>3. Keeps
    BY <1>1, <2>1, <2>2 DEF Keeps
  <2> QED
    BY <1>1, <2>3, AccountKeeps DEF Account, AccountEnd
<1> QED
  BY <1>2, <1>3 DEF EndReapsRow

LEMMA EndLiveAccount == ASSUME Base, Plain, Gated, Account, EndLive PROVE Account'
<1>1. /\ live # None /\ live \in Sids /\ end = None /\ ended' = ended \cup {live} /\ fallback' = AllToRemoval
      /\ end' = [pc |-> "asking", sid |-> live, pending |-> live \in pendingOld]
      /\ UNCHANGED <<store, runtime, live, pendingOld, tracked, tx, stop>>
  BY DEF EndLive, Plain, world
<1>2. \A s \in Sids : fallback'[s] = IF fallback[s] = None THEN None ELSE Removal
  BY <1>1, RemovalBase
<1>3. Removal # None /\ ~OwnsSession(live)'
  BY <1>1, RebindAssumption DEF OwnsSession
<1>4. AccountRuntimes'
  BY <1>1, <1>2, <1>3 DEF Account, AccountRuntimes, Row, Cur, Pointed, Active
<1>5. AccountLive'
  BY <1>1, <1>3 DEF Account, AccountLive, Row, Cur, Pointed, Active
<1>6. AccountPlans'
  BY <1>1, <1>2, <1>3 DEF Account, AccountPlans
<1>7. AccountTx'
  <2>1. Owns' => Owns
    BY <1>1 DEF Owns, OwnsSession
  <2> QED
    BY <1>1, <2>1 DEF Account, AccountTx, Active, Cur
<1>8. AccountEnd'
  <2>1. live \notin pendingOld => Cur(live) /\ ~Creating
    BY <1>1 DEF Account, AccountLive, Active, Creating
  <2>2. runtime[live] = "maybe" => Pointed(live)
    BY <1>1 DEF Account, AccountLive
  <2> QED
    BY <1>1, <2>1, <2>2 DEF AccountEnd, Row, Cur, Creating, Pointed, Active
<1> QED
  BY <1>4, <1>5, <1>6, <1>7, <1>8 DEF Account

LEMMA EndConfirmedAccount == ASSUME Base, Plain, Gated, Account, EndConfirmed PROVE Account'
<1>1. /\ end # None /\ end.pc = "asking" /\ end.sid \in Sids /\ end.sid \in ended
      /\ live \in {None, end.sid}
      /\ runtime' = [runtime EXCEPT ![end.sid] = "stopped"] /\ live' = None
      /\ UNCHANGED <<store, ended, tracked, fallback, tx, stop>>
  BY DEF Plain, Ending, Gated, GatedEnd, EndConfirmed, detached
<1>2. /\ end'.pc \in {"settling", "cleaning"} /\ end'.sid = end.sid /\ end'.pending = end.pending
      /\ end' # None /\ (end'.pc = "cleaning" => end.pending)
  <2>1. PICK p \in {"settling", "cleaning"} : EndAt(p) /\ (p = "cleaning" => end.pending)
    BY DEF EndConfirmed
  <2> QED
    BY <1>1, <2>1, EndAtBase DEF EndPhases
<1>3. \A s \in Sids : runtime'[s] = IF s = end.sid THEN "stopped" ELSE runtime[s]
  BY <1>1 DEF Plain
<1>4. AccountRuntimes'
  BY <1>1, <1>3 DEF Account, AccountRuntimes, Row, Cur, Pointed, Active
<1>5. AccountLive' /\ AccountPlans'
  BY <1>1, RebindAssumption DEF Account, AccountLive, AccountPlans, Plain
<1>6. AccountTx'
  <2>1. tx # None => tx.new \in Sids \cup {None} /\ tx.old # None
    BY DEF Plain, Transaction
  <2>2. tx # None => ~Owns'
    BY <1>1, <2>1 DEF Owns, OwnsSession
  <2>3. tx # None /\ tx.pc \in {"retiring", "joining"} => tx.new \in Sids
    BY <2>1 DEF Gated, GatedTx
  <2>4. pendingOld' \subseteq pendingOld
    BY DEF EndConfirmed
  <2> QED
    BY <1>1, <1>3, <2>1, <2>2, <2>3, <2>4 DEF Account, AccountTx
<1>7. AccountEnd'
  BY <1>1, <1>2 DEF Account, AccountEnd, Cur, Creating
<1> QED
  BY <1>4, <1>5, <1>6, <1>7 DEF Account

LEMMA EndLooksAccount == ASSUME Base, Plain, Gated, Account, EndLooks PROVE Account'
<1>1. /\ end # None /\ end.pc = "reconciling" /\ end \in Ending
      /\ UNCHANGED <<store, runtime, live, ended, pendingOld, tracked, fallback, tx, stop>>
  BY DEF EndLooks, world, session, detached, Plain
<1>2. Keeps
  BY <1>1 DEF Keeps, Row
<1>3. /\ live = None /\ tx = None
      /\ \A s \in Sids : runtime[s] = "maybe" => s \in tracked
  BY <1>1 DEF Account, AccountEnd
<1>4. AccountEnd'
  <2>1. CASE end' = None
    BY <2>1 DEF AccountEnd
  <2>2. CASE EndAt("rows")
    <3>1. end'.pc = "rows"
      BY <1>1, <2>2 DEF EndAt, Ending
    <3> QED
      BY <1>1, <1>3, <3>1 DEF AccountEnd
  <2>3. CASE /\ ~HasUnreconciledFallback /\ Primary.state # "active"
             /\ end' = [end EXCEPT !.pc = "reclaiming", !.sid = Primary.sid]
    <3>1. PICK s : s = Primary.sid
      OBVIOUS
    <3>2. end' = [end EXCEPT !.pc = "reclaiming", !.sid = s]
      BY <2>3, <3>1
    <3>3. end'.pc = "reclaiming"
      BY <1>1, <3>2 DEF Ending
    <3>4. ~Fallen
      BY <2>3 DEF Fallen, HasUnreconciledFallback, Base, Sited
    <3>5. Slot(store).state # "active"
      BY <2>3 DEF Primary, Slot
    <3> QED
      BY <1>1, <1>3, <3>3, <3>4, <3>5 DEF AccountEnd, Fallen
  <2> QED
    BY <2>1, <2>2, <2>3 DEF EndLooks
<1> QED
  BY <1>2, <1>4, AccountKeeps DEF Account

\* The record is reclaimed only when what it names is stopped, or has its own row.
LEMMA ReclaimsAccount ==
    ASSUME Base, Plain, Gated, Account, EndReclaims \/ EndReclaimsRecord PROVE Account'
<1>1. /\ end # None /\ end.pc \in {"settling", "reclaiming"} /\ end.sid \in Sids
      /\ end.pc = "settling" => ~end.pending
      /\ Reclaim(rec[end.sid].bind) /\ end' = None
      /\ UNCHANGED <<runtime, live, ended, pendingOld, tracked, fallback, tx, stop>>
  BY DEF Plain, Ending, EndReclaims, EndReclaimsRecord, session, detached
<1>2. live = None
  BY <1>1 DEF Base, Sited
<1>3. Rowed(store') = Rowed(store)
  BY <1>1, ReclaimIs DEF Base
<1>4. tx # None => ~Owns /\ ~Owns'
  BY <1>1, <1>2 DEF Owns, OwnsSession, Plain, Transaction
<1>5. ASSUME NEW s \in Sids, runtime[s] \in {"starting", "maybe"}, Slot(store') # Slot(store)
      PROVE  Row(s)
  <2>1. CASE end.pc = "settling"
    <3>1. runtime[end.sid] = "stopped"
      BY <1>1, <2>1 DEF Gated, GatedEnd
    <3>2. Slot(store) = None \/ Cur(end.sid)
      BY <1>1, <2>1 DEF Account, AccountEnd
    <3> QED
      BY <1>5, <3>1, <3>2 DEF Account, AccountRuntimes, Cur
  <2>2. CASE end.pc = "reclaiming"
    <3>1. /\ tx = None /\ (runtime[s] = "maybe" => s \in tracked) /\ fallback[s] = None
          /\ Slot(store) = None \/ Slot(store).state # "active"
      BY <1>1, <2>2 DEF Account, AccountEnd, Fallen
    <3>2. runtime[s] = "maybe"
      BY <1>5, <3>1 DEF Gated, GatedRuntimes
    <3> QED
      BY <3>1, <3>2 DEF Account, AccountRuntimes, Pointed, Active, Cur
  <2> QED
    BY <1>1, <2>1, <2>2
<1>6. AccountRuntimes'
  BY <1>1, <1>3, <1>5 DEF Account, AccountRuntimes, Row, Cur, Pointed, Active
<1>7. AccountLive' /\ AccountPlans' /\ AccountEnd'
  BY <1>1, <1>2 DEF Account, AccountLive, AccountPlans, AccountEnd
<1>8. AccountTx'
  BY <1>1, <1>4 DEF Account, AccountTx
<1> QED
  BY <1>6, <1>7, <1>8 DEF Account

\* A fallback is settled only in the slot of its own stopped incarnation.
LEMMA CleanupFallbackAccount ==
    ASSUME Base, Plain, Gated, Account, NEW s \in Sids, CleanupFallback(s) PROVE Account'
<1>1. /\ fallback[s] # None /\ runtime[s] = "stopped"
      /\ fallback[s] \in Copies(rec) \cup {Removal} /\ (fallback[s] # Removal => fallback[s] # None)
  BY CopyIs DEF Base, Typed, DetachedTyped, CleanupFallback, Gated, GatedRuntimes
<1>2. PICK restores \in BOOLEAN, done \in BOOLEAN :
        /\ restores <=> fallback[s] # Removal /\ OwnsSession(fallback[s].sid)
        /\ Reconciled(s, restores, done)
  BY CleanupFallbackIs DEF Base
<1>3. UNCHANGED <<runtime, live, ended, tx, end, stop>>
  BY DEF CleanupFallback, procs
<1>4. ~(tx # None /\ tx.pc \in Forward)
  BY <1>1 DEF Base, Sited
<1>5. done => Cur(s) /\ Creating
  BY <1>2 DEF Reconciled, Cur, Creating
<1>6. restores => live = fallback[s].sid /\ live # None /\ live \notin ended
  BY <1>1, <1>2, CopyIs, IncarnationIs DEF OwnsSession
<1>7. live # None => live # s /\ live \in Sids
  BY <1>1 DEF Account, AccountPlans, Plain
<1>8. restores => fallback[s].state = "active"
  BY <1>1, <1>2 DEF Account, AccountPlans
<1>9. live # None /\ OwnsSession(live) => restores
  BY <1>1, <1>2 DEF Account, AccountPlans
<1>10. fallback' = [fallback EXCEPT ![s] = IF done THEN None ELSE IF restores THEN fallback[s] ELSE Removal]
  BY <1>2 DEF Reconciled
<1>11. \A x \in Sids : fallback'[x] = IF x = s THEN (IF done THEN None ELSE IF restores THEN fallback[s] ELSE Removal)
                                              ELSE fallback[x]
  BY <1>10 DEF Plain
<1>12. ASSUME NEW x \in Sids, runtime[x] = "maybe", Pointed(x) PROVE Pointed(x)'
  <2>1. CASE ~done
    BY <1>2, <1>12, <2>1 DEF Reconciled, Pointed, Row, Active, Cur
  <2>2. CASE done
    <3>1. Row(x) /\ x # s
      BY <1>1, <1>5, <1>12, <2>2 DEF Pointed, Active, Cur, Creating
    <3>2. CASE restores /\ x = fallback[s].sid
      BY <1>2, <1>8, <2>2, <3>2 DEF Reconciled, Pointed, Active, Cur
    <3>3. CASE ~(restores /\ x = fallback[s].sid)
      BY <1>2, <2>2, <3>1, <3>3 DEF Reconciled, Pointed, Row
    <3> QED
      BY <3>2, <3>3
  <2> QED
    BY <2>1, <2>2
<1>13. AccountRuntimes'
  <2>1. ASSUME NEW x \in Sids
        PROVE  /\ runtime'[x] \in {"starting", "maybe"} => Row(x)' \/ Cur(x)'
               /\ runtime'[x] = "maybe" =>
                    /\ x \in tracked' /\ fallback'[x] = None => Pointed(x)'
                    /\ stop' \in {"running", "sweeping"} =>
                          x = live' \/ x \in tracked' \/ (tx' # None /\ tx'.new = x)
    <3>1. runtime[x] # "starting"
      BY <1>4 DEF Gated, GatedRuntimes, Forward
    <3>2. CASE runtime[x] = "maybe"
      <4>1. x # s /\ fallback'[x] = fallback[x] /\ (x \in tracked' <=> x \in tracked)
        BY <1>1, <1>2, <1>11, <3>2 DEF Reconciled
      <4>2. Row(x) \/ Cur(x)
        BY <3>2 DEF Account, AccountRuntimes
      <4>3. Row(x)' \/ Cur(x)'
        <5>1. CASE done
          <6>1. Row(x)
            BY <1>5, <4>1, <4>2, <5>1 DEF Cur
          <6> QED
            BY <1>12, <3>2, <6>1 DEF Pointed, Active
        <5>2. CASE ~done
          BY <1>2, <4>2, <5>2 DEF Reconciled, Row, Cur
        <5> QED
          BY <5>1, <5>2
      <4> QED
        BY <1>3, <1>12, <3>2, <4>1, <4>3 DEF Account, AccountRuntimes
    <3> QED
      BY <1>3, <3>1, <3>2
  <2> QED
    BY <2>1 DEF AccountRuntimes
<1>14. AccountLive'
  <2>1. ASSUME live # None PROVE live \notin pendingOld' => Active(live)'
    <3>1. CASE done /\ restores
      BY <1>2, <1>3, <1>6, <1>8, <3>1 DEF Reconciled, Active, Cur
    <3>2. CASE ~(done /\ restores)
      <4>1. pendingOld' = pendingOld
        BY <1>2, <3>2 DEF Reconciled
      <4>2. done => live \in pendingOld
        BY <1>5, <1>7, <2>1 DEF Account, AccountLive, Active, Cur
      <4>3. ~done => store' = store
        BY <1>2 DEF Reconciled
      <4> QED
        BY <1>3, <2>1, <4>1, <4>2, <4>3 DEF Account, AccountLive, Active, Cur
    <3> QED
      BY <3>1, <3>2
  <2>2. ASSUME live # None, runtime[live] = "maybe" PROVE Pointed(live)'
    <3>1. PICK x \in Sids : x = live
      BY <1>7, <2>2
    <3>2. Pointed(x)'
      BY <1>12, <2>2, <3>1 DEF Account, AccountLive
    <3> QED
      BY <1>3, <3>1, <3>2 DEF Pointed, Row, Active, Cur
  <2>3. ASSUME live # None, live \in pendingOld', OwnsSession(live)
        PROVE  Creating' \/ (tx # None /\ tx.pc = "unreserved")
    <3>1. ~done
      BY <1>2, <1>6, <1>9, <2>3 DEF Reconciled
    <3> QED
      BY <1>2, <2>3, <3>1 DEF Reconciled, Account, AccountLive, Creating
  <2> QED
    BY <1>3, <2>1, <2>2, <2>3 DEF AccountLive, OwnsSession
<1>15. AccountPlans'
  <2>1. OwnsSession(live)' <=> OwnsSession(live)
    BY <1>3 DEF OwnsSession
  <2>2. ASSUME NEW x \in Sids, fallback'[x] # None
        PROVE  /\ x # live' /\ x \notin ended'
               /\ fallback'[x] # Removal => fallback'[x].state = "active"
               /\ live' # None /\ OwnsSession(live)' => fallback'[x] # Removal /\ fallback'[x].sid = live'
    <3>1. CASE x = s
      BY <1>1, <1>3, <1>9, <1>11, <2>1, <2>2, <3>1 DEF Account, AccountPlans
    <3>2. CASE x # s
      BY <1>3, <1>11, <2>1, <2>2, <3>2 DEF Account, AccountPlans
    <3> QED
      BY <3>1, <3>2
  <2> QED
    BY <2>2 DEF AccountPlans
<1>16. AccountTx'
  <2>1. tx # None => tx.new \in Sids \cup {None}
    BY DEF Plain, Transaction
  <2>2. Owns' <=> Owns
    BY <1>3 DEF Owns, OwnsSession
  <2>3. pendingOld' \subseteq pendingOld /\ \A x \in tracked : x # s => x \in tracked'
    BY <1>2 DEF Reconciled
  <2>4. tx # None /\ tx.pc = "joining" => tx.new # None
    BY DEF Gated, GatedTx
  <2> QED
    BY <1>1, <1>3, <1>4, <2>1, <2>2, <2>3, <2>4 DEF Account, AccountTx, Forward
<1>17. AccountEnd'
  <2>1. end # None /\ end.pc \notin {"reconciling", "rows"} => end.sid \in Sids
    BY DEF Plain, Ending
  <2>2. ASSUME end # None, end.pc \in {"asking", "joining", "settling"}, ~end.pending
        PROVE  Slot(store') = None \/ (Cur(end.sid)' /\ ~Creating')
    <3>1. ~done
      BY <1>5, <2>2 DEF Account, AccountEnd, Cur
    <3> QED
      BY <1>2, <1>3, <2>2, <3>1 DEF Reconciled, Account, AccountEnd, Cur, Creating
  <2>3. ASSUME end # None, end.pc = "asking", runtime[end.sid] = "maybe"
        PROVE  Pointed(end.sid)'
    <3>1. PICK x \in Sids : x = end.sid
      BY <2>1, <2>3
    <3>2. Pointed(x)'
      BY <1>12, <2>3, <3>1 DEF Account, AccountEnd
    <3> QED
      BY <1>3, <3>1, <3>2 DEF Pointed, Row, Active, Cur
  <2>4. ASSUME end # None, end.pc \in {"reconciling", "reclaiming", "rows"}, NEW x \in Sids, runtime[x] = "maybe"
        PROVE  x \in tracked'
    BY <1>1, <1>2, <2>4 DEF Account, AccountEnd, Reconciled
  <2>5. end # None => end.pc # "reclaiming"
    BY <1>1 DEF Account, AccountEnd, Fallen
  <2> QED
    BY <1>3, <2>2, <2>3, <2>4, <2>5 DEF Account, AccountEnd
<1> QED
  BY <1>13, <1>14, <1>15, <1>16, <1>17 DEF Account

LEMMA CaptureAccount == ASSUME Base, Plain, Gated, Account, CaptureAndReserve PROVE Account'
<1>1. /\ tx # None /\ tx.pc = "capturing" /\ tx.new = None /\ Owns /\ tx.old \in Sids
      /\ UNCHANGED <<live, ended, tracked, fallback, end, stop>>
  BY DEF Gated, GatedTx, CaptureAndReserve, detached, Plain, Transaction
<1>2. end = None /\ live = tx.old /\ live # None /\ live \notin ended /\ stop = "running"
      /\ Active(tx.old)
      /\ \A s \in Sids : fallback[s] = None
  BY <1>1, OwnsAlone, NoPlans DEF Account, AccountTx, Forward
<1>3. Slot(store) # None /\ Slot(store).sid = tx.old /\ Slot(store).state = "active"
  BY <1>2 DEF Active, Cur
<1>4. PICK kept \in Outcomes, reserved \in Outcomes, s \in Sids : Captured(kept, reserved, s)
  BY <1>3, CaptureIs DEF Base
<1>5. s # tx.old /\ s \notin ended /\ s \notin pendingOld /\ s \notin tracked /\ s # live
  BY <1>1, <1>2, <1>4, TxIs DEF Captured, Base, Typed, SessionTyped, DetachedTyped
<1>6. PICK prev : prev = Slot(store)
  OBVIOUS
<1>7. CASE kept /\ reserved
  <2>1. /\ tx' = [tx EXCEPT !.pc = "creating", !.new = s, !.prev = prev]
        /\ runtime' = [runtime EXCEPT ![s] = "starting"]
        /\ pendingOld' = pendingOld \cup {tx.old}
        /\ Rowed(store') = Rowed(store) \cup {tx.old}
        /\ Slot(store') # None /\ Slot(store').sid = s /\ Slot(store').state = "creating"
    BY <1>3, <1>4, <1>6, <1>7 DEF Captured
  <2>2. /\ tx' = [pc |-> "creating", old |-> tx.old, new |-> s, prev |-> prev,
                  bind |-> tx.bind, created |-> tx.created, lost |-> tx.lost]
    BY <1>1, <2>1 DEF Plain, Transaction
  <2>3. \A x \in Sids : runtime'[x] = IF x = s THEN "starting" ELSE runtime[x]
    BY <2>1 DEF Plain
  <2>4. ASSUME NEW x \in Sids, runtime[x] \in {"starting", "maybe"}
        PROVE  x \in Rowed(store')
    <3>1. x \in Rowed(store) \/ x = tx.old
      BY <1>3, <2>4 DEF Account, AccountRuntimes, Row, Cur
    <3> QED
      BY <2>1, <3>1
  <2>5. tx' # None
    <3>1. prev \in Record
      BY <1>3, <1>6, CopyIs DEF Base, Typed, Good
    <3>2. tx' \in Transaction
      BY <1>1, <2>2, <3>1 DEF Plain, Transaction, Phases
    <3> QED
      BY <3>2 DEF Plain
  <2>6. AccountRuntimes'
    <3>1. ASSUME NEW x \in Sids
          PROVE  /\ runtime'[x] \in {"starting", "maybe"} => Row(x)' \/ Cur(x)'
                 /\ runtime'[x] = "maybe" =>
                      /\ x \in tracked' /\ fallback'[x] = None => Pointed(x)'
                      /\ x = live' \/ x \in tracked' \/ (tx' # None /\ tx'.new = x)
      <4>1. CASE x = s
        BY <2>1, <2>3, <4>1 DEF Cur
      <4>2. CASE x # s
        <5>1. runtime'[x] = runtime[x] /\ tx.new # x
          BY <1>1, <2>3, <4>2, RebindAssumption
        <5>2. runtime[x] \in {"starting", "maybe"} => Row(x)'
          BY <2>4 DEF Row
        <5>3. runtime[x] = "maybe" => x = live \/ x \in tracked
          BY <1>1, <1>2, <5>1 DEF Account, AccountRuntimes
        <5> QED
          BY <1>1, <5>1, <5>2, <5>3 DEF Pointed
      <4> QED
        BY <4>1, <4>2
    <3> QED
      BY <3>1 DEF AccountRuntimes
  <2>7. AccountLive'
    BY <1>1, <1>2, <2>1 DEF AccountLive, Row, Pointed, Creating
  <2>8. AccountPlans' /\ AccountEnd'
    BY <1>1, <1>2 DEF AccountPlans, AccountEnd
  <2>9. AccountTx'
    BY <1>1, <1>2, <1>3, <1>5, <1>6, <2>1, <2>2 DEF AccountTx
  <2> QED
    BY <2>6, <2>7, <2>8, <2>9 DEF Account
<1>8. CASE kept /\ ~reserved
  <2>1. /\ tx' = [tx EXCEPT !.pc = "unreserved", !.prev = prev] /\ UNCHANGED runtime
        /\ pendingOld' = pendingOld \cup {tx.old}
        /\ Rowed(store') = Rowed(store) \cup {tx.old} /\ Slot(store') = Slot(store)
    BY <1>3, <1>4, <1>6, <1>8 DEF Captured
  <2>2. /\ tx' = [pc |-> "unreserved", old |-> tx.old, new |-> None, prev |-> prev,
                  bind |-> tx.bind, created |-> tx.created, lost |-> tx.lost]
    BY <1>1, <2>1 DEF Plain, Transaction
  <2>3. tx' \in Transaction
    BY <1>1, <1>3, <1>6, <2>2, CopyIs DEF Plain, Transaction, Phases, Base, Typed, Good
  <2>4. tx' # None
    BY <2>3 DEF Plain
  <2>5. AccountRuntimes'
    <3>1. \A x \in Sids : runtime[x] = "maybe" /\ tx.new = x => x = live \/ x \in tracked
      BY <1>1, RebindAssumption
    <3> QED
      BY <1>1, <1>2, <2>1, <3>1, RebindAssumption DEF Account, AccountRuntimes, Row, Cur, Pointed, Active
  <2>6. AccountLive'
    BY <1>1, <1>2, <1>3, <2>1, <2>2, <2>4 DEF AccountLive, Row, Pointed, Active, Cur
  <2>7. AccountPlans' /\ AccountEnd'
    BY <1>1, <1>2 DEF AccountPlans, AccountEnd
  <2>8. AccountTx'
    BY <1>1, <1>2, <1>3, <1>6, <2>1, <2>2, RebindAssumption DEF AccountTx, Active, Cur
  <2> QED
    BY <2>5, <2>6, <2>7, <2>8 DEF Account
<1>9. CASE ~kept
  <2>1. /\ GoTo("undoing") /\ UNCHANGED <<runtime, pendingOld>>
        /\ Rowed(store') = Rowed(store) /\ Slot(store') = Slot(store)
    BY <1>4, <1>9 DEF Captured
  <2>2. /\ tx' # None /\ tx'.pc = "undoing" /\ tx'.old = tx.old /\ tx'.new = tx.new /\ tx'.prev = tx.prev
    BY <1>1, <2>1, OnwardBase
  <2>3. AccountRuntimes'
    BY <1>1, <2>1, <2>2 DEF Account, AccountRuntimes, Row, Cur, Pointed, Active
  <2>4. AccountLive'
    BY <1>1, <2>1, <2>2 DEF Account, AccountLive, Row, Pointed, Active, Cur, Creating, OwnsSession
  <2>5. AccountPlans' /\ AccountEnd'
    BY <1>1, <1>2 DEF AccountPlans, AccountEnd
  <2>6. AccountTx'
    BY <1>1, <1>2, <2>2 DEF Account, AccountTx
  <2> QED
    BY <2>3, <2>4, <2>5, <2>6 DEF Account
<1> QED
  BY <1>7, <1>8, <1>9

LEMMA UnreservedAccount == ASSUME Base, Plain, Gated, Account, Unreserved PROVE Account'
<1>1. /\ tx # None /\ tx.pc = "unreserved" /\ tx.new = None /\ tx.old \in Sids
      /\ UNCHANGED <<runtime, live, ended, tracked, end, stop>>
  BY DEF Gated, GatedTx, Unreserved, world, Plain, Transaction
<1>2. CASE ~Owns
  <2>1. /\ tx' # None /\ tx'.pc = "abandoning" /\ tx'.old = tx.old /\ tx'.new = tx.new /\ tx'.prev = tx.prev
    BY <1>1, <1>2, OnwardBase DEF Unreserved
  <2>2. UNCHANGED <<store, pendingOld, fallback>>
    BY <1>1, <1>2, NoPlans DEF Unreserved, Forward
  <2>3. Moves
    BY <1>1, <1>2, <2>1, <2>2 DEF Moves
  <2> QED
    BY <2>3, AccountMoves
<1>3. CASE Owns
  <2>1. end = None /\ live = tx.old /\ live # None /\ live \notin ended /\ Active(tx.old)
    BY <1>1, <1>3, OwnsAlone DEF Account, AccountTx
  <2>2. tx.prev # None /\ tx.prev.sid = tx.old
    BY <1>1 DEF Base, Typed, TxTyped, Account, AccountTx
  <2>3. /\ Slot(store') = Slot(store) /\ \A s \in Rowed(store) : s # tx.old => s \in Rowed(store')
    BY <2>2, UnreservedIs DEF Base
  <2>4. pendingOld' = pendingOld \ {tx.old} /\ UNCHANGED fallback /\ GoTo("undoing")
    BY <1>3 DEF Unreserved
  <2>5. /\ tx' # None /\ tx'.pc = "undoing" /\ tx'.old = tx.old /\ tx'.new = tx.new /\ tx'.prev = tx.prev
    BY <1>1, <2>4, OnwardBase
  <2>6. AccountRuntimes'
    BY <1>1, <2>1, <2>3, <2>4, <2>5 DEF Account, AccountRuntimes, Row, Cur, Pointed, Active
  <2>7. AccountLive'
    BY <1>1, <2>1, <2>3, <2>4 DEF AccountLive, Pointed, Active, Cur
  <2>8. AccountPlans' /\ AccountEnd'
    BY <1>1, <2>1, <2>4 DEF Account, AccountPlans, AccountEnd, OwnsSession
  <2>9. AccountTx'
    BY <1>1, <2>1, <2>5 DEF Account, AccountTx
  <2> QED
    BY <2>6, <2>7, <2>8, <2>9 DEF Account
<1> QED
  BY <1>2, <1>3

LEMMA SwapAccount == ASSUME Base, Plain, Gated, Account, Swap PROVE Account'
<1>1. /\ tx # None /\ tx.pc = "creating" /\ tx.new # None /\ tx.new \in Sids /\ tx.old \in Sids /\ Owns
      /\ runtime' = [runtime EXCEPT ![tx.new] = "maybe"] /\ runtime[tx.new] = "starting"
      /\ live' = tx.new /\ pendingOld' = pendingOld \ {tx.old} /\ tracked' = tracked \cup {tx.old}
      /\ GoTo("retiring") /\ UNCHANGED <<ended, fallback, end, stop>>
  BY DEF Gated, GatedTx, Swap, Keep, Plain, Transaction
<1>2. /\ end = None /\ live = tx.old /\ live # None /\ live \in Sids /\ live \notin ended /\ stop = "running"
      /\ \A s \in Sids : fallback[s] = None
  BY <1>1, OwnsAlone, NoPlans DEF Forward
<1>3. /\ Slot(store) # None /\ Slot(store).sid = tx.new /\ Slot(store).state = "creating"
      /\ tx.old \in pendingOld /\ tx.new # tx.old /\ tx.new \notin pendingOld /\ tx.new \notin ended
  BY <1>1 DEF Base, Sited, Account, AccountTx
<1>4. /\ Slot(store') # None /\ Slot(store').sid = tx.new /\ Slot(store').state = "active"
      /\ Rowed(store) \subseteq Rowed(store')
  BY <1>3, SwapIs DEF Base
<1>5. /\ tx' # None /\ tx'.pc = "retiring" /\ tx'.old = tx.old /\ tx'.new = tx.new /\ tx'.prev = tx.prev
  BY <1>1, GoToBase DEF Phases
<1>6. \A s \in Sids : runtime'[s] = IF s = tx.new THEN "maybe" ELSE runtime[s]
  BY <1>1 DEF Plain
<1>7. ASSUME NEW s \in Sids, runtime[s] \in {"starting", "maybe"}, s # tx.new PROVE Row(s)
  BY <1>3, <1>7 DEF Account, AccountRuntimes, Cur
<1>8. AccountRuntimes'
  <2>1. ASSUME NEW s \in Sids
        PROVE  /\ runtime'[s] \in {"starting", "maybe"} => Row(s)' \/ Cur(s)'
               /\ runtime'[s] = "maybe" =>
                    /\ s \in tracked' /\ fallback'[s] = None => Pointed(s)'
                    /\ s = live' \/ s \in tracked' \/ (tx' # None /\ tx'.new = s)
    <3>1. CASE s = tx.new
      BY <1>1, <1>4, <3>1 DEF Row, Cur, Pointed, Active
    <3>2. CASE s # tx.new
      <4>1. runtime'[s] = runtime[s] /\ (Row(s) => Row(s)')
        BY <1>4, <1>6, <3>2 DEF Row
      <4>2. runtime[s] = "maybe" => s \in tracked'
        BY <1>1, <1>2, <3>2 DEF Account, AccountRuntimes
      <4> QED
        BY <1>7, <3>2, <4>1, <4>2 DEF Pointed
    <3> QED
      BY <3>1, <3>2
  <2> QED
    BY <2>1 DEF AccountRuntimes
<1>9. AccountLive'
  BY <1>1, <1>3, <1>4 DEF AccountLive, Pointed, Active, Cur
<1>10. AccountPlans' /\ AccountEnd'
  BY <1>1, <1>2 DEF AccountPlans, AccountEnd
<1>11. AccountTx'
  BY <1>1, <1>5 DEF Account, AccountTx
<1> QED
  BY <1>8, <1>9, <1>10, <1>11 DEF Account

\* The four ways a rebind that came to nothing settles what it had made: the slot
\* of the store `before` is left alone, is emptied, or is the old record's again.
Untouched(before) == store' = before /\ UNCHANGED pendingOld

Own(before) == tx.new # None /\ Slot(before) # None /\ Slot(before).sid = tx.new

Emptied(before) ==
    /\ Own(before) /\ ~Owns
    /\ Slot(store') = None /\ Rowed(store') = Rowed(before) /\ UNCHANGED pendingOld

Returned(before) ==
    /\ Own(before)
    /\ Slot(store') # None /\ Slot(store').sid = tx.prev.sid /\ Slot(store').state = tx.prev.state
    /\ \A s \in Rowed(before) : s # tx.prev.sid => s \in Rowed(store')
    /\ pendingOld' = pendingOld \ {tx.old}

Settles(before) ==
    /\ tx # None /\ tx.pc \in {"creating", "uncommitted", "abandoning"}
    /\ tx' # None =>
        /\ tx'.old = tx.old /\ tx'.new = tx.new /\ tx'.prev = tx.prev
        /\ tx'.pc \in {"undoing", "abandoning"} /\ (tx'.pc = "abandoning" => ~Owns)
    /\ Slot(before) = Slot(store) /\ Rowed(store) \subseteq Rowed(before)
    /\ Untouched(before) \/ Emptied(before) \/ Returned(before)
    /\ \A s \in Sids :
        /\ s # tx.new => runtime'[s] = runtime[s] /\ fallback'[s] = fallback[s]
        /\ s = tx.new => /\ runtime'[s] \in {runtime[s], "stopped"} /\ runtime'[s] # "starting"
                         /\ fallback'[s] \in {fallback[s], tx.prev, Removal}
                         /\ Owns => fallback'[s] \in {fallback[s], tx.prev}
        /\ runtime'[s] = "maybe" /\ s = tx.new =>
             /\ s \in tracked'
             /\ s \in Rowed(before) \/ (store' = before /\ fallback'[s] # None)
    /\ tracked \subseteq tracked' /\ \A s \in tracked' : s \in tracked \/ s = tx.new
    /\ UNCHANGED <<live, ended, end, stop>>

LEMMA AccountSettles ==
    ASSUME Base, Plain, Gated, Account, NEW before, Settles(before)
    PROVE  Account'
<1>1. /\ tx # None /\ tx.pc \in {"creating", "uncommitted", "abandoning"}
      /\ tx.old \in Sids /\ tx.new \in Sids \cup {None}
      /\ tx.new # tx.old /\ live \in {None, tx.old}
      /\ tx.new # None => /\ tx.prev # None /\ tx.prev.sid = tx.old /\ tx.prev.state = "active"
                          /\ tx.new \notin ended /\ tx.new \notin pendingOld /\ tx.new # live
      /\ UNCHANGED <<live, ended, end, stop>>
  BY DEF Settles, Account, AccountTx, Base, Typed, TxTyped, Plain, Transaction
<1>2. tx.new # None /\ Cur(tx.new) <=> Own(before)
  BY DEF Settles, Cur, Own
<1>3. pendingOld' \subseteq pendingOld
  BY DEF Settles, Untouched, Emptied, Returned
<1>4. ASSUME NEW s \in Sids, Row(s) \/ (s = tx.new /\ s \in Rowed(before))
      PROVE  Pointed(s)'
  <2>1. s \in Rowed(before)
    BY <1>4 DEF Settles, Row
  <2>2. CASE Untouched(before) \/ Emptied(before)
    BY <2>1, <2>2 DEF Untouched, Emptied, Pointed, Row
  <2>3. CASE Returned(before)
    BY <1>1, <2>1, <2>3 DEF Returned, Own, Pointed, Row, Active, Cur
  <2> QED
    BY <2>2, <2>3 DEF Settles
<1>5. ASSUME NEW s \in Sids, s # tx.new, Pointed(s)
      PROVE  Pointed(s)'
  <2>1. CASE Row(s)
    BY <1>4, <2>1
  <2>2. CASE Active(s)
    <3>1. Untouched(before)
      BY <1>5, <2>2 DEF Settles, Emptied, Returned, Own, Active, Cur
    <3> QED
      BY <2>2, <3>1 DEF Settles, Untouched, Pointed, Active, Cur
  <2> QED
    BY <1>5, <2>1, <2>2 DEF Pointed
<1>6. AccountRuntimes'
  <2>1. ASSUME NEW s \in Sids
        PROVE  /\ runtime'[s] \in {"starting", "maybe"} => Row(s)' \/ Cur(s)'
               /\ runtime'[s] = "maybe" =>
                    /\ s \in tracked' /\ fallback'[s] = None => Pointed(s)'
                    /\ stop' \in {"running", "sweeping"} =>
                         s = live' \/ s \in tracked' \/ (tx' # None /\ tx'.new = s)
    <3>1. runtime'[s] # "starting"
      BY DEF Settles, Gated, GatedRuntimes
    <3>2. CASE s = tx.new /\ runtime'[s] = "maybe"
      <4>1. s \in tracked'
        BY <3>2 DEF Settles
      <4>2. CASE s \in Rowed(before)
        BY <1>4, <3>2, <4>1, <4>2 DEF Pointed, Active
      <4>3. CASE store' = before /\ fallback'[s] # None
        <5>1. Row(s) \/ Cur(s)
          BY <3>2 DEF Settles, Account, AccountRuntimes
        <5>2. Row(s)' \/ Cur(s)'
          BY <4>3, <5>1 DEF Settles, Row, Cur
        <5> QED
          BY <4>1, <4>3, <5>2
      <4> QED
        BY <3>2, <4>2, <4>3 DEF Settles
    <3>3. CASE s # tx.new /\ runtime'[s] = "maybe"
      <4>1. /\ runtime[s] = "maybe" /\ fallback'[s] = fallback[s] /\ (s \in tracked' <=> s \in tracked)
        BY <3>3 DEF Settles
      <4>2. Row(s)' \/ Cur(s)'
        <5>1. CASE Row(s)
          BY <1>4, <5>1 DEF Pointed, Active
        <5>2. CASE Cur(s)
          <6>1. Untouched(before)
            BY <3>3, <5>2 DEF Settles, Emptied, Returned, Own, Cur
          <6> QED
            BY <5>2, <6>1 DEF Settles, Untouched, Cur
        <5> QED
          BY <4>1, <5>1, <5>2 DEF Account, AccountRuntimes
      <4>3. s \in tracked' /\ fallback'[s] = None => Pointed(s)'
        BY <1>5, <3>3, <4>1 DEF Account, AccountRuntimes
      <4>4. stop' \in {"running", "sweeping"} => s = live' \/ s \in tracked'
        BY <1>1, <3>3, <4>1 DEF Account, AccountRuntimes
      <4> QED
        BY <4>2, <4>3, <4>4
    <3> QED
      BY <3>1, <3>2, <3>3
  <2> QED
    BY <2>1 DEF AccountRuntimes
<1>7. AccountLive'
  <2>1. ASSUME live # None
        PROVE  /\ live \notin pendingOld' => Active(live)'
               /\ live \in pendingOld' /\ OwnsSession(live) => Creating'
    <3>1. live = tx.old /\ (Owns <=> OwnsSession(live)) /\ live # tx.new
      BY <1>1, <2>1 DEF Owns
    <3>2. /\ live \notin pendingOld => Active(live)
          /\ live \in pendingOld /\ OwnsSession(live) => Creating
      BY <1>1, <2>1 DEF Account, AccountLive
    <3>3. CASE Untouched(before)
      BY <1>1, <3>2, <3>3 DEF Settles, Untouched, Active, Cur, Creating
    <3>4. CASE Emptied(before)
      BY <1>1, <1>2, <3>1, <3>2, <3>4 DEF Emptied, Active, Cur
    <3>5. CASE Returned(before)
      BY <1>1, <3>1, <3>5 DEF Returned, Own, Active, Cur
    <3> QED
      BY <3>3, <3>4, <3>5 DEF Settles
  <2>2. ASSUME live # None, runtime'[live] = "maybe" PROVE Pointed(live)'
    <3>1. PICK s \in Sids : s = live
      BY <1>1, <2>2
    <3>2. s # tx.new /\ runtime[s] = "maybe"
      BY <1>1, <2>2, <3>1 DEF Settles
    <3>3. Pointed(s)
      BY <2>2, <3>1, <3>2 DEF Account, AccountLive
    <3>4. Pointed(s)'
      BY <1>5, <3>2, <3>3
    <3> QED
      BY <1>1, <3>1, <3>4 DEF Pointed, Row, Active, Cur
  <2> QED
    BY <1>1, <2>1, <2>2 DEF AccountLive, OwnsSession, Active, Cur, Pointed, Row
<1>8. AccountPlans'
  <2>1. OwnsSession(live)' <=> OwnsSession(live)
    BY <1>1 DEF OwnsSession
  <2>2. ASSUME NEW s \in Sids, fallback'[s] # None
        PROVE  /\ s # live' /\ s \notin ended'
               /\ fallback'[s] # Removal => fallback'[s].state = "active"
               /\ live' # None /\ OwnsSession(live)' => fallback'[s] # Removal /\ fallback'[s].sid = live'
    <3>1. CASE fallback'[s] = fallback[s]
      BY <1>1, <2>1, <2>2, <3>1 DEF Account, AccountPlans
    <3>2. CASE fallback'[s] # fallback[s]
      <4>1. s = tx.new /\ tx.new # None /\ fallback'[s] \in {tx.prev, Removal} /\ (Owns => fallback'[s] = tx.prev)
        BY <1>1, <3>2 DEF Settles, Plain
      <4>2. live # None /\ OwnsSession(live) => Owns /\ tx.prev # Removal
        BY <1>1, <4>1, RebindAssumption DEF Owns, Plain, Transaction
      <4> QED
        BY <1>1, <2>1, <2>2, <4>1, <4>2
    <3> QED
      BY <3>1, <3>2
  <2> QED
    BY <2>2 DEF AccountPlans
<1>9. AccountTx'
  <2>1. tx' # None => (Owns' <=> Owns)
    BY <1>1 DEF Settles, Owns, OwnsSession
  <2> QED
    BY <1>1, <1>3, <2>1 DEF Settles, Account, AccountTx
<1>10. AccountEnd'
  <2>1. ASSUME end # None
        PROVE  /\ end.pc \in {"asking", "joining", "cleaning", "settling"} /\ end.sid \in ended
               /\ end.pc = "cleaning" => end.pending
               /\ end.sid \in Sids /\ end.sid # tx.new
    BY <1>1, <2>1 DEF Account, AccountEnd, Plain, Ending, EndPhases
  <2>2. ASSUME end # None, end.pc \in {"asking", "joining", "settling"}, ~end.pending
        PROVE  Slot(store') = None \/ (Cur(end.sid)' /\ ~Creating')
    <3>1. Slot(store) = None \/ (Cur(end.sid) /\ ~Creating)
      BY <2>2 DEF Account, AccountEnd
    <3>2. Untouched(before)
      BY <2>1, <2>2, <3>1 DEF Settles, Emptied, Returned, Own, Cur
    <3> QED
      BY <1>1, <3>1, <3>2 DEF Settles, Untouched, Cur, Creating
  <2>3. ASSUME end # None, end.pc = "asking", runtime'[end.sid] = "maybe"
        PROVE  Pointed(end.sid)'
    <3>1. PICK s \in Sids : s = end.sid
      BY <2>1, <2>3
    <3>2. s # tx.new /\ runtime[s] = "maybe"
      BY <2>1, <2>3, <3>1 DEF Settles
    <3>3. Pointed(s)
      BY <2>3, <3>1, <3>2 DEF Account, AccountEnd
    <3>4. Pointed(s)'
      BY <1>5, <3>2, <3>3
    <3> QED
      BY <1>1, <3>1, <3>4 DEF Pointed, Row, Active, Cur
  <2> QED
    BY <1>1, <2>1, <2>2, <2>3 DEF AccountEnd
<1> QED
  BY <1>6, <1>7, <1>8, <1>9, <1>10 DEF Account

\* A rollback, and the settlement that first asks who won, do one of the four.
LEMMA RollBackSettles ==
    ASSUME Typed, tx # None, tx.new # None, NEW before, Good(rec, before),
           NEW back, NEW dropped, RollBack(before, back, dropped)
    PROVE  Untouched(before) \/ Returned(before)
  BY RollBackIs DEF RolledBack, Untouched, Returned, Own

LEMMA SettleSlotSettles ==
    ASSUME Typed, tx # None, NEW before, Good(rec, before), ~Owns,
           NEW back, NEW dropped, SettleSlot(before, back, dropped)
    PROVE  Untouched(before) \/ Emptied(before) \/ Returned(before)
  BY SettleSlotIs DEF RolledBack, Untouched, Emptied, Returned, Own

LEMMA ClosesAccount == ASSUME Base, Plain, Gated, Account, Closes PROVE Account'
<1>1. /\ tx # None /\ tx.pc \in {"creating", "uncommitted"} /\ tx.new # None /\ tx.new \in Sids
      /\ runtime' = [runtime EXCEPT ![tx.new] = "stopped"]
      /\ UNCHANGED <<live, ended, tracked, end, stop>>
      /\ tx' # None /\ tx'.old = tx.old /\ tx'.new = tx.new /\ tx'.prev = tx.prev
      /\ tx'.pc \in {"undoing", "abandoning"} /\ (tx'.pc = "abandoning" => ~Owns)
  BY ClosesIs DEF Incarnations
<1>2. UNCHANGED fallback
  BY <1>1, ClosesIs, NoPlans DEF Forward
<1>3. Untouched(store) \/ Returned(store)
  <2>1. Typed /\ Good(rec, store)
    BY DEF Base, Typed
  <2>2. ASSUME NEW back \in Outcomes, NEW dropped \in Outcomes, RollBack(store, back, dropped)
        PROVE  Untouched(store) \/ Returned(store)
    BY <1>1, <2>1, <2>2, RollBackSettles
  <2> QED
    BY <2>2, ClosesIs DEF Untouched
<1>4. \A s \in Sids : runtime'[s] = IF s = tx.new THEN "stopped" ELSE runtime[s]
  BY <1>1 DEF Plain
<1>5. Settles(store)
  BY <1>1, <1>2, <1>3, <1>4 DEF Settles
<1> QED
  BY <1>5, AccountSettles

LEMMA UncommittedStaysAccount ==
    ASSUME Base, Plain, Gated, Account, UncommittedStays PROVE Account'
<1>1. /\ tx # None /\ tx.pc = "uncommitted" /\ tx.new # None /\ Keep(tx.new) /\ tx.new \in Sids
      /\ tx.prev # None /\ runtime[tx.new] \in {"maybe", "stopped"}
      /\ UNCHANGED <<runtime, live, ended, end, stop>>
  BY UncommittedStaysIs, CopyIs DEF Incarnations, Gated, GatedTx, Begun
<1>2. PICK durable \in Outcomes, back \in Outcomes, dropped \in Outcomes :
        \E retained, plan : Stays(durable, back, dropped, retained, plan)
  BY UncommittedStaysIs
<1>3. PICK retained, plan : Stays(durable, back, dropped, retained, plan)
  BY <1>2
<1>4. tx' # None => /\ tx'.old = tx.old /\ tx'.new = tx.new /\ tx'.prev = tx.prev
                    /\ tx'.pc = "abandoning" /\ ~Owns
  BY <1>1, <1>3, OnwardBase DEF Stays
<1>5. Untouched(retained) \/ Returned(retained)
  <2>1. Typed /\ Good(rec, retained)
    BY <1>3 DEF Base, Stays
  <2>2. RollBack(retained, back, dropped) => Untouched(retained) \/ Returned(retained)
    BY <1>1, <2>1, RollBackSettles
  <2> QED
    BY <1>3, <2>2 DEF Stays, Untouched
<1>6. \A s \in Sids : fallback'[s] = IF s = tx.new /\ ~durable THEN plan ELSE fallback[s]
  BY <1>3 DEF Stays, Plain
<1>7. plan # None /\ plan = IF Owns THEN tx.prev ELSE Removal
  BY <1>1, <1>3, RebindAssumption DEF Stays
<1>8. IF durable THEN tx.new \in Rowed(retained) ELSE store' = retained
  BY <1>3 DEF Stays
<1>9. tracked' = tracked \cup {tx.new}
  BY <1>1 DEF Keep
<1>10. Slot(retained) = Slot(store) /\ Rowed(store) \subseteq Rowed(retained)
  BY <1>3 DEF Stays
<1>11. Settles(retained)
  BY <1>1, <1>4, <1>5, <1>6, <1>7, <1>8, <1>9, <1>10 DEF Settles
<1> QED
  BY <1>11, AccountSettles

LEMMA AbandonStoppedAccount ==
    ASSUME Base, Plain, Gated, Account, AbandonStopped PROVE Account'
<1>1. /\ tx # None /\ tx.pc = "abandoning" /\ tx.new \in Sids \cup {None}
      /\ tx' # None /\ tx'.pc = "undoing" /\ tx'.old = tx.old /\ tx'.new = tx.new /\ tx'.prev = tx.prev
      /\ runtime' = IF HasReplacement THEN [runtime EXCEPT ![tx.new] = "stopped"] ELSE runtime
      /\ UNCHANGED <<live, ended, tracked, fallback, end, stop>>
  BY AbandonStoppedIs DEF Plain, Transaction, detached
<1>2. ~Owns /\ (tx.new = None \/ Begun(tx.new))
  BY <1>1 DEF Account, AccountTx, Gated, GatedTx
<1>3. Untouched(store) \/ Emptied(store) \/ Returned(store)
  <2>1. Typed /\ Good(rec, store)
    BY DEF Base, Typed
  <2> QED
    BY <1>1, <1>2, <2>1, SettleSlotSettles, AbandonStoppedIs
<1>4. \A s \in Sids : runtime'[s] = IF s = tx.new THEN "stopped" ELSE runtime[s]
  BY <1>1, <1>2, RebindAssumption DEF HasReplacement, Begun, Plain
<1>5. Settles(store)
  BY <1>1, <1>2, <1>3, <1>4 DEF Settles
<1> QED
  BY <1>5, AccountSettles

LEMMA AbandonUnconfirmedAccount ==
    ASSUME Base, Plain, Gated, Account, AbandonUnconfirmed PROVE Account'
<1>1. /\ tx # None /\ tx.pc = "abandoning" /\ tx.new # None /\ Keep(tx.new) /\ tx' = None
      /\ tx.new \in Sids /\ tx.prev # None /\ runtime[tx.new] = "maybe"
      /\ UNCHANGED <<runtime, live, ended, end, stop>>
  BY AbandonUnconfirmedIs, CopyIs DEF Incarnations
<1>2. ~Owns
  BY <1>1 DEF Account, AccountTx
<1>3. PICK durable \in Outcomes, back \in Outcomes, dropped \in Outcomes :
        \E retained, plan : Leaves(durable, back, dropped, retained, plan)
  BY AbandonUnconfirmedIs
<1>4. PICK retained, plan : Leaves(durable, back, dropped, retained, plan)
  BY <1>3
<1>5. \A s \in Sids : fallback'[s] = IF s = tx.new /\ ~durable THEN plan ELSE fallback[s]
  BY <1>4 DEF Leaves, Plain
<1>6. plan # None /\ plan \in {tx.prev, Removal}
  BY <1>1, <1>4, RebindAssumption DEF Leaves
<1>7. tracked' = tracked \cup {tx.new}
  BY <1>1 DEF Keep
<1>8. CASE durable
  <2>1. Untouched(retained) \/ Emptied(retained) \/ Returned(retained)
    BY <1>1, <1>2, <1>4, <1>8, SettleSlotSettles DEF Leaves, Base
  <2>2. Slot(retained) = Slot(store) /\ Rowed(store) \subseteq Rowed(retained) /\ tx.new \in Rowed(retained)
    BY <1>4, <1>8 DEF Leaves
  <2>3. Settles(retained)
    BY <1>1, <1>2, <1>5, <1>7, <1>8, <2>1, <2>2 DEF Settles
  <2> QED
    BY <2>3, AccountSettles
<1>9. CASE ~durable
  <2>1. Untouched(store) /\ store' = store
    BY <1>4, <1>9 DEF Leaves, Untouched
  <2>2. Settles(store)
    BY <1>1, <1>2, <1>5, <1>6, <1>7, <1>9, <2>1 DEF Settles
  <2> QED
    BY <2>2, AccountSettles
<1> QED
  BY <1>8, <1>9

LEMMA AccountStep ==
    ASSUME "reend" \notin Events
    PROVE  Base /\ Gated /\ Account /\ [Next]_vars => Account'
<1> SUFFICES ASSUME Base, Plain, Gated, Account, [Next]_vars PROVE Account'
  BY BasePlain
<1>1. CASE Checked \/ OpenTree \/ CaptureFails \/ CaptureAndReserve \/ Unreserved
  BY <1>1, CheckedAccount, OpenTreeAccount, CaptureFailsAccount, CaptureAccount, UnreservedAccount
<1>2. CASE CreateFails \/ UncommittedCloses \/ CreatedTooLate \/ Swap \/ CommitFails
  BY <1>2, ClosesAccount, CreatedAccount, SwapAccount DEF Closes
<1>3. CASE UncommittedStays \/ AbandonTracked \/ AbandonStopped \/ AbandonUnconfirmed
  BY <1>3, UncommittedStaysAccount, AbandonTrackedAccount, AbandonStoppedAccount,
     AbandonUnconfirmedAccount
<1>4. CASE EndLive \/ EndUnconfirmed \/ EndConfirmed \/ EndCleans
  BY <1>4, EndLiveAccount, EndUnconfirmedAccount, EndConfirmedAccount, EndCleansAccount
<1>5. CASE EndLooks \/ EndReclaims \/ EndReclaimsRecord \/ EndReapsRow
  BY <1>5, EndLooksAccount, ReclaimsAccount, EndReapsRowAccount
<1>6. ASSUME NEW s \in Sids,
             StaysUnconfirmed(s) \/ CleanupKept(s) \/ CleanupDone(s) \/ CleanupFallback(s)
      PROVE  Account'
  BY <1>6, StaysUnconfirmedAccount, CleanupKeptAccount, CleanupDoneAccount, CleanupFallbackAccount
<1> USE DEF Account, AccountRuntimes, AccountLive, AccountPlans, AccountTx, AccountEnd, Row, Cur,
            Creating, Active, Pointed, Fallen, Gated, GatedRuntimes, GatedTx, GatedEnd,
            RuntimeGatesLock, Begun, Held, Base, Sited, Forward, Plain, Transaction, Ending,
            world, session, detached, procs, Owns, OwnsSession, HasReplacement, Primary, Slot,
            HasUnreconciledFallback
<1>7. ASSUME NEW b \in Binds, Begin(b) PROVE Account'
  BY <1>7 DEF Begin
<1>8. CASE Retired
  BY <1>8 DEF Retired
<1>9. CASE AbandonJoined
  BY <1>9 DEF AbandonJoined
<1>10. CASE Undo
  BY <1>10 DEF Undo
<1>11. CASE EndStale
  BY <1>11 DEF EndStale
<1>12. CASE EndRefuses
  BY <1>12 DEF EndRefuses
<1>13. CASE EndReports
  BY <1>13 DEF EndReports
<1>14. CASE Stop
  BY <1>14 DEF Stop
<1>15. CASE TearDown
  BY <1>15 DEF TearDown
<1>16. CASE TornDown
  BY <1>16 DEF TornDown
<1>17. CASE Down
  BY <1>17 DEF Down
<1>18. ASSUME NEW s \in Sids, Retry(s) PROVE Account'
  BY <1>18 DEF Retry
<1>19. ASSUME NEW s \in Sids, Confirmed(s) PROVE Account'
  BY <1>19 DEF Confirmed
<1>20. ASSUME NEW p \in {"end", "stop"}, SettleNext(p) PROVE Account'
  BY <1>20 DEF SettleNext
<1>21. ASSUME NEW p \in {"end", "stop"}, SettleJoined(p) PROVE Account'
  BY <1>21 DEF SettleJoined
<1>22. CASE UNCHANGED vars
  BY <1>22 DEF vars
<1> HIDE DEF Account, Gated, Base, Plain
<1> QED
  BY <1>1, <1>2, <1>3, <1>4, <1>5, <1>6, <1>7, <1>8, <1>9, <1>10, <1>11, <1>12, <1>13,
     <1>14, <1>15, <1>16, <1>17, <1>18, <1>19, <1>20, <1>21, <1>22
     DEF Next, RebindStep, EndStep, StopStep, Teardown

LEMMA AccountInit == Init => Account
<1> SUFFICES ASSUME Init PROVE Account
  OBVIOUS
<1>1. Base
  BY BaseInit
<1>2. /\ ended = {} /\ pendingOld = {} /\ tracked = {} /\ tx = None /\ end = None
      /\ \A s \in Sids : fallback[s] = None /\ (runtime[s] # "unused" => s = live)
  BY DEF Init
<1>3. Active(live)
  <2>1. PICK s \in Sids, b \in Binds :
          LET r == [sid |-> s, gen |-> 1, state |-> "active", bytes |-> 0, bind |-> b] IN
          store = WithPrimary(EmptyStore, Thread, r) /\ live = s
    BY DEF Init
  <2> DEFINE r == [sid |-> s, gen |-> 1, state |-> "active", bytes |-> 0, bind |-> b]
  <2>2. r \in Record /\ r.sid = s /\ r.state = "active"
    BY DEF Record, States
  <2>3. StoreShape(EmptyStore)
    BY DEF EmptyStore, StoreShape, RowsOf
  <2>4. Slot(WithPrimary(EmptyStore, Thread, r)) = r
    BY <2>2, <2>3, WithPrimaryIs
  <2> HIDE DEF r
  <2>5. r # None
    BY <2>2, RebindAssumption
  <2> QED
    BY <2>1, <2>2, <2>4, <2>5 DEF r, Active, Cur
<1>4. AccountRuntimes /\ AccountLive
  BY <1>2, <1>3 DEF AccountRuntimes, AccountLive, Pointed, Active
<1> QED
  BY <1>2, <1>4 DEF Account, AccountPlans, AccountTx, AccountEnd

\* The account as the property puts it: by the identity of the recorded copy.
LEMMA AccountRecords == Base /\ Account => RuntimeRecorded
<1> SUFFICES ASSUME Base, Account, NEW s \in Sids, runtime[s] \in {"starting", "maybe"}
             PROVE  Recorded(s)
  BY DEF RuntimeRecorded
<1>1. s \in Incarnations(rec) /\ Good(rec, store)
  BY DEF Base, Typed, RuntimeTyped
<1>2. rec[s] \in Copies(rec) /\ rec[s].sid = s
  BY <1>1, IncarnationIs
<1>3. Row(s) \/ Cur(s)
  BY DEF Account, AccountRuntimes
<1> QED
  BY <1>1, <1>2, <1>3, NamedBy DEF Recorded, Row, Cur

\* A runtime that exists, or may be coming into existence, has a durable row with
\* its own identity, whichever write of the rebind, of its rollback, of `/end` or
\* of the retries fails: a crash leaves no runtime nobody can name.  It holds as
\* long as `/end` is not typed again into a thread whose rebind has not let go.
THEOREM NoRuntimeUnnamed ==
    ASSUME "reend" \notin Events
    PROVE  Spec => []RuntimeRecorded
<1>1. Init => Base /\ Gated /\ Account
  BY BaseInit, GatedInit, AccountInit
<1>2. Base /\ Gated /\ Account /\ [Next]_vars => (Base /\ Gated /\ Account)'
  BY BaseStep, GatedStep, AccountStep
<1>3. Base /\ Gated /\ Account => RuntimeRecorded
  BY AccountRecords
<1> QED
  BY <1>1, <1>2, <1>3, PTL DEF Spec

-----------------------------------------------------------------------------
(* As long as writes succeed: the slot settles, and somebody's decision     *)
(* about the thread stands.                                                 *)

\* Every row could be written, so no incarnation waits with a plan for the slot.
Sure ==
    /\ \A s \in Sids : fallback[s] = None
    /\ tx # None => tx.pc \notin {"unreserved", "uncommitted", "joining"}

\* The slot is a reservation only while the rebind that made it is under way.
Settling ==
    /\ Creating => tx # None /\ tx.pc \in {"creating", "abandoning"} /\ Cur(tx.new)
    /\ tx # None /\ tx.prev # None => tx.prev.state # "creating"

\* The live conversation is fenced only while a rebind away from it may still fail.
Delivering ==
    /\ live # None /\ live \in fenced /\ OwnsSession(live) => tx # None /\ tx.pc \in Forward
    /\ tx # None =>
        /\ tx.pc = "creating" => tx.new \notin fenced /\ tx.new \notin pendingOld
        /\ tx.pc = "abandoning" => ~Owns
        /\ tx.pc # "retiring" => live \in {None, tx.old}

\* While nobody ended the thread, its slot holds an incarnation, and whatever a
\* rebind lost it lost to the shutdown.
Surviving ==
    /\ stop = "running" /\ ended = {} => live # None /\ end = None
    /\ Unended =>
        /\ end = None
        /\ Slot(store) # None /\ Slot(store).state \in {"active", "creating"}
        /\ tx # None => tx.lost # "operator" /\ (tx.prev # None => tx.prev.state = "active")

\* What `/end` has claimed is out of the slot before it says so, and nobody else
\* has the slot made active again.
Standing ==
    /\ gaveUp # {} => live = None
    /\ live # None /\ live \in pendingOld => ~Active(live)
    /\ end # None /\ end.pc \in {"asking", "joining", "cleaning", "settling"} /\ end.pending =>
         ~Active(end.sid)
    /\ EndStands
    /\ stop # "running" => gaveUp = {} /\ end = None
    /\ stop = "running" /\ tx # None => tx.lost # "shutdown"

Calm ==
    /\ Sure /\ Settling /\ Delivering /\ Surviving
    /\ "overtake" \notin Events => Standing

\* An abandoned rebind remembers whom it lost to.
LEMMA LostTo ==
    ASSUME Plain, Calm, tx # None, tx.pc # "retiring", ~Owns
    PROVE  /\ Unended => Lost # "operator"
           /\ "overtake" \notin Events /\ stop = "running" => Lost # "shutdown"
           /\ "overtake" \notin Events /\ ~GivenUp => gaveUp = {} /\ end = None
<1>1. tx.lost \in {"no", "operator", "shutdown"}
  BY DEF Plain, Transaction
<1>2. Unended => stop # "running"
  BY DEF Calm, Surviving, Delivering, Unended, Owns, OwnsSession
<1> QED
  BY <1>1, <1>2 DEF Calm, Surviving, Standing, Lost, GivenUp

\* `/end` beside the thread's slot, and what the detached incarnations do.
Aside ==
    /\ Slot(store') = Slot(store)
    /\ end' # None => /\ end # None
                      /\ end'.pc \in {"asking", "joining", "cleaning", "settling"} =>
                           /\ end.pc \in {"asking", "joining", "cleaning", "settling"}
                           /\ end'.sid = end.sid /\ end'.pending = end.pending
    /\ UNCHANGED <<live, ended, pendingOld, fenced, fallback, tx, stop, gaveUp>>

LEMMA CalmAside == ASSUME Calm, Aside PROVE Calm'
<1>1. Sure' /\ Settling' /\ Delivering'
  BY DEF Aside, Calm, Sure, Settling, Delivering, Creating, Cur, Owns, OwnsSession
<1>2. Surviving'
  BY DEF Aside, Calm, Surviving, Unended
<1>3. "overtake" \notin Events => Standing'
  BY DEF Aside, Calm, Standing, EndStands, Active, Cur, Primary, Slot
<1> QED
  BY <1>1, <1>2, <1>3 DEF Calm

\* The steps that write rows leave the slot alone.
LEMMA RowsAside ==
    ASSUME Base, \/ EndUnconfirmed \/ EndCleans \/ EndReapsRow
                 \/ \E s \in Sids : StaysUnconfirmed(s) \/ CleanupKept(s) \/ CleanupDone(s)
    PROVE  Aside
<1>1. ASSUME NEW s \in Sids, StaysUnconfirmed(s) \/ CleanupKept(s) PROVE Aside
  <2>1. s \in Incarnations(rec)
    BY <1>1 DEF Base, Typed, DetachedTyped, StaysUnconfirmed, CleanupKept
  <2>2. PICK ok \in Outcomes : store' = Written(store, Companion(store, rec[s]), ok)
    BY <1>1 DEF StaysUnconfirmed, CleanupKept
  <2>3. Slot(store') = Slot(store)
    BY <2>1, <2>2, KeepRowIs DEF Base
  <2> QED
    BY <1>1, <2>3 DEF Aside, StaysUnconfirmed, CleanupKept, world, session, procs
<1>2. ASSUME NEW s \in Sids, CleanupDone(s) PROVE Aside
  <2>1. s \in Incarnations(rec)
    BY <1>2 DEF Base, Typed, DetachedTyped, CleanupDone
  <2>2. PICK ok \in Outcomes :
          store' = Written(store, RemoveStale(store, Thread, IdOf(rec[s])),
                           ok \/ ~HasStale(store, Thread, IdOf(rec[s])))
    BY <1>2 DEF CleanupDone
  <2>3. Slot(store') = Slot(store)
    BY <2>1, <2>2, DropRowIs DEF Base
  <2> QED
    BY <1>2, <2>3 DEF Aside, CleanupDone, session, procs
<1>3. CASE EndUnconfirmed
  <2>1. end # None /\ end.pc = "asking" /\ end.sid \in Incarnations(rec)
    BY <1>3, EndIs DEF Base, Typed, EndTyped, EndUnconfirmed
  <2>2. end'.pc = "joining" /\ end'.sid = end.sid /\ end'.pending = end.pending
    BY <1>3, <2>1, EndAtBase DEF EndUnconfirmed, EndPhases
  <2>3. ASSUME NEW ok \in Outcomes, store' = Written(store, Companion(store, rec[end.sid]), ok)
        PROVE  Slot(store') = Slot(store)
    BY <2>1, <2>3, KeepRowIs DEF Base
  <2> QED
    BY <1>3, <2>1, <2>2, <2>3 DEF Aside, EndUnconfirmed, session
<1>4. CASE EndCleans
  <2>1. end # None /\ end.pc = "cleaning" /\ end.sid \in Incarnations(rec)
    BY <1>4, EndIs DEF Base, Typed, EndTyped, EndCleans
  <2>2. end'.pc = "settling" /\ end'.sid = end.sid /\ end'.pending = end.pending
    BY <1>4, <2>1, EndAtBase DEF EndCleans, EndPhases
  <2>3. PICK gone \in BOOLEAN, ok \in Outcomes :
          store' = Written(store, IF gone THEN RemoveStale(store, Thread, IdOf(rec[end.sid]))
                                          ELSE Companion(store, rec[end.sid]), ok)
    BY <1>4 DEF EndCleans
  <2>4. Slot(store') = Slot(store)
    BY <2>1, <2>3, KeepRowIs, DropRowIs DEF Base
  <2> QED
    BY <1>4, <2>1, <2>2, <2>4 DEF Aside, EndCleans, session, detached
<1>5. CASE EndReapsRow
  <2>1. ASSUME NEW row \in RowsOf(store, Thread), NEW gone \in BOOLEAN, NEW ok \in Outcomes,
               store' = Written(store, RemoveStale(store, Thread, IdOf(row)), gone /\ ok)
        PROVE  Slot(store') = Slot(store)
    <3>1. row.sid \in Incarnations(rec) /\ IdOf(row) = IdOf(rec[row.sid])
      BY RowIs DEF Base
    <3>2. PICK wrote \in BOOLEAN : wrote <=> gone /\ ok
      OBVIOUS
    <3>3. store' = Written(store, RemoveStale(store, Thread, IdOf(rec[row.sid])), wrote)
      BY <2>1, <3>1, <3>2 DEF Written
    <3> QED
      BY <3>1, <3>3, DropRowIs DEF Base
  <2>2. Slot(store') = Slot(store)
    BY <1>5, <2>1 DEF EndReapsRow
  <2> QED
    BY <1>5, <2>2 DEF Aside, EndReapsRow, session, detached
<1> QED
  BY <1>1, <1>2, <1>3, <1>4, <1>5

\* A rebind that only goes on, or gives way, leaves the slot to what it was.
Onward ==
    /\ tx # None /\ tx' # None /\ tx'.old = tx.old /\ tx'.new = tx.new /\ tx'.prev = tx.prev
    /\ tx.pc \in {"checking", "opening", "capturing", "creating"}
    /\ \/ tx'.pc = "abandoning" /\ ~Owns /\ tx'.lost = Lost
       \/ /\ tx.pc # "creating" /\ tx'.lost = tx.lost
          /\ tx'.pc \in {"opening", "capturing"} \/ (tx'.pc = "undoing" /\ (Owns => live \notin fenced'))
    /\ fenced' \subseteq fenced
    /\ UNCHANGED <<store, live, ended, pendingOld, fallback, end, stop, gaveUp>>

LEMMA CalmOnward == ASSUME Plain, Calm, Onward PROVE Calm'
<1>1. Sure' /\ Settling'
  BY DEF Onward, Calm, Sure, Settling, Creating, Cur
<1>2. Delivering'
  <2>1. Owns' <=> Owns
    BY DEF Onward, Owns, OwnsSession
  <2>2. live # None /\ OwnsSession(live) => Owns
    BY DEF Onward, Calm, Delivering, Owns
  <2> QED
    BY <2>1, <2>2 DEF Onward, Calm, Delivering, OwnsSession, Forward
<1>3. Surviving'
  <2>1. Unended' <=> Unended
    BY DEF Onward, Unended
  <2> QED
    BY <2>1, LostTo DEF Onward, Calm, Surviving
<1>4. ASSUME "overtake" \notin Events PROVE Standing'
  <2>1. \A s : Active(s)' <=> Active(s)
    BY DEF Onward, Active, Cur
  <2>2. EndStands'
    BY <1>4 DEF Onward, Calm, Standing, EndStands, Primary
  <2> QED
    BY <1>4, <2>1, <2>2, LostTo DEF Onward, Calm, Standing
<1> QED
  BY <1>1, <1>2, <1>3, <1>4 DEF Calm

\* One that is over with nothing of its own left in the slot.
Leaving ==
    /\ tx # None /\ tx.pc \notin {"creating", "abandoning"} /\ tx' = None
    /\ fenced' \subseteq fenced /\ (tx.pc \in Forward /\ Owns => live \notin fenced')
    /\ UNCHANGED <<store, live, ended, pendingOld, fallback, end, stop, gaveUp>>

LEMMA CalmLeaving == ASSUME Calm, Leaving PROVE Calm'
<1>1. Sure' /\ Settling'
  BY DEF Leaving, Calm, Sure, Settling, Creating
<1>2. Delivering'
  BY DEF Leaving, Calm, Delivering, Owns, OwnsSession, Forward
<1>3. Surviving'
  BY DEF Leaving, Calm, Surviving, Unended
<1>4. "overtake" \notin Events => Standing'
  BY DEF Leaving, Calm, Standing, EndStands, Active, Cur, Primary
<1> QED
  BY <1>1, <1>2, <1>3, <1>4 DEF Calm

LEMMA CheckedCalm == ASSUME Base, Plain, Calm, Checked PROVE Calm'
<1>1. CASE tx' = None /\ Unfence
  <2>1. Leaving
    BY <1>1 DEF Leaving, Checked, Unfence, Calm, Delivering, Owns, OwnsSession, Plain, Transaction,
       world, detached
  <2> QED
    BY <2>1, CalmLeaving
<1>2. CASE Owns /\ GoTo(IF tx.bind \in Trees THEN "opening" ELSE "capturing") /\ UNCHANGED fenced
  <2>1. PICK p \in {"opening", "capturing"} : GoTo(p)
    BY <1>2
  <2>2. /\ tx' # None /\ tx'.pc = p /\ tx'.old = tx.old /\ tx'.new = tx.new /\ tx'.prev = tx.prev
        /\ tx'.lost = tx.lost
    BY <2>1, GoToBase DEF Phases, Checked
  <2>3. Onward
    BY <1>2, <2>2 DEF Onward, Checked, world, detached
  <2> QED
    BY <2>3, CalmOnward
<1> QED
  BY <1>1, <1>2 DEF Checked

LEMMA OpenTreeCalm == ASSUME Plain, Calm, OpenTree PROVE Calm'
<1>1. CASE tx' = None /\ Unfence
  <2>1. Leaving
    BY <1>1 DEF Leaving, OpenTree, Unfence, Calm, Delivering, Owns, OwnsSession, Plain, Transaction,
       detached
  <2> QED
    BY <2>1, CalmLeaving
<1>2. CASE /\ tx' = [tx EXCEPT !.created = TRUE, !.pc = IF Owns THEN "capturing" ELSE "undoing"]
           /\ UNCHANGED fenced
  <2>1. PICK p \in {"capturing", "undoing"} : /\ p = IF Owns THEN "capturing" ELSE "undoing"
                                              /\ tx' = [tx EXCEPT !.created = TRUE, !.pc = p]
    BY <1>2
  <2>2. /\ tx' # None /\ tx'.pc = p /\ tx'.old = tx.old /\ tx'.new = tx.new /\ tx'.prev = tx.prev
        /\ tx'.lost = tx.lost
    <3>1. tx \in Transaction /\ None \notin Transaction
      BY DEF Plain, OpenTree
    <3>2. [tx EXCEPT !.created = TRUE, !.pc = p] \in Transaction
      BY <3>1 DEF Transaction, Phases
    <3>3. /\ tx'.pc = p /\ tx'.old = tx.old /\ tx'.new = tx.new /\ tx'.prev = tx.prev
          /\ tx'.lost = tx.lost
      BY <2>1, <3>1 DEF Transaction
    <3> QED
      BY <2>1, <3>1, <3>2, <3>3
  <2>3. Onward
    BY <1>2, <2>1, <2>2 DEF Onward, OpenTree, detached
  <2> QED
    BY <2>3, CalmOnward
<1> QED
  BY <1>1, <1>2 DEF OpenTree

LEMMA CaptureFailsCalm == ASSUME Base, Plain, Calm, CaptureFails PROVE Calm'
<1>1. /\ tx # None /\ tx.pc = "capturing" /\ Unfence
      /\ UNCHANGED <<store, live, ended, pendingOld, fallback, end, stop, gaveUp>>
  BY NoPlans DEF CaptureFails, Forward
<1>2. CASE Owns
  <2>1. /\ tx' # None /\ tx'.pc = "undoing" /\ tx'.old = tx.old /\ tx'.new = tx.new
        /\ tx'.prev = tx.prev /\ tx'.lost = tx.lost
    BY <1>1, <1>2, GoToBase DEF CaptureFails, Phases
  <2>2. Onward
    BY <1>1, <1>2, <2>1 DEF Onward, Unfence, Owns, OwnsSession
  <2> QED
    BY <2>2, CalmOnward
<1>3. CASE ~Owns
  <2>1. /\ tx' # None /\ tx'.pc = "abandoning" /\ tx'.old = tx.old /\ tx'.new = tx.new
        /\ tx'.prev = tx.prev /\ tx'.lost = Lost
    BY <1>1, <1>3, GiveWayBase DEF CaptureFails
  <2>2. Onward
    BY <1>1, <1>3, <2>1 DEF Onward, Unfence
  <2> QED
    BY <2>2, CalmOnward
<1> QED
  BY <1>2, <1>3

\* The replacement, created or not, is no longer wanted.
LEMMA GivesWayCalm ==
    ASSUME Base, Plain, Calm, CreatedTooLate \/ (CreateFails /\ ~Owns) PROVE Calm'
<1>1. /\ tx # None /\ tx.pc = "creating" /\ ~Owns /\ GiveWay(tx) /\ UNCHANGED fenced
      /\ UNCHANGED <<store, live, ended, pendingOld, fallback, end, stop, gaveUp>>
  BY NoPlans DEF CreatedTooLate, CreateFails, Forward, session
<1>2. /\ tx' # None /\ tx'.pc = "abandoning" /\ tx'.old = tx.old /\ tx'.new = tx.new
      /\ tx'.prev = tx.prev /\ tx'.lost = Lost
  BY <1>1, GiveWayBase
<1>3. Onward
  BY <1>1, <1>2 DEF Onward
<1> QED
  BY <1>3, CalmOnward

LEMMA CaptureCalm == ASSUME ~WritesFail, Base, Plain, Gated, Calm, CaptureAndReserve PROVE Calm'
<1>1. /\ tx # None /\ tx.pc = "capturing" /\ Owns
      /\ UNCHANGED <<live, ended, fallback, end, stop, gaveUp>>
  BY DEF CaptureAndReserve, detached
<1>2. /\ end = None /\ live = tx.old /\ live # None /\ stop = "running"
      /\ tx.old \in Incarnations(rec)
  BY <1>1, OwnsAlone, TxIs DEF Base
<1>3. CASE Slot(store) = None
  <2>1. GoTo("undoing") /\ Unfence /\ UNCHANGED <<store, pendingOld>>
    BY <1>3 DEF CaptureAndReserve, Primary, Slot
  <2>2. /\ tx' # None /\ tx'.pc = "undoing" /\ tx'.old = tx.old /\ tx'.new = tx.new
        /\ tx'.prev = tx.prev /\ tx'.lost = tx.lost
    BY <1>1, <2>1, GoToBase DEF Phases
  <2>3. Onward
    BY <1>1, <1>2, <2>1, <2>2 DEF Onward, Unfence
  <2> QED
    BY <2>3, CalmOnward
<1>4. CASE Slot(store) # None
  <2>1. PICK kept \in Outcomes, reserved \in Outcomes, s \in Sids : Captured(kept, reserved, s)
    BY <1>4, CaptureIs DEF Base
  <2>2. kept /\ reserved
    BY DEF Outcomes
  <2>3. /\ tx' = [tx EXCEPT !.pc = "creating", !.new = s, !.prev = Slot(store)]
        /\ Slot(store') # None /\ Slot(store').sid = s /\ Slot(store').state = "creating"
        /\ pendingOld' = pendingOld \cup {tx.old} /\ UNCHANGED fenced /\ s \notin Incarnations(rec)
    BY <2>1, <2>2 DEF Captured
  <2>4. PICK prev : prev = Slot(store)
    OBVIOUS
  <2>5. tx' = [tx EXCEPT !.pc = "creating", !.new = s, !.prev = prev]
    BY <2>3, <2>4
  <2>6. /\ tx'.pc = "creating" /\ tx'.old = tx.old /\ tx'.new = s /\ tx'.prev = prev
        /\ tx'.lost = tx.lost
    BY <1>1, <2>5 DEF Plain, Transaction
  <2>7. tx' # None
    <3>1. tx' = [pc |-> "creating", old |-> tx.old, new |-> s, prev |-> prev,
                 bind |-> tx.bind, created |-> tx.created, lost |-> tx.lost]
      BY <1>1, <2>5 DEF Plain, Transaction
    <3>2. prev \in Record
      BY <1>4, <2>4 DEF Base, Typed, Good, Copies
    <3>3. tx' \in Transaction
      BY <1>1, <3>1, <3>2 DEF Plain, Transaction, Phases
    <3> QED
      BY <3>3 DEF Plain
  <2>8. s # tx.old /\ s \notin fenced /\ s \notin pendingOld
    BY <1>2, <2>3 DEF Base, Typed, SessionTyped
  <2>9. Sure' /\ Settling'
    BY <1>1, <2>3, <2>4, <2>6, <2>7 DEF Calm, Sure, Settling, Creating, Cur
  <2>10. Delivering'
    BY <1>1, <1>2, <2>3, <2>6, <2>7, <2>8 DEF Calm, Delivering, Forward
  <2>11. Surviving'
    BY <1>1, <2>3, <2>4, <2>6, <2>7 DEF Calm, Settling, Surviving, Unended, Creating
  <2>12. "overtake" \notin Events => Standing'
    BY <1>1, <1>2, <2>3, <2>6, <2>7 DEF Calm, Standing, EndStands, Active, Primary, Slot
  <2> QED
    BY <2>9, <2>10, <2>11, <2>12 DEF Calm
<1> QED
  BY <1>3, <1>4

LEMMA SwapCalm == ASSUME Base, Plain, Gated, Calm, Swap PROVE Calm'
<1>1. /\ tx # None /\ tx.pc = "creating" /\ Owns /\ GoTo("retiring")
      /\ live' = tx.new /\ pendingOld' = pendingOld \ {tx.old}
      /\ UNCHANGED <<ended, fenced, fallback, end, stop, gaveUp>>
  BY DEF Swap
<1>2. end = None /\ live # None /\ stop = "running"
  BY <1>1, OwnsAlone
<1>3. /\ tx' # None /\ tx'.pc = "retiring" /\ tx'.old = tx.old /\ tx'.new = tx.new
      /\ tx'.prev = tx.prev /\ tx'.lost = tx.lost
  BY <1>1, GoToBase DEF Phases
<1>4. Slot(store) # None /\ Slot(store).sid = tx.new
  BY <1>1 DEF Base, Sited
<1>5. Slot(store') # None /\ Slot(store').sid = tx.new /\ Slot(store').state = "active"
  BY <1>4, SwapIs DEF Base
<1>6. tx.new # None
  BY <1>1 DEF Base, Typed, TxTyped
<1>7. Sure' /\ Settling'
  BY <1>1, <1>3, <1>5 DEF Calm, Sure, Settling, Creating
<1>8. Delivering'
  BY <1>1, <1>3 DEF Calm, Delivering
<1>9. Surviving'
  BY <1>1, <1>2, <1>3, <1>5, <1>6 DEF Calm, Surviving, Unended
<1>10. "overtake" \notin Events => Standing'
  BY <1>1, <1>2, <1>3 DEF Calm, Standing, Delivering, EndStands
<1> QED
  BY <1>7, <1>8, <1>9, <1>10 DEF Calm

\* What its reservation leaves in the slot, by whom the thread was lost to.
Verdict ==
    IF Own(store)
    THEN \/ ~Owns /\ GivenUp /\ Slot(store') = None /\ UNCHANGED <<pendingOld, fenced>>
         \/ /\ Owns \/ ~GivenUp
            /\ Slot(store') # None /\ Slot(store').sid = tx.prev.sid
            /\ Slot(store').state = tx.prev.state
            /\ pendingOld' = pendingOld \ {tx.old}
            /\ fenced' = IF Owns THEN fenced \ {tx.old} ELSE fenced
    ELSE Slot(store') = Slot(store) /\ UNCHANGED <<pendingOld, fenced>>

\* A rebind that came to nothing.
Clearing ==
    /\ tx # None /\ tx.pc \in {"creating", "abandoning"} /\ (tx.pc = "creating" => Owns)
    /\ tx' # None =>
        /\ tx'.old = tx.old /\ tx'.new = tx.new /\ tx'.prev = tx.prev /\ tx'.lost = tx.lost
        /\ tx'.bind = tx.bind /\ tx'.pc = "undoing"
    /\ Verdict
    /\ UNCHANGED <<live, ended, fallback, end, stop, gaveUp>>

LEMMA CalmClearing == ASSUME Base, Plain, Gated, Calm, Clearing PROVE Calm'
<1>1. /\ tx.new # None => tx.prev # None
      /\ Slot(store) # None => Slot(store).sid # None
      /\ tx.pc = "creating" => Own(store)
  BY CopyIs, IncarnationIs DEF Clearing, Base, Sited, Typed, TxTyped, Good, Own
<1>2. tx.pc = "abandoning" => ~Owns
  BY DEF Clearing, Calm, Delivering
<1>3. live \in {None, tx.old}
  BY DEF Clearing, Calm, Delivering
<1>4. Sure' /\ Settling'
  <2>1. ~Own(store) => ~Creating
    BY <1>1 DEF Clearing, Calm, Settling, Own, Creating, Cur
  <2> QED
    BY <1>1, <2>1 DEF Clearing, Verdict, Calm, Sure, Settling, Creating, Own
<1>5. Delivering'
  <2>1. ~(live # None /\ live \in fenced /\ OwnsSession(live))'
    BY <1>1, <1>2, <1>3 DEF Clearing, Verdict, Calm, Delivering, Owns, OwnsSession
  <2> QED
    BY <1>3, <2>1 DEF Clearing, Delivering
<1>6. Surviving'
  <2>1. Unended' <=> Unended
    BY DEF Clearing, Unended
  <2>2. ASSUME Unended
        PROVE  Slot(store') # None /\ Slot(store').state \in {"active", "creating"}
    <3>1. ~Owns => ~GivenUp
      BY <2>2, LostTo DEF Clearing, GivenUp
    <3> QED
      BY <1>1, <2>2, <3>1 DEF Clearing, Verdict, Calm, Surviving, Own
  <2> QED
    BY <2>1, <2>2 DEF Clearing, Calm, Surviving
<1>7. ASSUME "overtake" \notin Events PROVE Standing'
  <2>1. Slot(store') # Slot(store) /\ Slot(store') # None => gaveUp = {} /\ end = None
    <3>1. Owns => gaveUp = {} /\ end = None
      BY <1>7, OwnsAlone DEF Clearing, Calm, Standing
    <3>2. ~Owns /\ ~GivenUp => gaveUp = {} /\ end = None
      BY <1>7, LostTo DEF Clearing
    <3> QED
      BY <3>1, <3>2 DEF Clearing, Verdict
  <2>2. live # None /\ live \in pendingOld' => live \in pendingOld /\ (~Own(store) \/ Slot(store') = None)
    BY <1>3 DEF Clearing, Verdict
  <2>3. live # None /\ live \in pendingOld' => ~Active(live)'
    BY <1>7, <2>2 DEF Clearing, Verdict, Calm, Standing, Active, Cur
  <2>4. EndStands'
    BY <1>7, <2>1 DEF Clearing, Calm, Standing, EndStands, Primary, Slot
  <2>5. end # None /\ ~Active(end.sid) => ~Active(end.sid)'
    BY <2>1 DEF Clearing, Active, Cur
  <2> QED
    BY <1>7, <2>3, <2>4, <2>5 DEF Clearing, Calm, Standing
<1> QED
  BY <1>4, <1>5, <1>6, <1>7 DEF Calm

LEMMA CreateFailsClears ==
    ASSUME ~WritesFail, Base, Plain, Gated, Calm, CreateFails, Owns PROVE Clearing
<1>1. /\ tx # None /\ tx.pc = "creating" /\ GoTo("undoing")
      /\ UNCHANGED <<live, ended, fallback, end, stop, gaveUp>>
  BY DEF CreateFails
<1>2. PICK back \in Outcomes, dropped \in Outcomes : RollBack(store, back, dropped)
  BY DEF CreateFails
<1>3. /\ tx'.pc = "undoing" /\ tx'.old = tx.old /\ tx'.new = tx.new
      /\ tx'.prev = tx.prev /\ tx'.lost = tx.lost /\ tx'.bind = tx.bind
  BY <1>1, GoToBase DEF Phases
<1>4. back /\ tx.new # None /\ Good(rec, store)
  BY <1>1 DEF Outcomes, Base, Typed, TxTyped
<1>5. IF Own(store) THEN RolledBack(store, dropped)
                    ELSE store' = store /\ UNCHANGED <<pendingOld, fenced>>
  BY <1>1, <1>2, <1>4, RollBackIs DEF Base, Own
<1> QED
  BY <1>1, <1>3, <1>5 DEF Clearing, Verdict, RolledBack

LEMMA SettledIs ==
    ASSUME Typed, tx # None, NEW before, Good(rec, before), Slot(before) = Slot(store), ~Owns,
           NEW dropped, SettleSlot(before, TRUE, dropped)
    PROVE  Verdict
<1>1. IF Own(before)
      THEN IF GivenUp
           THEN Slot(store') = None /\ UNCHANGED <<pendingOld, fenced>>
           ELSE RolledBack(before, dropped)
      ELSE store' = before /\ UNCHANGED <<pendingOld, fenced>>
  BY SettleSlotIs DEF Own
<1>2. Own(before) <=> Own(store)
  BY DEF Own
<1> QED
  BY <1>1, <1>2 DEF RolledBack, Verdict

LEMMA AbandonStoppedClears ==
    ASSUME ~WritesFail, Base, Plain, Gated, Calm, AbandonStopped PROVE Clearing
<1>1. /\ tx # None /\ tx.pc = "abandoning" /\ GoTo("undoing")
      /\ UNCHANGED <<live, ended, fallback, end, stop, gaveUp>>
  BY DEF AbandonStopped, detached
<1>2. ~Owns
  BY <1>1 DEF Calm, Delivering
<1>3. PICK back \in Outcomes, dropped \in Outcomes : SettleSlot(store, back, dropped)
  BY DEF AbandonStopped
<1>4. SettleSlot(store, TRUE, dropped)
  BY <1>3 DEF Outcomes
<1>5. /\ tx'.pc = "undoing" /\ tx'.old = tx.old /\ tx'.new = tx.new
      /\ tx'.prev = tx.prev /\ tx'.lost = tx.lost /\ tx'.bind = tx.bind
  BY <1>1, GoToBase DEF Phases
<1> QED
  BY <1>1, <1>2, <1>4, <1>5, SettledIs DEF Clearing, Base, Typed

LEMMA AbandonUnconfirmedClears ==
    ASSUME ~WritesFail, Base, Plain, Gated, Calm, AbandonUnconfirmed PROVE Clearing
<1>1. /\ tx # None /\ tx.pc = "abandoning" /\ tx' = None
      /\ UNCHANGED <<live, ended, end, stop, gaveUp>>
  BY DEF AbandonUnconfirmed
<1>2. ~Owns
  BY <1>1 DEF Calm, Delivering
<1>3. PICK durable \in Outcomes, back \in Outcomes, dropped \in Outcomes :
        \E retained, plan : Leaves(durable, back, dropped, retained, plan)
  BY AbandonUnconfirmedIs
<1>4. PICK retained, plan : Leaves(durable, back, dropped, retained, plan)
  BY <1>3
<1>5. durable /\ back = TRUE
  BY DEF Outcomes
<1>6. /\ Good(rec, retained) /\ Slot(retained) = Slot(store)
      /\ SettleSlot(retained, TRUE, dropped) /\ UNCHANGED fallback
  BY <1>4, <1>5 DEF Leaves
<1> QED
  BY <1>1, <1>2, <1>6, SettledIs DEF Clearing, Base

LEMMA EndLiveCalm == ASSUME Plain, Calm, EndLive PROVE Calm'
<1>1. /\ live # None /\ stop = "running" /\ end = None /\ ended' = ended \cup {live}
      /\ UNCHANGED <<store, live, pendingOld, fenced, tx, stop, gaveUp>>
  BY DEF EndLive
<1>2. UNCHANGED fallback
  BY DEF EndLive, AllToRemoval, Calm, Sure, Plain
<1>3. end'.pc = "asking" /\ end'.sid = live /\ end'.pending = (live \in pendingOld) /\ end' # None
  <2>1. end' = [pc |-> "asking", sid |-> live, pending |-> live \in pendingOld]
    BY DEF EndLive
  <2>2. end' \in Ending
    BY <1>1, <2>1 DEF Ending, EndPhases, Plain
  <2> QED
    BY <2>1, <2>2 DEF Plain
<1>4. Sure' /\ Settling'
  BY <1>1, <1>2 DEF Calm, Sure, Settling, Creating, Cur
<1>5. Delivering'
  BY <1>1 DEF Calm, Delivering, Owns, OwnsSession
<1>6. Surviving'
  BY <1>1, <1>3 DEF Surviving, Unended
<1>7. ASSUME "overtake" \notin Events PROVE Standing'
  <2>1. end'.pending => live \in pendingOld
    BY <1>3
  <2> QED
    BY <1>1, <1>3, <1>7, <2>1 DEF Calm, Standing, EndStands, Active, Cur, Primary
<1> QED
  BY <1>4, <1>5, <1>6, <1>7 DEF Calm

LEMMA EndConfirmedCalm == ASSUME Base, Plain, Gated, Calm, EndConfirmed PROVE Calm'
<1>1. /\ end # None /\ end.pc = "asking" /\ end.sid \in ended /\ live' = None
      /\ pendingOld' \subseteq pendingOld
      /\ UNCHANGED <<store, ended, fenced, fallback, tx, stop, gaveUp>>
  BY DEF EndConfirmed, detached, Gated, GatedEnd
<1>2. /\ end' # None /\ end'.pc \in {"settling", "cleaning"}
      /\ end'.sid = end.sid /\ end'.pending = end.pending
  <2>1. PICK p \in {"settling", "cleaning"} : EndAt(p)
    BY DEF EndConfirmed
  <2> QED
    BY <1>1, <2>1, EndAtBase DEF EndPhases
<1>3. tx # None => ~Owns'
  BY <1>1 DEF Owns, OwnsSession, Plain, Transaction
<1>4. Sure' /\ Settling'
  BY <1>1 DEF Calm, Sure, Settling, Creating, Cur
<1>5. Delivering'
  BY <1>1, <1>3 DEF Calm, Delivering
<1>6. Surviving'
  BY <1>1, <1>2 DEF Calm, Surviving, Unended
<1>7. "overtake" \notin Events => Standing'
  BY <1>1, <1>2 DEF Calm, Standing, EndStands, Active, Cur, Primary
<1> QED
  BY <1>4, <1>5, <1>6, <1>7 DEF Calm

\* `/end` reports a session with a companion row only once its slot is not active
\* any more, and only to a thread that nobody is shutting down.
LEMMA EndReportsCalm == ASSUME Base, Calm, EndReports PROVE Calm'
<1>1. /\ end # None /\ end.pc = "settling" /\ end.pending /\ end' = None
      /\ gaveUp' = gaveUp \cup {end.sid}
      /\ UNCHANGED <<store, live, ended, pendingOld, fenced, fallback, tx, stop>>
  BY DEF EndReports, session, detached
<1>2. live = None
  BY <1>1 DEF Base, Sited
<1>3. Sure' /\ Settling' /\ Delivering'
  BY <1>1 DEF Calm, Sure, Settling, Delivering, Creating, Cur, Owns, OwnsSession
<1>4. Surviving'
  BY <1>1 DEF Calm, Surviving, Unended
<1>5. "overtake" \notin Events => Standing'
  BY <1>1, <1>2 DEF Calm, Standing, EndStands, Active, Cur, Primary, Slot
<1> QED
  BY <1>3, <1>4, <1>5 DEF Calm

\* The record that is reclaimed leaves the slot, or stays there as blocked.
LEMMA ReclaimsCalm ==
    ASSUME ~WritesFail, Base, Calm, EndReclaims \/ EndReclaimsRecord PROVE Calm'
<1>1. /\ end # None /\ end.pc \in {"settling", "reclaiming"} /\ end' = None
      /\ Reclaim(rec[end.sid].bind)
      /\ UNCHANGED <<live, ended, pendingOld, fenced, fallback, tx, stop>>
  BY DEF EndReclaims, EndReclaimsRecord, session, detached
<1>2. live = None
  BY <1>1 DEF Base, Sited
<1>3. Slot(store') = None \/ Slot(store').state = "blocked"
  BY <1>1, ReclaimIs DEF Base
<1>4. Sure' /\ Settling' /\ Delivering'
  BY <1>1, <1>3 DEF Calm, Sure, Settling, Delivering, Creating, Owns, OwnsSession
<1>5. Surviving'
  BY <1>1, <1>2 DEF Calm, Surviving, Unended
<1>6. "overtake" \notin Events => Standing'
  BY <1>1, <1>2, <1>3 DEF Calm, Standing, EndStands, Active, Primary, Slot
<1> QED
  BY <1>4, <1>5, <1>6 DEF Calm

LEMMA EndLooksCalm == ASSUME Plain, Calm, EndLooks PROVE Calm'
<1>1. /\ end # None /\ end.pc = "reconciling" /\ end \in Ending
      /\ UNCHANGED <<store, live, ended, pendingOld, fenced, fallback, tx, stop, gaveUp>>
  BY DEF EndLooks, session, detached, Plain
<1>2. end' # None => end'.pc \in {"rows", "reclaiming"}
  <2>1. ASSUME EndAt("rows") PROVE end'.pc = "rows"
    BY <1>1, <2>1 DEF EndAt, Ending
  <2>2. ASSUME NEW s, end' = [end EXCEPT !.pc = "reclaiming", !.sid = s] PROVE end'.pc = "reclaiming"
    BY <1>1, <2>2 DEF Ending
  <2> QED
    BY <2>1, <2>2 DEF EndLooks
<1>3. Aside
  BY <1>1, <1>2 DEF Aside
<1> QED
  BY <1>3, CalmAside

LEMMA StopCalm == ASSUME Calm, Stop PROVE Calm'
<1>1. /\ stop = "running" /\ stop' = "sweeping" /\ (Unended \/ "overtake" \in Events)
      /\ UNCHANGED <<store, live, ended, pendingOld, fenced, fallback, tx, end, gaveUp>>
  BY DEF Stop, session, detached
<1>2. Sure' /\ Settling' /\ Delivering'
  BY <1>1 DEF Calm, Sure, Settling, Delivering, Creating, Cur, Owns, OwnsSession
<1>3. Surviving'
  BY <1>1 DEF Calm, Surviving, Unended
<1>4. "overtake" \notin Events => Standing'
  BY <1>1 DEF Calm, Standing, Surviving, Unended, EndStands, Active, Cur, Primary
<1> QED
  BY <1>2, <1>3, <1>4 DEF Calm

\* The shutdown's own steps.
LEMMA StoppingCalm == ASSUME Plain, Calm, StopStep PROVE Calm'
<1>1. /\ stop # "running" /\ stop' # "running" /\ live' \in {live, None} /\ ended \subseteq ended'
      /\ UNCHANGED <<store, pendingOld, fenced, fallback, tx, end, gaveUp>>
  BY DEF StopStep, TearDown, TornDown, Down, session, detached
<1>2. Sure' /\ Settling' /\ Delivering'
  BY <1>1 DEF Calm, Sure, Settling, Delivering, Creating, Cur, Owns, OwnsSession
<1>3. Surviving'
  BY <1>1 DEF Calm, Surviving, Unended
<1>4. "overtake" \notin Events => Standing'
  BY <1>1 DEF Calm, Standing, EndStands, Active, Cur, Primary
<1> QED
  BY <1>2, <1>3, <1>4 DEF Calm

LEMMA CalmStep ==
    ASSUME ~WritesFail
    PROVE  Base /\ Gated /\ Calm /\ [Next]_vars => Calm'
<1> SUFFICES ASSUME Base, Plain, Gated, Calm, [Next]_vars PROVE Calm'
  BY BasePlain
<1>1. CASE Checked \/ OpenTree \/ CaptureFails \/ CaptureAndReserve \/ CreatedTooLate \/ Swap
  BY <1>1, CheckedCalm, OpenTreeCalm, CaptureFailsCalm, GivesWayCalm, CaptureCalm, SwapCalm
<1>2. CASE CreateFails \/ AbandonStopped \/ AbandonUnconfirmed
  BY <1>2, CreateFailsClears, GivesWayCalm, AbandonStoppedClears, AbandonUnconfirmedClears, CalmClearing
<1>3. CASE Retired \/ Undo
  <2>1. Leaving
    BY <1>3 DEF Leaving, Retired, Undo, Forward, session, detached
  <2> QED
    BY <2>1, CalmLeaving
<1>4. CASE Unreserved \/ CommitFails \/ UncommittedCloses \/ UncommittedStays
           \/ AbandonTracked \/ AbandonJoined \/ \E s \in Sids : CleanupFallback(s)
  BY <1>4 DEF Calm, Sure, Unreserved, CommitFails, UncommittedCloses, UncommittedStays,
     AbandonTracked, AbandonJoined, CleanupFallback, HasReplacement, Plain, Transaction
<1>5. CASE EndLive \/ EndConfirmed \/ EndReports \/ EndReclaims \/ EndReclaimsRecord \/ EndLooks
  BY <1>5, EndLiveCalm, EndConfirmedCalm, EndReportsCalm, ReclaimsCalm, EndLooksCalm
<1>6. CASE Stop \/ StopStep
  BY <1>6, StopCalm, StoppingCalm
<1>7. CASE \/ EndUnconfirmed \/ EndCleans \/ EndReapsRow
           \/ \E s \in Sids : StaysUnconfirmed(s) \/ CleanupKept(s) \/ CleanupDone(s)
  BY <1>7, RowsAside, CalmAside
<1>8. CASE \/ EndRefuses \/ \E s \in Sids : Retry(s) \/ Confirmed(s)
           \/ \E p \in {"end", "stop"} : SettleNext(p) \/ SettleJoined(p)
           \/ UNCHANGED vars
  <2>1. Aside
    BY <1>8 DEF Aside, EndRefuses, Retry, Confirmed, SettleNext, SettleJoined, vars,
       session, detached, procs
  <2> QED
    BY <2>1, CalmAside
<1>9. ASSUME NEW b \in Binds, Begin(b) PROVE Calm'
  <2>1. /\ tx = None /\ live # None /\ stop = "running" /\ fenced' = fenced \cup {live}
        /\ UNCHANGED <<store, live, ended, pendingOld, fallback, end, stop, gaveUp>>
    BY <1>9 DEF Begin, detached
  <2>2. /\ tx'.pc = "checking" /\ tx'.old = live /\ tx'.prev = None /\ tx'.lost = "no"
    BY <1>9 DEF Begin
  <2>3. tx' # None
    <3>1. tx' = [pc |-> "checking", old |-> live, new |-> None, prev |-> None,
                 bind |-> b, created |-> FALSE, lost |-> "no"]
      BY <1>9 DEF Begin
    <3>2. tx' \in Transaction
      BY <2>1, <3>1 DEF Plain, Transaction, Phases
    <3> QED
      BY <3>2 DEF Plain
  <2>4. Sure' /\ Settling'
    BY <2>1, <2>2 DEF Calm, Sure, Settling, Creating
  <2>5. Delivering'
    BY <2>1, <2>2, <2>3 DEF Calm, Delivering, Forward
  <2>6. Surviving'
    BY <2>1, <2>2 DEF Calm, Surviving, Unended
  <2>7. "overtake" \notin Events => Standing'
    BY <2>1, <2>2 DEF Calm, Standing, EndStands, Active, Cur, Primary
  <2> QED
    BY <2>4, <2>5, <2>6, <2>7 DEF Calm
<1>10. CASE EndStale
  <2>1. /\ live = None /\ end = None /\ stop = "running"
        /\ end' = [pc |-> "reconciling", sid |-> None, pending |-> FALSE]
        /\ UNCHANGED <<store, live, ended, pendingOld, fenced, fallback, tx, stop, gaveUp>>
    BY <1>10 DEF EndStale, session, detached
  <2>2. end'.pc = "reconciling" /\ end' # None
    <3>1. end' \in Ending
      BY <2>1 DEF Ending, EndPhases
    <3> QED
      BY <2>1, <3>1 DEF Plain
  <2>3. Sure' /\ Settling' /\ Delivering'
    BY <2>1 DEF Calm, Sure, Settling, Delivering, Creating, Cur, Owns, OwnsSession
  <2>4. Surviving'
    BY <2>1, <2>2 DEF Calm, Surviving, Unended
  <2>5. "overtake" \notin Events => Standing'
    BY <2>1, <2>2 DEF Calm, Standing, EndStands, Active, Cur, Primary
  <2> QED
    BY <2>3, <2>4, <2>5 DEF Calm
<1> QED
  BY <1>1, <1>2, <1>3, <1>4, <1>5, <1>6, <1>7, <1>8, <1>9, <1>10
     DEF Next, RebindStep, EndStep, Teardown

LEMMA CalmInit == Init => Calm
<1> SUFFICES ASSUME Init PROVE Calm
  OBVIOUS
<1>1. Account
  BY AccountInit
<1>2. Base
  BY BaseInit
<1>3. /\ ended = {} /\ pendingOld = {} /\ fenced = {} /\ gaveUp = {} /\ tx = None /\ end = None
      /\ stop = "running" /\ live # None /\ \A s \in Sids : fallback[s] = None
  BY RebindAssumption DEF Init
<1>4. Active(live)
  BY <1>1, <1>3 DEF Account, AccountLive
<1> QED
  BY <1>3, <1>4 DEF Calm, Sure, Settling, Delivering, Surviving, Standing, EndStands,
     Active, Creating, Cur

LEMMA CalmHolds ==
    ASSUME ~WritesFail
    PROVE  Spec => [](Base /\ Gated /\ Calm)
<1>1. Init => Base /\ Gated /\ Calm
  BY BaseInit, GatedInit, CalmInit
<1>2. Base /\ Gated /\ Calm /\ [Next]_vars => (Base /\ Gated /\ Calm)'
  BY BaseStep, GatedStep, CalmStep
<1> QED
  BY <1>1, <1>2, PTL DEF Spec

\* A rebind that is over, whether it went through, failed at any of its phases or
\* was overtaken by `/end` or the shutdown, leaves the thread's slot with an
\* incarnation and not with a reservation nobody completes; and if it failed, the
\* old conversation delivers files again.  As long as the store can be written.
THEOREM RebindsSettle ==
    ASSUME ~WritesFail
    PROVE  Spec => []RebindSettles
<1>1. Base /\ Gated /\ Calm => RebindSettles
  BY DEF Calm, Settling, Delivering, RebindSettles, SlotSettles, FenceLifted, Creating,
     OwnsSession, Primary, Slot
<1> QED
  BY <1>1, CalmHolds, PTL

\* A signal in the middle of a rebind costs the operator the rebind and nothing
\* else: the slot of a thread nobody ended is never empty, and once the process is
\* down it holds a record the next boot resumes, the old one or the new one.
THEOREM ConversationSurvives ==
    ASSUME ~WritesFail
    PROVE  Spec => []ConversationSurvivesStop
<1>1. Base /\ Gated /\ Calm => ConversationSurvivesStop
  BY DEF Calm, Settling, Surviving, ConversationSurvivesStop, Creating, Primary, Slot
<1> QED
  BY <1>1, CalmHolds, PTL

\* What `/end` has reported ended stays ended: no rollback, retry or late create
\* of the rebind it overtook makes the session the thread's active record again,
\* unless a shutdown overtakes `/end` in its turn.
THEOREM EndedStaysEnded ==
    ASSUME ~WritesFail, "overtake" \notin Events
    PROVE  Spec => []EndStands
<1>1. Base /\ Gated /\ Calm => EndStands
  BY DEF Calm, Standing
<1> QED
  BY <1>1, CalmHolds, PTL

-----------------------------------------------------------------------------
(* No worktree is shared, so none is pulled from under a runtime.           *)

Apart ==
    /\ \A s, x \in Incarnations(rec) : rec[s].bind = rec[x].bind => s = x
    /\ tx # None => IF tx.new = None
                    THEN \A s \in Incarnations(rec) : rec[s].bind # tx.bind
                    ELSE rec[tx.new].bind = tx.bind
    /\ Slot(store) # None /\ Slot(store).state \notin {"active", "creating"} =>
         runtime[Slot(store).sid] = "stopped"
    /\ end # None /\ end.pc = "reclaiming" => runtime[end.sid] = "stopped"

\* No incarnation is added, and none that stopped is started again.
Same ==
    /\ UNCHANGED rec
    /\ tx' # None => tx # None /\ tx'.new = tx.new /\ tx'.bind = tx.bind
    /\ Slot(store') \in {None, Slot(store)} \/ Slot(store').state \in {"active", "creating"}
    /\ \A s \in Sids : runtime[s] = "stopped" => runtime'[s] = "stopped"
    /\ end' # None /\ end'.pc = "reclaiming" =>
         end # None /\ end.pc = "reclaiming" /\ end'.sid = end.sid

LEMMA ApartSame == ASSUME Base, Apart, Same PROVE Apart'
<1>1. Slot(store) # None => Slot(store).sid \in Sids
  BY CopyIs, IncarnationIs DEF Base, Typed, Good
<1>2. end # None /\ end.pc = "reclaiming" => end.sid \in Sids
  BY EndIs, IncarnationIs DEF Base, Typed, EndTyped
<1> QED
  BY <1>1, <1>2 DEF Apart, Same

\* A rebind's own steps keep to its binding and its incarnation.
LEMMA TxSame ==
    ASSUME Base, Plain, RebindStep, ~CaptureAndReserve
    PROVE  /\ UNCHANGED <<rec, end>>
           /\ tx' # None => tx # None /\ tx'.new = tx.new /\ tx'.bind = tx.bind
<1>1. UNCHANGED <<rec, end>> /\ tx # None
  BY DEF RebindStep, Checked, OpenTree, CaptureFails, Unreserved, CreateFails, CreatedTooLate, Swap,
     CommitFails, Retired, UncommittedCloses, UncommittedStays, AbandonTracked, AbandonJoined,
     AbandonStopped, AbandonUnconfirmed, Undo, world
<1>2. \/ tx' = None \/ GiveWay(tx) \/ \E p \in Phases : GoTo(p)
      \/ \E p : tx' = [tx EXCEPT !.created = TRUE, !.pc = p]
  <2>1. /\ "undoing" \in Phases /\ "opening" \in Phases /\ "capturing" \in Phases
        /\ "retiring" \in Phases /\ "uncommitted" \in Phases /\ "joining" \in Phases
    BY DEF Phases
  <2> QED
    BY <2>1 DEF RebindStep, Checked, OpenTree, CaptureFails, Unreserved, CreateFails, CreatedTooLate,
       Swap, CommitFails, Retired, UncommittedCloses, UncommittedStays, AbandonTracked, AbandonJoined,
       AbandonStopped, AbandonUnconfirmed, Undo
<1>3. ASSUME NEW p, tx' = [tx EXCEPT !.created = TRUE, !.pc = p]
      PROVE  tx'.new = tx.new /\ tx'.bind = tx.bind
  BY <1>1, <1>3 DEF Plain, Transaction
<1> QED
  BY <1>1, <1>2, <1>3, GoToBase, GiveWayBase

LEMMA RebindApart ==
    ASSUME ~WritesFail, Base, Plain, Gated, Account, Calm, Apart, RebindStep, ~CaptureAndReserve
    PROVE  Apart'
<1>1. /\ UNCHANGED <<rec, end>>
      /\ tx' # None => tx # None /\ tx'.new = tx.new /\ tx'.bind = tx.bind
  BY TxSame
<1>2. ASSUME UNCHANGED <<store, runtime>> PROVE Apart'
  <2>1. Same
    BY <1>1, <1>2 DEF Same
  <2> QED
    BY <2>1, ApartSame
<1>3. CASE Checked \/ OpenTree \/ CaptureFails \/ Retired \/ Undo
  BY <1>2, <1>3 DEF Checked, OpenTree, CaptureFails, Retired, Undo, world
<1>4. CASE CreatedTooLate \/ Swap
  <2>1. tx # None /\ tx.new \in Sids /\ runtime[tx.new] = "starting"
        /\ runtime' = [runtime EXCEPT ![tx.new] = "maybe"]
    BY <1>4 DEF CreatedTooLate, Swap, Gated, GatedTx, Plain, Transaction
  <2>2. Slot(store') = Slot(store) \/ Slot(store').state = "active"
    <3>1. ASSUME Swap PROVE Slot(store) # None
      BY <3>1 DEF Swap, Base, Sited
    <3>2. ASSUME Swap PROVE Slot(store').state = "active"
      BY <3>1, <3>2, SwapIs DEF Base
    <3> QED
      BY <1>4, <3>2 DEF CreatedTooLate
  <2>3. Same
    BY <1>1, <2>1, <2>2 DEF Same, Plain
  <2> QED
    BY <2>3, ApartSame
<1>5. CASE CreateFails /\ ~Owns
  <2>1. UNCHANGED store /\ runtime' = [runtime EXCEPT ![tx.new] = "stopped"]
    BY <1>5 DEF CreateFails
  <2>2. Same
    BY <1>1, <2>1 DEF Same, Plain
  <2> QED
    BY <2>2, ApartSame
<1>6. CASE (CreateFails /\ Owns) \/ AbandonStopped \/ AbandonUnconfirmed
  <2>1. Clearing
    BY <1>6, CreateFailsClears, AbandonStoppedClears, AbandonUnconfirmedClears
  <2>2. runtime' \in {runtime, [runtime EXCEPT ![tx.new] = "stopped"]}
    BY <1>6 DEF CreateFails, AbandonStopped, AbandonUnconfirmed, world
  <2>3. Own(store) => tx.prev # None
    BY <2>1 DEF Own, Clearing, Base, Typed, TxTyped
  <2>4. Slot(store') \in {None, Slot(store)} \/ Slot(store').state = "active"
    BY <2>1, <2>3 DEF Clearing, Verdict, Account, AccountTx
  <2>5. Same
    BY <1>1, <2>2, <2>4 DEF Same, Plain
  <2> QED
    BY <2>5, ApartSame
<1>7. CASE Unreserved \/ CommitFails \/ UncommittedCloses \/ UncommittedStays
           \/ AbandonTracked \/ AbandonJoined
  BY <1>7 DEF Calm, Sure, Unreserved, CommitFails, UncommittedCloses, UncommittedStays,
     AbandonTracked, AbandonJoined, HasReplacement, Plain, Transaction
<1> QED
  BY <1>3, <1>4, <1>5, <1>6, <1>7 DEF RebindStep

\* The target is another incarnation in a binding nobody had before.
LEMMA CaptureApart ==
    ASSUME ~WritesFail, Base, Plain, Gated, Apart, CaptureAndReserve PROVE Apart'
<1>1. /\ tx # None /\ tx.pc = "capturing" /\ tx.new = None /\ UNCHANGED end
  BY DEF CaptureAndReserve, Gated, GatedTx
<1>2. CASE Slot(store) = None
  <2>1. GoTo("undoing") /\ UNCHANGED <<store, runtime, rec>>
    BY <1>2 DEF CaptureAndReserve, Primary, Slot
  <2>2. Same
    BY <1>1, <2>1, GoToBase DEF Same, Phases
  <2> QED
    BY <2>2, ApartSame
<1>3. CASE Slot(store) # None
  <2>1. PICK kept \in Outcomes, reserved \in Outcomes, s \in Sids : Captured(kept, reserved, s)
    BY <1>3, CaptureIs DEF Base
  <2>2. kept /\ reserved
    BY DEF Outcomes
  <2>3. /\ tx' = [tx EXCEPT !.pc = "creating", !.new = s, !.prev = Slot(store)]
        /\ runtime' = [runtime EXCEPT ![s] = "starting"] /\ runtime[s] = "unused"
        /\ rec' = [rec EXCEPT ![s] = rec'[s]]
        /\ rec'[s].bind = tx.bind /\ s \notin Incarnations(rec)
        /\ Slot(store').state = "creating"
    BY <2>1, <2>2 DEF Captured
  <2>4. tx'.new = s /\ tx'.bind = tx.bind /\ s # None
    <3>1. PICK prev : prev = Slot(store)
      OBVIOUS
    <3>2. tx' = [tx EXCEPT !.pc = "creating", !.new = s, !.prev = prev]
      BY <2>3, <3>1
    <3> QED
      BY <1>1, <3>2 DEF Plain, Transaction
  <2>5. /\ \A x \in Sids : x # s => rec'[x] = rec[x]
        /\ \A x \in Incarnations(rec') : x = s \/ x \in Incarnations(rec)
    BY <2>3 DEF Base, Typed, RuntimeTyped, Incarnations
  <2>6. \A x \in Incarnations(rec) : rec[x].bind # tx.bind
    BY <1>1 DEF Apart
  <2>7. \A x, y \in Incarnations(rec') : rec'[x].bind = rec'[y].bind => x = y
    BY <2>3, <2>5, <2>6, IncarnationIs DEF Apart
  <2>8. end # None /\ end.pc = "reclaiming" => runtime'[end.sid] = "stopped"
    BY <2>3 DEF Apart, Plain
  <2> QED
    BY <1>1, <2>3, <2>4, <2>7, <2>8 DEF Apart
<1> QED
  BY <1>2, <1>3

\* Who looks for a record to reclaim finds one whose incarnation has stopped.
LEMMA EndLooksApart ==
    ASSUME Base, Plain, Account, Calm, Apart, EndLooks PROVE Apart'
<1>1. /\ end # None /\ end.pc = "reconciling" /\ end \in Ending /\ tx = None
      /\ UNCHANGED <<store, runtime, rec, tx>>
  BY DEF EndLooks, Plain, Account, AccountEnd, world
<1>2. CASE end' = None \/ EndAt("rows")
  <2>1. EndAt("rows") => end'.pc = "rows"
    BY <1>1 DEF EndAt, Ending
  <2>2. Same
    BY <1>1, <1>2, <2>1 DEF Same
  <2> QED
    BY <2>2, ApartSame
<1>3. CASE /\ Primary # None /\ Primary.state # "active"
           /\ end' = [end EXCEPT !.pc = "reclaiming", !.sid = Primary.sid]
  <2>1. PICK s : s = Slot(store).sid
    OBVIOUS
  <2>2. end' = [end EXCEPT !.pc = "reclaiming", !.sid = s]
    BY <1>3, <2>1 DEF Primary, Slot
  <2>3. end'.sid = s
    BY <1>1, <2>2 DEF Ending
  <2>4. runtime[s] = "stopped"
    BY <1>1, <1>3, <2>1 DEF Apart, Calm, Settling, Creating, Primary, Slot
  <2> QED
    BY <1>1, <2>3, <2>4 DEF Apart
<1> QED
  BY <1>2, <1>3 DEF EndLooks

LEMMA ReclaimsApart ==
    ASSUME Base, Plain, Gated, Account, Calm, Apart, EndReclaims \/ EndReclaimsRecord
    PROVE  Apart'
<1>1. /\ end # None /\ end.pc \in {"settling", "reclaiming"} /\ end' = None
      /\ end.pc = "settling" => ~end.pending
      /\ Reclaim(rec[end.sid].bind) /\ UNCHANGED <<runtime, rec, tx>>
  BY DEF EndReclaims, EndReclaimsRecord
<1>2. ASSUME Slot(store) # None PROVE runtime[Slot(store).sid] = "stopped"
  <2>1. CASE end.pc = "settling"
    BY <1>1, <1>2, <2>1 DEF Account, AccountEnd, Cur, Gated, GatedEnd
  <2>2. CASE end.pc = "reclaiming"
    BY <1>1, <1>2, <2>2 DEF Account, AccountEnd, Calm, Settling, Creating, Apart
  <2> QED
    BY <1>1, <2>1, <2>2
<1>3. Slot(store') = None \/ (Slot(store) # None /\ Slot(store').sid = Slot(store).sid)
      \/ Slot(store') = Slot(store)
  BY <1>1, ReclaimIs DEF Base
<1> QED
  BY <1>1, <1>2, <1>3 DEF Apart

LEMMA EndApart ==
    ASSUME Base, Plain, Apart, \/ EndLive \/ EndStale \/ EndUnconfirmed \/ EndRefuses \/ EndConfirmed
                               \/ EndCleans \/ EndReports \/ EndReapsRow
    PROVE  Apart'
<1>1. UNCHANGED <<rec, tx>>
  BY DEF EndLive, EndStale, EndUnconfirmed, EndRefuses, EndConfirmed, EndCleans, EndReports,
     EndReapsRow, world
<1>2. runtime' = runtime \/ runtime' = [runtime EXCEPT ![end.sid] = "stopped"]
  BY DEF EndLive, EndStale, EndUnconfirmed, EndRefuses, EndConfirmed, EndCleans, EndReports,
     EndReapsRow, world
<1>3. Slot(store') = Slot(store)
  BY RowsAside DEF Aside, EndLive, EndStale, EndRefuses, EndConfirmed, EndReports
<1>4. ASSUME end' # None, end'.pc = "reclaiming"
      PROVE  end # None /\ end.pc = "reclaiming" /\ end'.sid = end.sid
  <2>1. ASSUME NEW p \in {"joining", "settling", "cleaning"}, end # None, EndAt(p)
        PROVE  end'.pc = p
    BY <2>1, EndAtBase DEF EndPhases
  <2>2. ~(EndUnconfirmed \/ EndConfirmed \/ EndCleans)
    BY <1>4, <2>1 DEF EndUnconfirmed, EndConfirmed, EndCleans
  <2> QED
    BY <1>4, <2>2 DEF EndLive, EndStale, EndRefuses, EndReports, EndReapsRow
<1>5. Same
  BY <1>1, <1>2, <1>3, <1>4 DEF Same, Plain
<1> QED
  BY <1>5, ApartSame

LEMMA ApartStep ==
    ASSUME ~WritesFail, "revisit" \notin Events
    PROVE  Base /\ Gated /\ Account /\ Calm /\ Apart /\ [Next]_vars => Apart'
<1> SUFFICES ASSUME Base, Plain, Gated, Account, Calm, Apart, [Next]_vars PROVE Apart'
  BY BasePlain
<1>1. CASE RebindStep
  BY <1>1, RebindApart, CaptureApart
<1>2. CASE EndLive \/ EndStale \/ EndStep
  BY <1>2, EndApart, EndLooksApart, ReclaimsApart DEF EndStep
<1>3. ASSUME NEW b \in Binds, Begin(b) PROVE Apart'
  <2>1. /\ tx' = [pc |-> "checking", old |-> live, new |-> None, prev |-> None,
                  bind |-> b, created |-> FALSE, lost |-> "no"]
        /\ UNCHANGED <<store, runtime, rec, end>>
    BY <1>3 DEF Begin, world
  <2>2. \A s \in Incarnations(rec) : rec[s].bind # b
    BY <1>3, RebindAssumption DEF Begin, HadBefore, Incarnations
  <2> QED
    BY <2>1, <2>2 DEF Apart
<1>4. ASSUME NEW s \in Sids, Teardown(s) PROVE Apart'
  <2>1. CASE CleanupFallback(s)
    BY <2>1 DEF CleanupFallback, Calm, Sure
  <2>2. CASE StaysUnconfirmed(s) \/ CleanupKept(s) \/ CleanupDone(s)
    <3>1. Slot(store') = Slot(store)
      BY <2>2, RowsAside DEF Aside
    <3>2. UNCHANGED <<runtime, rec, tx, end>>
      BY <2>2 DEF StaysUnconfirmed, CleanupKept, CleanupDone, world, procs
    <3>3. Same
      BY <3>1, <3>2 DEF Same
    <3> QED
      BY <3>3, ApartSame
  <2>3. CASE Retry(s) \/ Confirmed(s)
    <3>1. Same
      BY <2>3 DEF Same, Retry, Confirmed, world, procs, Plain
    <3> QED
      BY <3>1, ApartSame
  <2> QED
    BY <1>4, <2>1, <2>2, <2>3 DEF Teardown
<1>5. CASE \/ Stop \/ StopStep \/ UNCHANGED vars
           \/ \E p \in {"end", "stop"} : SettleNext(p) \/ SettleJoined(p)
  <2>1. Same
    BY <1>5 DEF Same, Stop, StopStep, TearDown, TornDown, Down, SettleNext, SettleJoined, vars,
       world, procs, Plain
  <2> QED
    BY <2>1, ApartSame
<1> QED
  BY <1>1, <1>2, <1>3, <1>4, <1>5 DEF Next

LEMMA ApartInit == Init => Apart
<1> SUFFICES ASSUME Init PROVE Apart
  OBVIOUS
<1>1. /\ tx = None /\ end = None /\ live # None /\ pendingOld = {}
      /\ \A s \in Incarnations(rec) : s = live
  BY RebindAssumption DEF Init, Incarnations
<1>2. Active(live)
  BY <1>1, AccountInit DEF Account, AccountLive
<1> QED
  BY <1>1, <1>2 DEF Apart, Active

\* Only the worktree of an incarnation that stopped is removed, or one that was
\* made for an incarnation that never was.
LEMMA OnlyStopped ==
    ASSUME Base, Plain, Gated, Account, Calm, Apart, [Next]_vars,
           NEW s \in Sids, runtime[s] \in {"starting", "maybe"}, rec[s].bind \in trees
    PROVE  rec[s].bind \in trees'
<1>0. s \in Incarnations(rec)
  BY DEF Base, Typed, RuntimeTyped
<1>1. ASSUME NEW x \in Incarnations(rec), runtime[x] = "stopped" PROVE rec[x].bind # rec[s].bind
  BY <1>0, <1>1 DEF Apart
<1>2. ASSUME NEW b, NEW gone, RemoveTree(b, gone), b # rec[s].bind PROVE rec[s].bind \in trees'
  BY <1>2 DEF RemoveTree
<1>3. ASSUME trees \subseteq trees' PROVE rec[s].bind \in trees'
  BY <1>3
<1>4. CASE OpenTree \/ CaptureAndReserve
  BY <1>3, <1>4 DEF OpenTree, CaptureAndReserve
<1>5. CASE Undo
  <2>1. CASE tx.created
    <3>1. PICK gone \in BOOLEAN : RemoveTree(tx.bind, gone)
      BY <1>5, <2>1 DEF Undo
    <3>2. tx.bind # rec[s].bind
      <4>1. CASE tx.new = None
        BY <1>0, <1>5, <4>1 DEF Undo, Apart
      <4>2. CASE tx.new # None
        <5>1. runtime[tx.new] = "stopped" /\ rec[tx.new].bind = tx.bind
          BY <1>5, <4>2 DEF Undo, Apart, Gated, GatedTx
        <5>2. tx.new \in Incarnations(rec)
          BY <1>5, <4>2, TxIs DEF Base, Undo
        <5> QED
          BY <1>1, <5>1, <5>2
      <4> QED
        BY <4>1, <4>2
    <3> QED
      BY <1>2, <3>1, <3>2
  <2>2. CASE ~tx.created
    BY <1>5, <2>2 DEF Undo
  <2> QED
    BY <2>1, <2>2
<1>6. ASSUME NEW x \in Sids, CleanupKept(x) PROVE rec[s].bind \in trees'
  BY <1>6 DEF CleanupKept, RemoveTree
<1>7. ASSUME NEW x \in Sids, CleanupDone(x) PROVE rec[s].bind \in trees'
  <2>1. x \in Incarnations(rec) /\ runtime[x] = "stopped"
    BY <1>7 DEF CleanupDone, Base, Typed, DetachedTyped, Gated, GatedRuntimes
  <2> QED
    BY <1>1, <1>2, <1>7, <2>1 DEF CleanupDone
<1>8. ASSUME NEW x \in Sids, CleanupFallback(x) PROVE rec[s].bind \in trees'
  BY <1>8 DEF CleanupFallback, Calm, Sure
<1>9. CASE EndCleans \/ EndReclaims \/ EndReclaimsRecord
  <2>1. end # None /\ end.pc \in {"cleaning", "settling", "reclaiming"}
    BY <1>9 DEF EndCleans, EndReclaims, EndReclaimsRecord
  <2>2. end.sid \in Incarnations(rec)
    BY <2>1, EndIs DEF Base, Typed, EndTyped
  <2>3. runtime[end.sid] = "stopped"
    BY <2>1 DEF Gated, GatedEnd, Apart
  <2>4. PICK gone \in BOOLEAN : RemoveTree(rec[end.sid].bind, gone)
    BY <1>9 DEF EndCleans, EndReclaims, EndReclaimsRecord, Reclaim
  <2> QED
    BY <1>1, <1>2, <2>2, <2>3, <2>4
<1>10. CASE EndReapsRow
  <2>1. end # None /\ end.pc = "rows"
    BY <1>10 DEF EndReapsRow
  <2>2. s \in tracked
    BY <2>1 DEF Account, AccountEnd, Gated, GatedRuntimes
  <2> QED
    BY <1>10, <2>2 DEF EndReapsRow
<1>11. CASE UNCHANGED trees
  BY <1>11
<1> QED
  BY <1>4, <1>5, <1>6, <1>7, <1>8, <1>9, <1>10, <1>11
     DEF Next, Begin, EndLive, EndStale, Stop, RebindStep, Checked, CaptureFails, Unreserved,
         CreateFails, CreatedTooLate, Swap, CommitFails, Retired, UncommittedCloses,
         UncommittedStays, AbandonTracked, AbandonJoined, AbandonStopped, AbandonUnconfirmed,
         EndStep, EndUnconfirmed, EndRefuses, EndConfirmed, EndReports, EndLooks,
         StopStep, TearDown, TornDown, Down, Teardown, Retry, StaysUnconfirmed, Confirmed,
         SettleNext, SettleJoined, vars, world

\* No step of a rebind, of its rollback, of `/end`, of the retries or of the
\* shutdown deletes a worktree a runtime may still be working in.  As long as the
\* store can be written, no rebind goes back to a binding the thread had before,
\* and `/end` is not typed again before a rebind has let go of the thread.
THEOREM WorktreesStay ==
    ASSUME ~WritesFail, "reend" \notin Events, "revisit" \notin Events
    PROVE  Spec => TreeNotPulled
<1> DEFINE Inv == Base /\ Gated /\ Account /\ Calm /\ Apart
<1>1. Init => Inv
  BY BaseInit, GatedInit, AccountInit, CalmInit, ApartInit
<1>2. Inv /\ [Next]_vars => Inv'
  BY BaseStep, GatedStep, AccountStep, CalmStep, ApartStep
<1>3. Inv /\ [Next]_vars =>
        [\A s \in Sids : runtime[s] \in {"starting", "maybe"} /\ rec[s].bind \in trees
            => rec[s].bind \in trees']_vars
  BY BasePlain, OnlyStopped
<1> QED
  BY <1>1, <1>2, <1>3, PTL DEF Spec, TreeNotPulled

-----------------------------------------------------------------------------
(* The types of the whole state, the store's rows among them.               *)

\* The rows are rows, and a thread has one for an incarnation.
Filed(s) ==
    /\ s.stale \subseteq StaleRow
    /\ \A x, y \in s.stale : x.thread = y.thread /\ IdOf(x) = IdOf(y) => x = y

LEMMA FiledWithin ==
    ASSUME NEW s, Filed(s), NEW n, n.stale \subseteq s.stale
    PROVE  Filed(n)
  BY DEF Filed

\* A row written again keeps the larger of two totals: the one there was, and the
\* record's.
LEMMA RetainFiled ==
    ASSUME NEW s, StoreShape(s), Filed(s), NEW r \in Record, NEW ok
    PROVE  Filed(Written(s, Companion(s, r), ok))
<1> DEFINE prior == {row.bytes : row \in {x \in RowsOf(s, Thread) : IdOf(x) = IdOf(r)}}
           totals == prior \cup {r.bytes}
           row == [thread |-> Thread, sid |-> r.sid, gen |-> r.gen,
                   bytes |-> Max(totals), bind |-> r.bind]
           m == WithoutStale(s, Thread, {IdOf(r)})
           n == RetainStale(s, Thread, r)
<1>1. totals \subseteq Nat /\ r.bytes \in totals /\ r.bytes \in Nat
  <2>1. \A x \in s.stale : x.bytes \in Nat
    BY DEF Filed, StaleRow
  <2>2. r.bytes \in Nat
    BY RecordIs
  <2> QED
    BY <2>1, <2>2 DEF RowsOf
<1>2. \A x, y \in totals : x # r.bytes /\ y # r.bytes => x = y
  BY DEF Filed, RowsOf
<1> HIDE DEF totals
<1>3. \E x \in totals : \A y \in totals : x >= y
  <2>1. CASE \E x \in totals : x > r.bytes
    BY <1>1, <1>2, <2>1
  <2>2. CASE ~ \E x \in totals : x > r.bytes
    <3>1. ASSUME NEW y \in totals PROVE r.bytes >= y
      <4>1. y \in Nat /\ ~(y > r.bytes)
        BY <1>1, <2>2
      <4> QED
        BY <1>1, <4>1
    <3> QED
      BY <1>1, <3>1
  <2> QED
    BY <2>1, <2>2
<1>4. Max(totals) \in Nat
  BY <1>1, <1>3 DEF Max
<1>5. row \in StaleRow /\ row.thread = Thread /\ IdOf(row) = IdOf(r)
  BY <1>4, RecordIs, SlotIs DEF StaleRow, IdOf
<1>6. /\ StoreShape(m)
      /\ m.stale = {x \in s.stale : x.thread # Thread \/ IdOf(x) \notin {IdOf(r)}}
  BY WithoutStaleIs
<1>7. n = [m EXCEPT !.stale = @ \cup {row}, !.high = Larger(s.high, r.gen)]
  BY DEF RetainStale, RemoveStale, totals
<1> HIDE DEF row, m, n
<1>8. n.stale = m.stale \cup {row}
  BY <1>6, <1>7 DEF StoreShape
<1>9. Filed(n)
  BY <1>5, <1>6, <1>8 DEF Filed
<1> QED
  BY <1>9 DEF n, Written, Companion

\* Everything else a handler writes leaves the rows, or leaves some out.
LEMMA RollBackKeeps ==
    ASSUME Typed, tx # None, tx.prev # None, NEW before, StoreShape(before),
           NEW back, NEW dropped, RollBack(before, back, dropped)
    PROVE  store'.stale \subseteq before.stale
<1>1. tx.prev \in Record
  BY TxIs, CopyIs
<1> DEFINE r == Restore(before, Thread, tx.prev)
<1>2. CASE IsCurrent(before, Thread, IdOf(rec[tx.new])) /\ back
  <2>1. Slot(before) # None
    BY <1>2 DEF IsCurrent, Slot
  <2>2. StoreShape(r) /\ r.stale = before.stale
    BY <1>1, <2>1, RestoreIs
  <2>3. store' \in {r, RemoveStale(r, Thread, IdOf(tx.prev))}
    BY <1>2 DEF RollBack, Written
  <2> HIDE DEF r
  <2> QED
    BY <2>2, <2>3, WithoutStaleIs DEF RemoveStale
<1>3. CASE ~(IsCurrent(before, Thread, IdOf(rec[tx.new])) /\ back)
  BY <1>3 DEF RollBack, Written
<1> QED
  BY <1>2, <1>3

LEMMA SettleSlotKeeps ==
    ASSUME Typed, tx # None, NEW before, StoreShape(before),
           NEW back, NEW dropped, SettleSlot(before, back, dropped)
    PROVE  store'.stale \subseteq before.stale
<1>1. tx.new # None => tx.prev # None
  BY DEF Typed, TxTyped
<1>2. CASE tx.new = None
  BY <1>2 DEF SettleSlot
<1>3. CASE tx.new # None /\ GivenUp
  BY <1>3, RemoveIs DEF SettleSlot, Written
<1>4. CASE tx.new # None /\ ~GivenUp
  BY <1>1, <1>4, RollBackKeeps DEF SettleSlot
<1> QED
  BY <1>2, <1>3, <1>4

LEMMA DropKeeps ==
    ASSUME NEW s, StoreShape(s), NEW id, NEW ok
    PROVE  Written(s, RemoveStale(s, Thread, id), ok).stale \subseteq s.stale
  BY WithoutStaleIs DEF Written, RemoveStale

LEMMA ReclaimKeeps ==
    ASSUME StoreShape(store), NEW b, Reclaim(b)
    PROVE  store'.stale \subseteq store.stale
<1>1. "blocked" \in States /\ Primary = Slot(store)
  BY DEF States, Primary, Slot
<1>2. Slot(store) # None => SetState(store, Thread, "blocked").stale = store.stale
  BY <1>1, SetStateIs
<1>3. Remove(store, Thread).stale = store.stale
  BY RemoveIs
<1> QED
  BY <1>1, <1>2, <1>3 DEF Reclaim, Written

LEMMA CleanupFallbackKeeps ==
    ASSUME Typed, NEW s \in Sids, CleanupFallback(s)
    PROVE  store'.stale \subseteq store.stale
<1> DEFINE restores == fallback[s] # Removal /\ OwnsSession(fallback[s].sid)
           plan == IF restores THEN fallback[s] ELSE Removal
           ids == {IdOf(rec[s])} \cup (IF restores THEN {IdOf(plan)} ELSE {})
           original == IF restores THEN plan ELSE None
<1>1. StoreShape(store) /\ original \in Record \cup {None}
  BY CopyIs DEF Typed, Good, DetachedTyped, CleanupFallback
<1>2. PICK ok \in Outcomes :
        store' = Written(store, ReconcileFallback(store, Thread, original, ids),
                         ok /\ MayReconcileFallback(store, Thread, IdOf(rec[s])))
  BY ZenonT(60) DEF CleanupFallback
<1> HIDE DEF original, ids
<1>3. CASE ok /\ MayReconcileFallback(store, Thread, IdOf(rec[s]))
  <2>1. Slot(store) # None
    BY <1>3 DEF MayReconcileFallback, IsCurrent, Slot
  <2>2. store' = ReconcileFallback(store, Thread, original, ids)
    BY <1>2, <1>3 DEF Written
  <2> QED
    BY <1>1, <2>1, <2>2, ReconcileIs
<1>4. CASE ~(ok /\ MayReconcileFallback(store, Thread, IdOf(rec[s])))
  BY <1>2, <1>4 DEF Written
<1> QED
  BY <1>3, <1>4

LEMMA CaptureFiled ==
    ASSUME Typed, Filed(store), CaptureAndReserve, Slot(store) # None
    PROVE  Filed(store')
<1> DEFINE prev == Slot(store)
           R(s) == [sid |-> s, gen |-> NextGeneration(store), state |-> "creating",
                    bytes |-> prev.bytes, bind |-> tx.bind]
           K(kept) == Written(store, Companion(store, prev), kept)
<1>1. prev \in Record /\ StoreShape(store) /\ tx # None /\ Primary = prev
  BY SlotIs, Zenon DEF Typed, Good, CaptureAndReserve, Primary, Slot
<1>2. PICK kept \in Outcomes, reserved \in Outcomes, s \in Sids :
        store' = Written(K(kept), Reserve(K(kept), Thread, R(s)), kept /\ reserved)
  BY <1>1, ZenonT(60) DEF CaptureAndReserve
<1>3. StoreShape(K(kept)) /\ Filed(K(kept))
  BY <1>1, RetainFiled, RetainStaleIs DEF Written, Companion
<1>4. R(s) \in Record
  <2>1. store.high \in Nat /\ prev.bytes \in Nat /\ tx.bind \in Binds /\ "creating" \in States
    BY <1>1, RecordIs, TxIs DEF StoreShape, States
  <2>2. NextGeneration(store) \in Nat \ {0}
    BY <2>1 DEF NextGeneration
  <2> QED
    BY <2>1, <2>2 DEF Record
<1> HIDE DEF R, K
<1>5. Reserve(K(kept), Thread, R(s)).stale = K(kept).stale
  BY <1>3, <1>4, ReserveIs
<1> QED
  BY <1>2, <1>3, <1>5, FiledWithin DEF Written

LEMMA SwapFiled ==
    ASSUME Typed, Filed(store), Swap, Slot(store) # None
    PROVE  Filed(store')
<1> DEFINE c == Commit(store, Thread)
<1>1. tx.prev \in Record /\ StoreShape(store) /\ "active" \in States
  BY TxIs, CopyIs DEF Typed, TxTyped, Good, Swap, States
<1>2. StoreShape(c) /\ c.stale = store.stale
  BY <1>1, SetStateIs DEF Commit
<1>3. PICK kept \in Outcomes : store' = Written(c, Companion(c, tx.prev), kept)
  BY DEF Swap
<1> HIDE DEF c
<1> QED
  BY <1>1, <1>2, <1>3, FiledWithin, RetainFiled

\* The handlers that write a row of an incarnation and nothing else, or then let
\* the slot go.
LEMMA KeepFiled ==
    ASSUME Typed, Filed(store), NEW s \in Incarnations(rec), NEW ok
    PROVE  LET n == Written(store, Companion(store, rec[s]), ok) IN StoreShape(n) /\ Filed(n)
<1>1. rec[s] \in Record /\ StoreShape(store)
  BY IncarnationIs, CopyIs DEF Typed, Good
<1>2. StoreShape(Written(store, Companion(store, rec[s]), ok))
  BY <1>1, RetainStaleIs DEF Written, Companion
<1> QED
  BY <1>1, <1>2, RetainFiled

LEMMA TransactionFiled ==
    ASSUME Base, Filed(store), RebindStep
    PROVE  Filed(store')
<1>1. Typed /\ StoreShape(store) /\ tx # None /\ Filed(store)
  BY DEF Base, Typed, Good, RebindStep, Checked, OpenTree, CaptureFails, CaptureAndReserve, Unreserved,
     CreateFails, CreatedTooLate, Swap, CommitFails, Retired, UncommittedCloses, UncommittedStays,
     AbandonTracked, AbandonJoined, AbandonStopped, AbandonUnconfirmed, Undo
<1>2. CASE store' = store
  BY <1>1, <1>2
<1>3. CASE CaptureAndReserve
  <2>1. Slot(store) = None => store' = store
    BY <1>3 DEF CaptureAndReserve, Primary, Slot
  <2> QED
    BY <1>1, <1>3, <2>1, CaptureFiled
<1>4. CASE Unreserved
  <2>1. store' = store \/ \E ok : store' = Written(store, RemoveStale(store, Thread, IdOf(tx.prev)), ok)
    BY <1>4 DEF Unreserved
  <2> QED
    BY <1>1, <2>1, DropKeeps, FiledWithin
<1>5. CASE CreateFails \/ UncommittedCloses
  <2>1. tx.prev # None
    BY <1>1, <1>5 DEF Typed, TxTyped, CreateFails, UncommittedCloses
  <2>2. store' = store \/ \E back, dropped \in Outcomes : RollBack(store, back, dropped)
    BY <1>5 DEF CreateFails, UncommittedCloses
  <2> QED
    BY <1>1, <2>1, <2>2, RollBackKeeps, FiledWithin
<1>6. CASE Swap
  <2>1. Slot(store) # None
    BY <1>6 DEF Base, Sited, Swap
  <2> QED
    BY <1>1, <1>6, <2>1, SwapFiled
<1>7. CASE UncommittedStays
  <2>1. tx.new \in Incarnations(rec) /\ tx.prev # None
    BY <1>1, <1>7, TxIs DEF Typed, TxTyped, UncommittedStays
  <2>2. PICK durable \in Outcomes, back \in Outcomes, dropped \in Outcomes :
          LET n == Written(store, Companion(store, rec[tx.new]), durable)
          IN RollBack(n, back, dropped) \/ store' = n
    BY <1>7 DEF UncommittedStays
  <2> DEFINE n == Written(store, Companion(store, rec[tx.new]), durable)
  <2>3. StoreShape(n) /\ Filed(n)
    BY <1>1, <2>1, KeepFiled
  <2> HIDE DEF n
  <2>4. RollBack(n, back, dropped) \/ store' = n
    BY <2>2 DEF n
  <2> QED
    BY <1>1, <2>1, <2>3, <2>4, RollBackKeeps, FiledWithin
<1>8. CASE AbandonStopped
  <2>1. PICK back \in Outcomes, dropped \in Outcomes : SettleSlot(store, back, dropped)
    BY <1>8 DEF AbandonStopped
  <2> QED
    BY <1>1, <2>1, SettleSlotKeeps, FiledWithin
<1>9. CASE AbandonUnconfirmed
  <2>1. tx.new \in Incarnations(rec)
    BY <1>1, <1>9, TxIs DEF AbandonUnconfirmed, HasReplacement
  <2>2. PICK durable \in Outcomes, back \in Outcomes, dropped \in Outcomes :
          LET n == Written(store, Companion(store, rec[tx.new]), durable)
          IN SettleSlot(n, back, dropped) \/ store' = store
    BY <1>9 DEF AbandonUnconfirmed
  <2> DEFINE n == Written(store, Companion(store, rec[tx.new]), durable)
  <2>3. StoreShape(n) /\ Filed(n)
    BY <1>1, <2>1, KeepFiled
  <2> HIDE DEF n
  <2>4. SettleSlot(n, back, dropped) \/ store' = store
    BY <2>2 DEF n
  <2> QED
    BY <1>1, <2>3, <2>4, SettleSlotKeeps, FiledWithin
<1> QED
  BY <1>2, <1>3, <1>4, <1>5, <1>6, <1>7, <1>8, <1>9
     DEF RebindStep, Checked, OpenTree, CaptureFails, CreatedTooLate, CommitFails, Retired,
         AbandonTracked, AbandonJoined, Undo

LEMMA FiledStep ==
    ASSUME Base, Filed(store), [Next]_vars
    PROVE  Filed(store')
<1>1. Typed /\ StoreShape(store)
  BY DEF Base, Typed, Good
<1>2. CASE store' = store
  BY <1>2
<1>3. CASE RebindStep
  BY <1>3, TransactionFiled
<1>4. ASSUME NEW s \in Sids, StaysUnconfirmed(s) \/ CleanupKept(s) PROVE Filed(store')
  <2>1. s \in Incarnations(rec)
    BY <1>1, <1>4 DEF Typed, DetachedTyped, StaysUnconfirmed, CleanupKept
  <2>2. \E ok : store' = Written(store, Companion(store, rec[s]), ok)
    BY <1>4 DEF StaysUnconfirmed, CleanupKept
  <2> QED
    BY <1>1, <2>1, <2>2, KeepFiled
<1>5. ASSUME NEW s \in Sids, CleanupDone(s) PROVE Filed(store')
  <2>1. \E ok : store' = Written(store, RemoveStale(store, Thread, IdOf(rec[s])), ok)
    BY <1>5 DEF CleanupDone
  <2> QED
    BY <1>1, <2>1, DropKeeps, FiledWithin
<1>6. ASSUME NEW s \in Sids, CleanupFallback(s) PROVE Filed(store')
  BY <1>1, <1>6, CleanupFallbackKeeps, FiledWithin
<1>7. CASE EndUnconfirmed \/ EndCleans
  <2>1. end.sid \in Incarnations(rec)
    BY <1>1, <1>7, EndIs DEF Typed, EndTyped, EndUnconfirmed, EndCleans
  <2>2. \/ store' = store
        \/ \E ok : store' = Written(store, Companion(store, rec[end.sid]), ok)
        \/ \E ok : store' = Written(store, RemoveStale(store, Thread, IdOf(rec[end.sid])), ok)
    BY <1>7 DEF EndUnconfirmed, EndCleans
  <2> QED
    BY <1>1, <2>1, <2>2, KeepFiled, DropKeeps, FiledWithin
<1>8. CASE EndReclaims \/ EndReclaimsRecord
  <2>1. \E b : Reclaim(b)
    BY <1>8 DEF EndReclaims, EndReclaimsRecord
  <2> QED
    BY <1>1, <2>1, ReclaimKeeps, FiledWithin
<1>9. CASE EndReapsRow
  <2>1. store' = store \/ \E id, ok : store' = Written(store, RemoveStale(store, Thread, id), ok)
    BY <1>9 DEF EndReapsRow
  <2> QED
    BY <1>1, <2>1, DropKeeps, FiledWithin
<1> QED
  BY <1>2, <1>3, <1>4, <1>5, <1>6, <1>7, <1>8, <1>9
     DEF Next, Begin, EndLive, EndStale, Stop, EndStep, EndRefuses, EndConfirmed, EndReports, EndLooks,
         StopStep, TearDown, TornDown, Down, Teardown, Retry, Confirmed, SettleNext, SettleJoined, vars

\* Every variable keeps its type.  Of the store that says more than it seems to:
\* a row written again has the larger of two byte totals, and that there are only
\* two is because a thread never has two rows of one incarnation.
THEOREM TypeCorrect == Spec => []TypeOK
<1>1. Init => Base /\ Filed(store)
  <2> SUFFICES ASSUME Init PROVE Filed(store)
    BY BaseInit
  <2>1. store.stale = {}
    BY DEF Init, WithPrimary, EmptyStore
  <2> QED
    BY <2>1 DEF Filed
<1>2. Base /\ Filed(store) /\ [Next]_vars => (Base /\ Filed(store))'
  BY BaseStep, FiledStep DEF Filed
<1>3. Base /\ Filed(store) => TypeOK
  <2> SUFFICES ASSUME Base, Filed(store) PROVE TypeOK
    OBVIOUS
  <2>1. store \in StoreValue
    BY DEF Base, Typed, Good, StoreShape, StoreValue, Filed
  <2>2. Incarnations(rec) \subseteq Sids /\ Copies(rec) \subseteq Record
    BY DEF Incarnations, Copies
  <2>3. sweep \in [{"end", "stop"} -> Joins]
    BY <2>2 DEF Base, Typed, DetachedTyped, Sweeps, Joins
  <2>4. tx \in Transaction \cup {None} /\ end \in Ending \cup {None}
    BY <2>2 DEF Base, Typed, TxTyped, EndTyped, Transactions, Transaction, Endings, Ending
  <2> QED
    BY <2>1, <2>2, <2>3, <2>4 DEF Base, Typed, RuntimeTyped, SessionTyped, DetachedTyped, TypeOK
<1> QED
  BY <1>1, <1>2, <1>3, PTL DEF Spec
=============================================================================
