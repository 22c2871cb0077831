------------------------------ MODULE SessionStore ------------------------------
(***************************************************************************)
(* The durable thread <-> session store of src/core/session-store.ts, as   *)
(* operators on a store value: one primary record per Discord thread, the  *)
(* terminal rows of old rebind incarnations, and the generation high-water *)
(* mark.  Every operation is one synchronous persist-first `mutate`: the   *)
(* new value reaches the file and the memory together, or neither.         *)
(*                                                                         *)
(* A record is reduced to what decides something: the session id and       *)
(* generation that identify an incarnation, its state, the attachment      *)
(* bytes already reserved, and its binding (repo, mode and work dir).      *)
(***************************************************************************)
EXTENDS Integers, FiniteSets, FiniteSetsExt

CONSTANTS
    Threads,    \* Discord thread ids
    Sids,       \* session ids, random and so never repeated
    Binds,      \* bindings: a repository checked out in one mode
    None        \* an absent record

States == {"creating", "active", "orphaned", "blocked"}

Identity == [sid : Sids, gen : Nat \ {0}]

Record == [sid : Sids, gen : Nat \ {0}, state : States, bytes : Nat, bind : Binds]

StaleRow == [thread : Threads, sid : Sids, gen : Nat \ {0}, bytes : Nat, bind : Binds]

StoreValue == [sessions : [Threads -> Record \cup {None}],
               stale : SUBSET StaleRow,
               high : Nat]

EmptyStore == [sessions |-> [t \in Threads |-> None], stale |-> {}, high |-> 0]

IdOf(r) == [sid |-> r.sid, gen |-> r.gen]

Larger(m, n) == IF m >= n THEN m ELSE n

\* The primary record of thread t is the incarnation id and no other.
IsCurrent(s, t, id) ==
    /\ s.sessions[t] # None
    /\ IdOf(s.sessions[t]) = id

RowsOf(s, t) == {row \in s.stale : row.thread = t}

HasStale(s, t, id) == \E row \in RowsOf(s, t) : IdOf(row) = id

NextGeneration(s) == s.high + 1

-----------------------------------------------------------------------------
(* The mutations.  Each is total; its caller has asked what the code asks.  *)

WithPrimary(s, t, r) ==
    [s EXCEPT !.sessions[t] = r, !.high = Larger(s.high, r.gen)]

Reserve(s, t, r) == WithPrimary(s, t, [r EXCEPT !.state = "creating"])

SetState(s, t, state) == [s EXCEPT !.sessions[t].state = state]

Commit(s, t) == SetState(s, t, "active")

Remove(s, t) == [s EXCEPT !.sessions[t] = None]

\* Attachment bytes are taken only from the incarnation and the total the
\* caller believes in.
MayReserveBytes(s, t, id, expected, next) ==
    /\ next > expected
    /\ IsCurrent(s, t, id)
    /\ s.sessions[t].bytes = expected

ReserveBytes(s, t, next) == [s EXCEPT !.sessions[t].bytes = next]

\* The old record comes back, never with fewer bytes than its replacement.
Restored(s, t, r) == [r EXCEPT !.bytes = Larger(r.bytes, s.sessions[t].bytes)]

Restore(s, t, r) == WithPrimary(s, t, Restored(s, t, r))

WithoutStale(s, t, ids) ==
    [s EXCEPT !.stale = {row \in @ : row.thread # t \/ IdOf(row) \notin ids}]

RemoveStale(s, t, id) == WithoutStale(s, t, {id})

\* A terminal row of the old incarnation r, keyed by its identity.
RetainStale(s, t, r) ==
    LET prior == {row.bytes : row \in {x \in RowsOf(s, t) : IdOf(x) = IdOf(r)}}
        row == [thread |-> t, sid |-> r.sid, gen |-> r.gen,
                bytes |-> Max(prior \cup {r.bytes}), bind |-> r.bind]
    IN [RemoveStale(s, t, IdOf(r)) EXCEPT !.stale = @ \cup {row},
                                          !.high = Larger(s.high, r.gen)]

\* Both halves of an abandoned rebind in one write: the target's reservation
\* gives way to the old record, or to nothing, and the rows go with it.
MayReconcileFallback(s, t, target) ==
    /\ IsCurrent(s, t, target)
    /\ s.sessions[t].state = "creating"

ReconcileFallback(s, t, original, ids) ==
    WithoutStale(IF original = None THEN Remove(s, t)
                 ELSE [s EXCEPT !.sessions[t] = Restored(s, t, original)], t, ids)

-----------------------------------------------------------------------------
(* The file.                                                                *)

\* What `mutate` leaves in memory and on disk: all of it or none of it.
Written(before, after, ok) == IF ok THEN after ELSE before

\* (Mutant: the mark is found again from the records that are left.)
LoadedFromRows(f) ==
    LET gens == {f.sessions[t].gen : t \in {x \in Threads : f.sessions[x] # None}}
                \cup {row.gen : row \in f.stale}
    IN [f EXCEPT !.high = Max(gens \cup {0})]

\* What the next process reads back: the mark is never below a record's own.
Loaded(f) ==
    LET gens == {f.sessions[t].gen : t \in {x \in Threads : f.sessions[x] # None}}
                \cup {row.gen : row \in f.stale}
    IN [f EXCEPT !.high = Max(gens \cup {f.high})]
=============================================================================
