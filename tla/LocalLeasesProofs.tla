--------------------------- MODULE LocalLeasesProofs ---------------------------
(***************************************************************************)
(* What LocalLeases promises for any threads and repositories: nobody ever *)
(* works in, or durably claims, a local checkout that is another's.  The   *)
(* lease is the reason: whoever works in a checkout or claims it holds its *)
(* lease, and a lease has one holder.  A rebind that moves the lease away  *)
(* and a failure that has to bring it back make that inductive only next   *)
(* to what a rebind and an `/end` under way may assume of each other.      *)
(***************************************************************************)
EXTENDS LocalLeases, FiniteSetTheorems, TLAPS

-----------------------------------------------------------------------------
(* The invariant.                                                           *)

Active(rec) == rec # None /\ rec.state = "active"

\* A live local session, and in a running process a durable claim, has the lease.
Leased(t) ==
    \A r \in Repos : /\ session[t] = r => lease[r] = t
                     /\ up /\ t \in Claimants(r) => lease[r] = t

\* A live session works where its own active record says.
Matched(t) == Active(record[t]) /\ session[t] # None => record[t].bind = session[t]

\* An `/end` claims its session first, and reclaims when it is gone.
Ending(t) ==
    /\ end[t] \in {"asking", "asking-rebound"} => t \in ended
    /\ end[t] = "reclaiming" => session[t] = None

\* What a rebind has of its thread: it does not go from one repository to
\* another, and once it has reserved its target the record and the lease of that
\* target are its own, no `/end` is about to reclaim them, and what it would roll
\* back to is the record of the session it found.
Reserved(t) ==
    LET x == tx[t] IN
    /\ IsLocal(x.target) => ~IsLocal(session[t])
    /\ x.stage = "opening" => ~x.held
    /\ x.stage # "opening" =>
        /\ x.held <=> IsLocal(x.target)
        /\ record[t] = [bind |-> x.target, state |-> "creating"]
        /\ end[t] \notin {"asking", "reclaiming"}
        /\ IsLocal(x.target) => lease[x.target] = t
        /\ Active(x.prev) /\ session[t] # None => x.prev.bind = session[t]

Own(t) == Leased(t) /\ Matched(t) /\ Ending(t) /\ (tx[t] # None => Reserved(t))

\* Two records never claim one repository, not even when no process runs.
Apart == \A r \in Repos : \A t, u \in Claimants(r) : t = u

\* Nothing is under way before startup has considered every record.
Quiet(t) == tx[t] = None /\ end[t] = None

Starting ==
    /\ ~up => todo = {} /\ \A t \in Threads : Quiet(t) /\ session[t] = None
    /\ todo # {} => \A t \in Threads : Quiet(t)
    /\ \A t \in todo : session[t] = None /\ record[t] \in Record

Inv == TypeOK /\ Apart /\ Starting /\ \A t \in Threads : Own(t)

-----------------------------------------------------------------------------
(* The map of the leases.                                                   *)

Leases == [Repos -> Threads \cup {None}]

\* releaseLocalLease and acquireLocalLease change entries of their own thread
\* and free ones only: what another holds it still holds afterwards.
LEMMA LeaseMaps ==
    ASSUME NEW l \in Leases, NEW t \in Threads
    PROVE  /\ Released(l, t) \in Leases
           /\ \A r \in Repos : Released(l, t)[r] = IF l[r] = t THEN None ELSE l[r]
           /\ \A r \in Repos :
                /\ Acquired(l, r, t) \in Leases /\ ReleasedHeldBy(l, r, t) \in Leases
                /\ \A s \in Repos : s # r => /\ Acquired(l, r, t)[s] = l[s]
                                             /\ ReleasedHeldBy(l, r, t)[s] = l[s]
                /\ Acquired(l, r, t)[r] = IF Free(l, r, t) THEN t ELSE l[r]
                /\ ReleasedHeldBy(l, r, t)[r] = IF l[r] = t THEN None ELSE l[r]
BY DEF Leases, Released, Acquired, ReleasedHeldBy, Free

\* restoreLeaseFor gives t at most the lease of b, and that one if it is free.
LEMMA RestoreMap ==
    ASSUME NEW l \in Leases, NEW t \in Threads, NEW b \in Binds \cup {None}
    PROVE  /\ RestoredFor(l, b, t) \in Leases
           /\ \A r \in Repos, u \in Threads \ {t} : l[r] = u => RestoredFor(l, b, t)[r] = u
           /\ IsLocal(b) /\ Free(l, b, t) => RestoredFor(l, b, t)[b] = t
<1>1. Released(l, t) \in Leases /\ \A r \in Repos :
          Released(l, t)[r] = IF l[r] = t THEN None ELSE l[r]
    BY LeaseMaps
<1>2. CASE IsLocal(b)
    <2>1. b \in Repos BY <1>2 DEF IsLocal
    <2>2. /\ Acquired(Released(l, t), b, t) \in Leases
          /\ \A s \in Repos : s # b => Acquired(Released(l, t), b, t)[s] = Released(l, t)[s]
          /\ Acquired(Released(l, t), b, t)[b]
                = IF Free(Released(l, t), b, t) THEN t ELSE Released(l, t)[b]
        BY <1>1, <2>1, LeaseMaps
    <2>3. RestoredFor(l, b, t) = Acquired(Released(l, t), b, t) BY <1>2 DEF RestoredFor
    <2>4. None \notin Threads BY LocalLeasesAssumption
    <2> QED BY <1>1, <2>1, <2>2, <2>3, <2>4 DEF Free, Leases
<1>3. CASE ~IsLocal(b)
    <2>1. RestoredFor(l, b, t) = Released(l, t) BY <1>3 DEF RestoredFor
    <2> QED BY <1>1, <1>3, <2>1 DEF Leases
<1> QED BY <1>2, <1>3

-----------------------------------------------------------------------------
(* One thread's step.                                                       *)

\* What a step of t leaves the other threads.
Frame(t) ==
    \A u \in Threads \ {t} :
        /\ record'[u] = record[u] /\ session'[u] = session[u]
        /\ tx'[u] = tx[u] /\ end'[u] = end[u] /\ (u \in ended <=> u \in ended')
        /\ \A r \in Repos : lease[r] = u => lease'[r] = u

\* Whoever finds its own state in order after its step leaves all in order.
LEMMA StepOfOne ==
    ASSUME Inv, up, up', NEW t \in Threads, TypeOK', Starting', Frame(t), Own(t)'
    PROVE  Inv'
<1>1. ASSUME NEW u \in Threads \ {t} PROVE Own(u)'
    <2> USE DEF Frame
    <2>0. /\ record'[u] = record[u] /\ session'[u] = session[u]
          /\ tx'[u] = tx[u] /\ end'[u] = end[u] /\ (u \in ended <=> u \in ended')
          /\ \A r \in Repos : lease[r] = u => lease'[r] = u
          /\ Own(u)
        BY <1>1 DEF Inv
    <2>1. Leased(u)' BY <2>0 DEF Own, Leased, Claimants
    <2>2. Matched(u)' BY <2>0 DEF Own, Matched, Active
    <2>3. Ending(u)' BY <2>0 DEF Own, Ending
    <2>4. tx'[u] # None => Reserved(u)' BY <2>0 DEF Own, Reserved, IsLocal, Active
    <2> QED BY <2>1, <2>2, <2>3, <2>4 DEF Own
<1>2. \A u \in Threads : Own(u)' BY <1>1
<1>3. Apart' BY <1>2 DEF Own, Leased, Apart, Claimants
<1> QED BY <1>2, <1>3 DEF Inv

\* A rebind or an `/end` runs in a process that has considered every record.
LEMMA Busy ==
    ASSUME Inv, NEW t \in Threads, ~Quiet(t)
    PROVE  up /\ todo = {}
BY DEF Inv, Starting, Quiet

\* Boot: every repository has one winner, and the losers are blocked.
LEMMA BootKeeps == ASSUME Inv, Boot PROVE Inv'
<1>1. PICK winner \in [Repos -> Threads \cup {None}] :
          /\ \A r \in Repos : IF Claimants(r) = {} THEN winner[r] = None
                              ELSE winner[r] \in Claimants(r)
          /\ lease' = winner
          /\ record' = [t \in Threads |->
                 IF \E r \in Repos : t \in Claimants(r) /\ winner[r] # t
                 THEN [record[t] EXCEPT !.state = "blocked"] ELSE record[t]]
    BY DEF Boot
<1>2. /\ ~up /\ up' = TRUE /\ todo' = {t \in Threads : record[t] # None}
      /\ UNCHANGED <<session, ended, tx, end, rebinds, crashes>>
    BY DEF Boot
<1>3. /\ TypeOK /\ \A t \in Threads : Quiet(t) /\ session[t] = None
    BY <1>2 DEF Inv, Starting
<1>4. \A t \in Threads : record'[t] # record[t] =>
          record[t] \in Record /\ record'[t] = [record[t] EXCEPT !.state = "blocked"]
    BY <1>1, <1>3 DEF TypeOK, Claimants
<1>5. \A t \in Threads : record[t] \in Record \cup {None} BY <1>3 DEF TypeOK
<1>6. \A t \in Threads : record[t] \in Record => record'[t] \in Record
    BY <1>4 DEF Record
<1>7. TypeOK'
    <2>1. record' \in [Threads -> Record \cup {None}] BY <1>1, <1>4, <1>5, <1>6
    <2>2. todo' \subseteq Threads BY <1>2
    <2> QED BY <1>1, <1>2, <1>3, <2>1, <2>2 DEF TypeOK
<1>8. Starting' BY <1>2, <1>3, <1>5, <1>6 DEF Starting, Quiet
<1>9. ASSUME NEW r \in Repos, NEW t \in Threads, t \in Claimants(r)'
      PROVE  t \in Claimants(r) /\ lease'[r] = t
    <2>1. record'[t] # None /\ record'[t].bind = r /\ record'[t].state = "active"
        BY <1>9 DEF Claimants
    <2>2. record'[t] = record[t] BY <1>4, <2>1 DEF Record
    <2>3. t \in Claimants(r) BY <2>1, <2>2 DEF Claimants
    <2>4. winner[r] = t
        <3>1. ~ \E s \in Repos : t \in Claimants(s) /\ winner[s] # t
            <4> SUFFICES ASSUME NEW s \in Repos, t \in Claimants(s), winner[s] # t PROVE FALSE
                OBVIOUS
            <4>1. record'[t] = [record[t] EXCEPT !.state = "blocked"] BY <1>1
            <4>2. record[t] \in Record BY <1>5, <2>1, <2>2
            <4> QED BY <2>1, <4>1, <4>2 DEF Record
        <3> QED BY <2>3, <3>1
    <2> QED BY <1>1, <2>3, <2>4
<1>10. ASSUME NEW t \in Threads PROVE Own(t)'
    <2>1. Quiet(t)' /\ session'[t] = None BY <1>2, <1>3 DEF Quiet
    <2>2. None \notin Repos /\ None \notin {"asking", "asking-rebound", "reclaiming"}
        BY LocalLeasesAssumption
    <2>3. Leased(t)' BY <1>9, <2>1, <2>2 DEF Leased
    <2> QED BY <2>1, <2>2, <2>3 DEF Own, Matched, Ending, Quiet
<1>11. Apart' BY <1>9 DEF Apart, Claimants
<1> QED BY <1>7, <1>8, <1>10, <1>11 DEF Inv

\* A crash forgets the leases and everything under way; the records stay.
LEMMA CrashKeeps == ASSUME Inv, Crash PROVE Inv'
<1>1. TypeOK'
    <2>1. crashes' \in 0 .. MaxCrashes BY LocalLeasesAssumption DEF Inv, TypeOK, Crash
    <2>2. /\ session' \in [Threads -> Binds \cup {None}] /\ tx' \in [Threads -> Rebind \cup {None}]
          /\ lease' \in [Repos -> Threads \cup {None}]
          /\ end' \in [Threads -> {None, "asking", "asking-rebound", "reclaiming"}]
        BY DEF Crash
    <2> QED BY <2>1, <2>2 DEF Inv, TypeOK, Crash
<1>2. Starting' BY <1>1 DEF Starting, Quiet, Crash
<1>3. Apart' BY DEF Inv, Apart, Claimants, Crash
<1>4. ASSUME NEW t \in Threads PROVE Own(t)'
    <2>1. ~up' /\ session'[t] = None /\ tx'[t] = None /\ end'[t] = None BY DEF Crash
    <2>2. None \notin Repos /\ None \notin {"asking", "asking-rebound", "reclaiming"}
        BY LocalLeasesAssumption
    <2> QED BY <2>1, <2>2 DEF Own, Leased, Matched, Ending
<1> QED BY <1>1, <1>2, <1>3, <1>4 DEF Inv

\* Startup considers one record: a resumed session finds the lease it needs.
LEMMA ReconciledKeeps == ASSUME Inv, NEW t \in Threads, Reconciled(t) PROVE Inv'
<1>1. /\ TypeOK /\ up /\ t \in todo /\ todo' = todo \ {t}
      /\ UNCHANGED <<ended, tx, end, up, rebinds, crashes>>
    BY DEF Inv, Reconciled
<1>2. /\ Own(t) /\ record[t] \in Record /\ session[t] = None
      /\ \A u \in Threads : Quiet(u)
    BY <1>1 DEF Inv, Starting
<1>3. None \notin Threads /\ None \notin Repos BY LocalLeasesAssumption
<1>4. /\ Released(lease, t) \in Leases
      /\ \A r \in Repos : Released(lease, t)[r] = IF lease[r] = t THEN None ELSE lease[r]
    BY <1>1, LeaseMaps DEF Leases, TypeOK
<1> SUFFICES TypeOK' /\ Starting' /\ Frame(t) /\ Own(t)'
    BY <1>1, StepOfOne
<1>5. TypeOK' BY <1>1, <1>2, <1>4 DEF Reconciled, TypeOK, Put, Leases, Record
<1>6. Frame(t) BY <1>1, <1>3, <1>4 DEF Reconciled, TypeOK, Frame, Put
<1>7. Starting'
    <2>1. \A u \in todo' : u # t /\ u \in Threads BY <1>1 DEF TypeOK
    <2>2. \A u \in todo' : session'[u] = None /\ record'[u] \in Record
        BY <1>1, <1>6, <2>1 DEF Frame, Inv, Starting
    <2> QED BY <1>1, <1>2, <2>2 DEF Starting, Quiet
<1>8. Own(t)'
    <2>1. tx'[t] = None /\ end'[t] = None BY <1>1, <1>2 DEF Quiet, TypeOK
    <2>2. Leased(t)' /\ Matched(t)'
        <3>1. CASE record[t].state = "active"
            <4>1. CASE session' = [session EXCEPT ![t] = record[t].bind] /\ UNCHANGED <<record, lease>>
                <5>1. session'[t] = record[t].bind /\ record' = record /\ lease' = lease
                    BY <1>1, <4>1 DEF TypeOK
                <5>2. \A r \in Repos : t \in Claimants(r) => lease[r] = t
                    BY <1>1, <1>2 DEF Own, Leased
                <5>3. \A r \in Repos : record[t].bind = r => lease[r] = t
                    BY <1>2, <3>1, <5>2, NoneIsNoRecord DEF Claimants
                <5> QED BY <5>1, <5>2, <5>3 DEF Leased, Matched, Claimants, Active
            <4>2. CASE UNCHANGED <<session, record, lease>>
                BY <1>1, <1>2, <4>2 DEF Own, Leased, Matched, Claimants, Active
            <4>3. CASE /\ Put(t, [record[t] EXCEPT !.state = "blocked"])
                       /\ lease' = Released(lease, t) /\ UNCHANGED session
                BY <1>1, <1>2, <1>3, <4>3 DEF Leased, Matched, Claimants, TypeOK, Record, Put, Active
            <4> QED BY <3>1, <4>1, <4>2, <4>3 DEF Reconciled
        <3>2. CASE record[t].state = "creating"
            BY <1>1, <1>2, <1>3, <3>2 DEF Reconciled, Leased, Matched, Claimants, TypeOK, Record, Put, Active
        <3>3. CASE record[t].state \in {"orphaned", "blocked"}
            BY <1>1, <1>2, <3>3 DEF Reconciled, Own, Leased, Matched, Claimants, Active
        <3> QED BY <1>2, <3>1, <3>2, <3>3 DEF Record
    <2>3. None \notin {"asking", "asking-rebound", "reclaiming"} BY LocalLeasesAssumption
    <2> QED BY <2>1, <2>2, <2>3 DEF Own, Ending
<1> QED BY <1>5, <1>6, <1>7, <1>8

-----------------------------------------------------------------------------
(* The steps of a rebind.                                                   *)

\* What is known of the thread of a rebind that is under way.
LEMMA Rebinds ==
    ASSUME Inv, NEW t \in Threads, tx[t] # None
    PROVE  /\ TypeOK /\ up /\ todo = {} /\ Own(t) /\ Reserved(t)
           /\ tx[t] \in Rebind /\ record[t] \in Record \cup {None}
           /\ session[t] \in Binds \cup {None} /\ lease \in Leases
BY Busy DEF Inv, Quiet, Own, TypeOK, Leases

LEMMA BeginKeeps ==
    ASSUME Inv, LocalMoves = FALSE, NEW t \in Threads, NEW b \in Binds, Begin(t, b)
    PROVE  Inv'
<1>1. /\ TypeOK /\ up /\ todo = {} /\ Own(t) /\ tx[t] = None /\ Owned(t)
      /\ UNCHANGED <<record, session, ended, lease, end, up, todo, crashes>>
    BY DEF Inv, Begin, Ready
<1>2. TypeOK' BY LocalLeasesAssumption DEF Inv, TypeOK, Begin, Rebind
<1>3. Starting' BY <1>1 DEF Starting
<1>4. tx'[t] = [stage |-> "opening", target |-> b, held |-> FALSE, prev |-> None]
    BY <1>1 DEF Begin, TypeOK
<1>5. IsLocal(b) => ~IsLocal(session[t]) BY DEF Begin
<1>6. Reserved(t)' BY <1>1, <1>4, <1>5 DEF Reserved, IsLocal
<1>7. Own(t)' BY <1>1, <1>6 DEF Own, Leased, Matched, Ending, Claimants, Active
<1>8. Frame(t) BY <1>1 DEF Begin, Frame, TypeOK
<1> QED BY <1>1, <1>2, <1>3, <1>7, <1>8, StepOfOne

\* What an `/end` has overtaken gives back the lease of its target, which the
\* session never had, and leaves no record that claims one.
LEMMA AbandonKeeps ==
    ASSUME Inv, NEW t \in Threads, tx[t] # None, Abandon(t), Untouched
    PROVE  Inv'
<1>1. /\ TypeOK /\ up /\ todo = {} /\ Own(t) /\ Reserved(t) /\ tx[t] \in Rebind
      /\ lease \in Leases
    BY Rebinds
<1>2. up' = up /\ todo' = todo /\ ended' = ended /\ end' = end /\ session' = session
    BY DEF Abandon, Untouched
<1>3. tx' = [tx EXCEPT ![t] = None] BY DEF Abandon, TxOver
<1>4. /\ record' = record \/ (record' = [record EXCEPT ![t] = None] /\ tx[t].stage # "opening")
      /\ tx[t].stage = "opening" => record' = record
    BY DEF Abandon, Put
<1>5. /\ lease' \in Leases
      /\ tx[t].held => lease' = ReleasedHeldBy(lease, tx[t].target, t)
      /\ ~tx[t].held => lease' = lease
      /\ tx[t].held => tx[t].target \in Repos
    BY <1>1, LeaseMaps DEF Abandon, Reserved, IsLocal, Rebind
<1>6. \A r \in Repos : lease'[r] # lease[r] => lease[r] = t /\ r = tx[t].target /\ tx[t].held
    BY <1>1, <1>5, LeaseMaps
<1>7. TypeOK'
    <2>1. record' \in [Threads -> Record \cup {None}] /\ tx' \in [Threads -> Rebind \cup {None}]
        BY <1>1, <1>3, <1>4 DEF TypeOK
    <2> QED BY <1>1, <1>2, <1>5, <2>1 DEF TypeOK, Leases, Untouched
<1>8. Starting' BY <1>1, <1>2 DEF Starting
<1>9. Frame(t) BY <1>1, <1>2, <1>3, <1>4, <1>6 DEF Frame, TypeOK
<1>10. Own(t)'
    <2>1. tx[t].held => ~IsLocal(session[t]) /\ record[t].state = "creating"
        BY <1>1 DEF Reserved
    <2>2. record'[t] = record[t] \/ record'[t] = None BY <1>1, <1>4 DEF TypeOK
    <2>3. tx'[t] = None BY <1>1, <1>3 DEF TypeOK
    <2>4. Leased(t)'
        BY <1>1, <1>2, <1>6, <2>1, <2>2 DEF Own, Leased, Claimants, IsLocal
    <2> QED BY <1>1, <1>2, <2>2, <2>3, <2>4 DEF Own, Matched, Ending, Active
<1> QED BY <1>1, <1>2, <1>7, <1>8, <1>9, <1>10, StepOfOne

\* A rollback finds the lease of the session it leaves in place where that
\* session had it, for a rebind moves at most one end into a repository.
LEMMA RollBackKeeps ==
    ASSUME Inv, NEW t \in Threads, NEW saved \in BOOLEAN, tx[t] # None,
           tx[t].stage # "opening", Owned(t), RollBack(t, saved), Untouched
    PROVE  Inv'
<1>1. /\ TypeOK /\ up /\ todo = {} /\ Own(t) /\ Reserved(t) /\ tx[t] \in Rebind
      /\ lease \in Leases /\ session[t] \in Binds \cup {None}
    BY Rebinds
<1>2. up' = up /\ todo' = todo /\ ended' = ended /\ end' = end /\ session' = session
    BY DEF RollBack, Untouched
<1>3. tx' = [tx EXCEPT ![t] = None] BY DEF RollBack, TxOver
<1>4. record' = record \/ record' = [record EXCEPT ![t] = tx[t].prev] BY DEF RollBack, Put
<1>5. /\ lease' \in Leases
      /\ \A r \in Repos, u \in Threads \ {t} : lease[r] = u => lease'[r] = u
      /\ IsLocal(session[t]) /\ Free(lease, session[t], t) => lease'[session[t]] = t
    BY <1>1, RestoreMap DEF RollBack
<1>6. TypeOK'
    <2>1. record' \in [Threads -> Record \cup {None}] /\ tx' \in [Threads -> Rebind \cup {None}]
        BY <1>1, <1>3, <1>4 DEF TypeOK, Rebind
    <2> QED BY <1>1, <1>2, <1>5, <2>1 DEF TypeOK, Leases, Untouched
<1>7. Starting' BY <1>1, <1>2 DEF Starting
<1>8. Frame(t) BY <1>1, <1>2, <1>3, <1>4, <1>5 DEF Frame, TypeOK
<1>9. Own(t)'
    <2>1. record'[t] = record[t] \/ record'[t] = tx[t].prev BY <1>1, <1>4 DEF TypeOK
    <2>2. tx'[t] = None BY <1>1, <1>3 DEF TypeOK
    <2>3. session[t] # None BY DEF Owned
    <2>4. Matched(t)' BY <1>1, <1>2, <2>1 DEF Own, Matched, Reserved, Active
    <2>5. IsLocal(session[t]) => lease'[session[t]] = t
        BY <1>1, <1>5 DEF Own, Leased, IsLocal, Free
    <2>6. Leased(t)' BY <1>2, <2>3, <2>4, <2>5 DEF Leased, Matched, Active, Claimants, IsLocal
    <2> QED BY <1>1, <1>2, <2>2, <2>4, <2>6 DEF Own, Ending
<1> QED BY <1>1, <1>2, <1>6, <1>7, <1>8, <1>9, StepOfOne

LEMMA CreateFailsKeeps == ASSUME Inv, NEW t \in Threads, CreateFails(t) PROVE Inv'
BY AbandonKeeps, RollBackKeeps DEF CreateFails, Rebinding

LEMMA CommitRolledBackKeeps == ASSUME Inv, NEW t \in Threads, CommitRolledBack(t) PROVE Inv'
BY AbandonKeeps, RollBackKeeps DEF CommitRolledBack, Rebinding

\* The swap: the replacement has the lease of its target since the reservation.
LEMMA CreatedKeeps == ASSUME Inv, NEW t \in Threads, Created(t) PROVE Inv'
<1>1. /\ TypeOK /\ up /\ todo = {} /\ Own(t) /\ Reserved(t) /\ tx[t] \in Rebind
      /\ lease \in Leases /\ tx[t].stage = "creating" /\ tx[t] # None
    BY Rebinds DEF Created, Rebinding
<1>2. up' = up /\ todo' = todo /\ ended' = ended /\ end' = end /\ rebinds' = rebinds /\ crashes' = crashes
    BY DEF Created, Untouched
<1>3. CASE ~Owned(t) BY <1>1, <1>3, AbandonKeeps DEF Created
<1>4. CASE /\ Put(t, [record[t] EXCEPT !.state = "active"])
           /\ session' = [session EXCEPT ![t] = tx[t].target]
           /\ lease' = IF IsLocal(tx[t].target) THEN lease ELSE Released(lease, t)
           /\ TxOver(t)
    <2>1. /\ record[t] = [bind |-> tx[t].target, state |-> "creating"]
          /\ end[t] # "reclaiming" /\ (IsLocal(tx[t].target) => lease[tx[t].target] = t)
          /\ tx[t].target \in Binds
        BY <1>1 DEF Reserved, Rebind
    <2>2. /\ record'[t] = [bind |-> tx[t].target, state |-> "active"]
          /\ session'[t] = tx[t].target /\ tx'[t] = None
        BY <1>1, <1>4, <2>1 DEF TypeOK, Put, TxOver
    <2>3. lease' \in Leases /\ \A r \in Repos, u \in Threads \ {t} : lease[r] = u => lease'[r] = u
        <3>1. CASE IsLocal(tx[t].target) BY <1>1, <1>4, <3>1
        <3>2. CASE ~IsLocal(tx[t].target)
            <4>1. lease' = Released(lease, t) BY <1>4, <3>2
            <4>2. /\ Released(lease, t) \in Leases
                  /\ \A r \in Repos : Released(lease, t)[r] = IF lease[r] = t THEN None ELSE lease[r]
                BY <1>1, LeaseMaps
            <4> QED BY <4>1, <4>2
        <3> QED BY <3>1, <3>2
    <2>4. TypeOK'
        <3>1. [record[t] EXCEPT !.state = "active"] \in Record BY <2>1 DEF Record
        <3>2. /\ record' \in [Threads -> Record \cup {None}]
              /\ session' \in [Threads -> Binds \cup {None}]
              /\ tx' \in [Threads -> Rebind \cup {None}]
            BY <1>1, <1>4, <2>1, <3>1 DEF TypeOK, Put, TxOver
        <3> QED BY <1>1, <1>2, <2>3, <3>2 DEF TypeOK, Leases
    <2>5. Frame(t) BY <1>1, <1>2, <1>4, <2>3 DEF Frame, TypeOK, Put, TxOver
    <2>6. Leased(t)' BY <1>4, <2>1, <2>2 DEF Leased, Claimants, IsLocal
    <2>7. Own(t)' BY <1>1, <1>2, <2>1, <2>2, <2>6 DEF Own, Matched, Ending, Active
    <2>8. Starting' BY <1>1, <1>2 DEF Starting
    <2> QED BY <1>1, <1>2, <2>4, <2>5, <2>7, <2>8, StepOfOne
<1>5. CASE tx' = [tx EXCEPT ![t].stage = "closing"] /\ UNCHANGED <<record, session, lease>>
    <2>1. tx'[t] = [tx[t] EXCEPT !.stage = "closing"] /\ tx'[t] \in Rebind
        BY <1>1, <1>5 DEF TypeOK, Rebind
    <2>2. TypeOK' BY <1>1, <1>2, <1>5, <2>1 DEF TypeOK
    <2>3. Frame(t) BY <1>1, <1>2, <1>5 DEF Frame, TypeOK
    <2>4. Reserved(t)' BY <1>1, <1>2, <1>5, <2>1 DEF Reserved, Rebind, IsLocal, Active
    <2>5. Own(t)' BY <1>1, <1>2, <1>5, <2>4 DEF Own, Leased, Matched, Ending, Claimants, Active
    <2>6. Starting' BY <1>1, <1>2 DEF Starting
    <2> QED BY <1>1, <1>2, <2>2, <2>3, <2>5, <2>6, StepOfOne
<1> QED BY <1>3, <1>4, <1>5 DEF Created

\* The lease moves in the step that reserves the record: no other thread can
\* take the checkout that is given up before the reservation is written.
LEMMA CaptureKeeps == ASSUME Inv, NEW t \in Threads, CaptureAndReserve(t) PROVE Inv'
<1> DEFINE target == tx[t].target
           released == Released(lease, t)
           taken == IF IsLocal(target) THEN Acquired(released, target, t) ELSE lease
<1>1. /\ TypeOK /\ up /\ todo = {} /\ Own(t) /\ Reserved(t) /\ tx[t] \in Rebind
      /\ lease \in Leases /\ tx[t].stage = "opening" /\ tx[t] # None
      /\ record[t] \in Record \cup {None} /\ session[t] \in Binds \cup {None}
      /\ target \in Binds
    BY Rebinds DEF CaptureAndReserve, Rebinding, Rebind
<1>2. up' = up /\ todo' = todo /\ ended' = ended /\ end' = end /\ rebinds' = rebinds /\ crashes' = crashes
    BY DEF CaptureAndReserve, Untouched
<1>3. CASE ~Owned(t) BY <1>1, <1>3, AbandonKeeps DEF CaptureAndReserve
<1>4. CASE Owned(t)
    <2>1. session[t] # None /\ t \notin ended BY <1>4 DEF Owned
    <2>2. session'= session BY <1>4 DEF CaptureAndReserve
    <2>3. /\ released \in Leases
          /\ \A r \in Repos : released[r] = IF lease[r] = t THEN None ELSE lease[r]
        BY <1>1, LeaseMaps
    <2>4. /\ taken \in Leases
          /\ \A r \in Repos, u \in Threads \ {t} : lease[r] = u => taken[r] = u
        <3>1. CASE IsLocal(target)
            <4>1. target \in Repos BY <3>1 DEF IsLocal
            <4>2. taken = Acquired(released, target, t) BY <3>1
            <4>3. /\ Acquired(released, target, t) \in Leases
                  /\ \A s \in Repos : s # target => Acquired(released, target, t)[s] = released[s]
                  /\ Acquired(released, target, t)[target]
                        = IF Free(released, target, t) THEN t ELSE released[target]
                BY <2>3, <4>1, LeaseMaps
            <4>4. None \notin Threads BY LocalLeasesAssumption
            <4> HIDE DEF target, released, taken
            <4> QED BY <2>3, <4>1, <4>2, <4>3, <4>4 DEF Free
        <3>2. CASE ~IsLocal(target) BY <1>1, <3>2
        <3> QED BY <3>1, <3>2
    <2>5. IsLocal(session[t]) => lease[session[t]] = t /\ ~IsLocal(target)
        BY <1>1 DEF Own, Leased, Reserved, IsLocal
    <2>6. \A r \in Repos : t \in Claimants(r) => session[t] = r
        BY <1>1, <2>1 DEF Own, Matched, Claimants, Active
    <2>7. Starting' BY <1>1, <1>2 DEF Starting
    <2>8. CASE \/ lease' = RestoredFor(released, session[t], t) /\ TxOver(t) /\ UNCHANGED record
               \/ lease' = RestoredFor(taken, session[t], t) /\ TxOver(t) /\ UNCHANGED record
        <3>1. /\ lease' \in Leases
              /\ \A r \in Repos, u \in Threads \ {t} : lease[r] = u => lease'[r] = u
            BY <1>1, <2>3, <2>4, <2>8, RestoreMap, LocalLeasesAssumption
        <3>2. IsLocal(session[t]) => lease'[session[t]] = t
            <4> SUFFICES ASSUME IsLocal(session[t]) PROVE lease'[session[t]] = t
                OBVIOUS
            <4>1. Free(released, session[t], t) /\ Free(taken, session[t], t)
                BY <2>3, <2>5 DEF IsLocal, Free
            <4> QED BY <1>1, <2>3, <2>4, <2>8, <4>1, RestoreMap
        <3>3. tx' = [tx EXCEPT ![t] = None] /\ tx'[t] = None BY <1>1, <2>8 DEF TxOver, TypeOK
        <3>4. TypeOK' BY <1>1, <1>2, <2>2, <2>8, <3>1, <3>3 DEF TypeOK, Leases
        <3>5. Frame(t) BY <1>1, <1>2, <2>2, <2>8, <3>1, <3>3 DEF Frame, TypeOK
        <3>6. Leased(t)' BY <2>2, <2>6, <2>8, <3>2 DEF Leased, Claimants, IsLocal
        <3>7. Own(t)' BY <1>1, <1>2, <2>2, <2>8, <3>3, <3>6 DEF Own, Matched, Ending, Active
        <3> QED BY <1>1, <1>2, <2>7, <3>4, <3>5, <3>7, StepOfOne
    <2>9. CASE /\ IsLocal(target) => Free(released, target, t)
               /\ Put(t, [bind |-> target, state |-> "creating"])
               /\ lease' = taken
               /\ tx' = [tx EXCEPT ![t] = [stage |-> "creating", target |-> target,
                                           held |-> IsLocal(target), prev |-> record[t]]]
        <3>1. /\ record'[t] = [bind |-> target, state |-> "creating"] /\ record'[t] \in Record
              /\ tx'[t] = [stage |-> "creating", target |-> target,
                           held |-> IsLocal(target), prev |-> record[t]]
              /\ tx'[t] \in Rebind
            BY <1>1, <2>9 DEF TypeOK, Put, Rebind, Record, IsLocal
        <3>2. TypeOK' BY <1>1, <1>2, <2>2, <2>4, <2>9, <3>1 DEF TypeOK, Put, Leases
        <3>3. Frame(t) BY <1>1, <1>2, <2>2, <2>4, <2>9 DEF Frame, TypeOK, Put
        <3>4. IsLocal(target) => lease'[target] = t
            BY <2>3, <2>9, LeaseMaps DEF IsLocal
        <3>5. Leased(t)' BY <2>2, <2>5, <2>9, <3>1 DEF Leased, Claimants, IsLocal
        <3>6. end[t] \notin {"asking", "reclaiming"} BY <1>1, <2>1 DEF Own, Ending
        <3>7. Reserved(t)'
            <4>1. IsLocal(target) => ~IsLocal(session'[t]) BY <2>2, <2>5
            <4>2. Active(record[t]) => record[t].bind = session'[t]
                BY <1>1, <2>1, <2>2 DEF Own, Matched
            <4>3. /\ tx'[t].stage = "creating" /\ tx'[t].target = target
                  /\ tx'[t].held = IsLocal(target) /\ tx'[t].prev = record[t]
                BY <3>1
            <4> HIDE DEF target
            <4> QED BY <1>2, <3>1, <3>4, <3>6, <4>1, <4>2, <4>3 DEF Reserved, Active
        <3>8. Own(t)' BY <1>1, <1>2, <2>2, <3>1, <3>5, <3>7 DEF Own, Matched, Ending, Active
        <3> QED BY <1>1, <1>2, <2>7, <3>2, <3>3, <3>8, StepOfOne
    <2> QED BY <1>4, <2>8, <2>9 DEF CaptureAndReserve
<1> QED BY <1>3, <1>4

-----------------------------------------------------------------------------
(* The steps of `/end`.                                                     *)

\* `/end` tells a session that a rebind has already reserved a target for from
\* one that none has: only the second is followed by a reclaim.
LEMMA EndTypedKeeps == ASSUME Inv, NEW t \in Threads, EndTyped(t) PROVE Inv'
<1>1. /\ TypeOK /\ up /\ todo = {} /\ Own(t) /\ end[t] = None
      /\ UNCHANGED <<record, session, lease, tx, up, todo, rebinds, crashes>>
    BY DEF Inv, EndTyped, Ready
<1>2. \/ /\ session[t] # None /\ ended' = ended \cup {t}
         /\ end' = [end EXCEPT ![t] = IF tx[t] # None /\ tx[t].stage # "opening"
                                      THEN "asking-rebound" ELSE "asking"]
      \/ /\ session[t] = None /\ tx[t] = None /\ ended' = ended
         /\ end' = [end EXCEPT ![t] = "reclaiming"]
    BY DEF EndTyped
<1>3. TypeOK' BY <1>1, <1>2 DEF TypeOK
<1>4. Starting' BY <1>1 DEF Starting
<1>5. Frame(t) BY <1>1, <1>2 DEF Frame, TypeOK
<1>6. \/ /\ t \in ended' /\ end'[t] \in {"asking", "asking-rebound"}
         /\ tx[t] # None /\ tx[t].stage # "opening" => end'[t] = "asking-rebound"
      \/ session[t] = None /\ tx[t] = None /\ end'[t] = "reclaiming"
    BY <1>1, <1>2 DEF TypeOK
<1>7. Own(t)'
    <2>1. Ending(t)' BY <1>1, <1>6 DEF Ending
    <2>2. tx[t] # None => Reserved(t)' BY <1>1, <1>6 DEF Own, Reserved, IsLocal, Active
    <2> QED BY <1>1, <2>1, <2>2 DEF Own, Leased, Matched, Claimants, Active
<1> QED BY <1>1, <1>3, <1>4, <1>5, <1>7, StepOfOne

\* What is known of the thread of an `/end` that is under way.
LEMMA Ends ==
    ASSUME Inv, NEW t \in Threads, end[t] \in {"asking", "asking-rebound", "reclaiming"}
    PROVE  /\ TypeOK /\ up /\ todo = {} /\ Own(t) /\ lease \in Leases
           /\ None \notin Repos /\ None \notin {"asking", "asking-rebound", "reclaiming"}
BY Busy, LocalLeasesAssumption DEF Inv, Quiet, TypeOK, Leases

LEMMA EndUnconfirmedKeeps == ASSUME Inv, NEW t \in Threads, EndUnconfirmed(t) PROVE Inv'
<1>1. /\ TypeOK /\ up /\ todo = {} /\ Own(t) /\ None \notin {"asking", "asking-rebound", "reclaiming"}
      /\ UNCHANGED <<record, session, ended, lease, tx, up, todo, rebinds, crashes>>
      /\ end' = [end EXCEPT ![t] = None]
    BY Ends DEF EndUnconfirmed
<1>2. TypeOK' BY <1>1 DEF TypeOK
<1>3. Starting' BY <1>1 DEF Starting
<1>4. Frame(t) BY <1>1 DEF Frame, TypeOK
<1>5. end'[t] = None BY <1>1 DEF TypeOK
<1>6. Own(t)'
    <2>1. tx[t] # None => Reserved(t)' BY <1>1, <1>5 DEF Own, Reserved, IsLocal, Active
    <2> QED BY <1>1, <1>5, <2>1 DEF Own, Leased, Matched, Ending, Claimants, Active
<1> QED BY <1>1, <1>2, <1>3, <1>4, <1>6, StepOfOne

\* The lease of a session whose record may be the replacement's goes only when
\* that record does not claim it.
LEMMA EndConfirmedKeeps == ASSUME Inv, NEW t \in Threads, EndConfirmed(t) PROVE Inv'
<1>1. /\ TypeOK /\ up /\ todo = {} /\ Own(t) /\ lease \in Leases
      /\ None \notin Repos /\ None \notin {"asking", "asking-rebound", "reclaiming"}
      /\ UNCHANGED <<record, tx, up, todo, rebinds, crashes>>
      /\ end[t] \in {"asking", "asking-rebound"}
      /\ session' = [session EXCEPT ![t] = None] /\ ended' = ended \ {t}
    BY Ends DEF EndConfirmed
<1>2. session'[t] = None BY <1>1 DEF TypeOK
<1>3. Starting' BY <1>1 DEF Starting
<1>4. CASE end[t] = "asking"
    <2>1. end' = [end EXCEPT ![t] = "reclaiming"] /\ lease' = lease BY <1>4 DEF EndConfirmed
    <2>2. end'[t] = "reclaiming" BY <1>1, <2>1 DEF TypeOK
    <2>3. TypeOK' BY <1>1, <2>1 DEF TypeOK
    <2>4. Frame(t) BY <1>1, <2>1 DEF Frame, TypeOK
    <2>5. tx[t] # None => Reserved(t)'
        BY <1>1, <1>2, <1>4, <2>1, <2>2 DEF Own, Reserved, IsLocal, Active
    <2>6. Own(t)' BY <1>1, <1>2, <2>1, <2>2, <2>5 DEF Own, Leased, Matched, Ending, Claimants, Active
    <2> QED BY <1>1, <1>3, <2>3, <2>4, <2>6, StepOfOne
<1>5. CASE end[t] = "asking-rebound"
    <2>1. /\ end' = [end EXCEPT ![t] = None]
          /\ lease' = IF IsLocal(session[t])
                      THEN ReleasedRetired(lease, record[t], session[t], t) ELSE lease
        BY <1>5 DEF EndConfirmed
    <2>2. end'[t] = None BY <1>1, <2>1 DEF TypeOK
    <2>3. lease' = lease \/ (/\ IsLocal(session[t]) /\ lease' = ReleasedHeldBy(lease, session[t], t)
                             /\ ~StillClaims(record[t], session[t]))
        BY <2>1 DEF ReleasedRetired
    <2>4. /\ lease' \in Leases
          /\ \A r \in Repos : lease'[r] # lease[r] =>
                 /\ r = session[t] /\ lease[r] = t /\ IsLocal(session[t])
                 /\ ~StillClaims(record[t], session[t])
        <3>1. CASE lease' = lease BY <1>1, <3>1
        <3>2. CASE /\ IsLocal(session[t]) /\ lease' = ReleasedHeldBy(lease, session[t], t)
                   /\ ~StillClaims(record[t], session[t])
            <4>1. session[t] \in Repos BY <3>2 DEF IsLocal
            <4>2. /\ ReleasedHeldBy(lease, session[t], t) \in Leases
                  /\ \A s \in Repos : s # session[t] => ReleasedHeldBy(lease, session[t], t)[s] = lease[s]
                  /\ ReleasedHeldBy(lease, session[t], t)[session[t]]
                        = IF lease[session[t]] = t THEN None ELSE lease[session[t]]
                BY <1>1, <4>1, LeaseMaps
            <4> QED BY <3>2, <4>1, <4>2
        <3> QED BY <2>3, <3>1, <3>2
    <2>5. TypeOK' BY <1>1, <2>1, <2>4 DEF TypeOK, Leases
    <2>6. Frame(t) BY <1>1, <2>1, <2>4 DEF Frame, TypeOK
    <2>7. Leased(t)'
        BY <1>1, <1>2, <2>4 DEF Own, Leased, Claimants, StillClaims
    <2>8. tx[t] # None => Reserved(t)'
        BY <1>1, <1>2, <2>2, <2>4 DEF Own, Reserved, IsLocal, Active
    <2>9. Own(t)' BY <1>1, <1>2, <2>2, <2>7, <2>8 DEF Own, Matched, Ending
    <2> QED BY <1>1, <1>3, <2>5, <2>6, <2>9, StepOfOne
<1> QED BY <1>1, <1>4, <1>5

\* The lease goes with the record: a record that stays because its removal was
\* not written keeps it.
LEMMA EndReclaimsKeeps == ASSUME Inv, NEW t \in Threads, EndReclaims(t) PROVE Inv'
<1>1. /\ TypeOK /\ up /\ todo = {} /\ Own(t) /\ lease \in Leases
      /\ None \notin Repos /\ None \notin {"asking", "asking-rebound", "reclaiming"}
      /\ UNCHANGED <<session, ended, tx, up, todo, rebinds, crashes>>
      /\ end[t] = "reclaiming" /\ end' = [end EXCEPT ![t] = None]
    BY Ends DEF EndReclaims
<1>2. session[t] = None /\ (tx[t] # None => tx[t].stage = "opening")
    BY <1>1 DEF Own, Ending, Reserved
<1>3. end'[t] = None BY <1>1 DEF TypeOK
<1>4. Starting' BY <1>1 DEF Starting
<1>5. /\ record' \in [Threads -> Record \cup {None}]
      /\ \A u \in Threads \ {t} : record'[u] = record[u]
    BY <1>1 DEF EndReclaims, Put, TypeOK, Record
<1>6. /\ lease' \in Leases /\ \A r \in Repos, u \in Threads \ {t} : lease[r] = u => lease'[r] = u
      /\ \A r \in Repos : t \in Claimants(r)' => lease'[r] = t
    <2>0. /\ Released(lease, t) \in Leases
          /\ \A r \in Repos : Released(lease, t)[r] = IF lease[r] = t THEN None ELSE lease[r]
        BY <1>1, LeaseMaps
    <2>1. CASE Put(t, None) /\ lease' = Released(lease, t)
        <3>1. record'[t] = None BY <1>1, <2>1 DEF TypeOK, Put
        <3> QED BY <1>1, <2>0, <2>1, <3>1 DEF Claimants
    <2>2. CASE /\ record[t] # None /\ record[t].bind = Worktree
               /\ Put(t, [record[t] EXCEPT !.state = "blocked"]) /\ lease' = Released(lease, t)
        <3>1. record[t] \in Record BY <1>1, <2>2 DEF TypeOK
        <3>2. record'[t].state = "blocked" BY <1>1, <2>2, <3>1 DEF TypeOK, Put, Record
        <3> QED BY <1>1, <2>0, <2>2, <3>2 DEF Claimants
    <2>3. CASE /\ record' = record
               /\ lease' = IF record[t] # None /\ IsLocal(record[t].bind)
                           THEN Acquired(lease, record[t].bind, t) ELSE lease
        <3>1. \A r \in Repos : t \in Claimants(r)' => lease[r] = t
            BY <1>1, <2>3 DEF Own, Leased, Claimants
        <3>2. CASE record[t] # None /\ IsLocal(record[t].bind)
            <4> DEFINE b == record[t].bind
            <4>1. b \in Repos /\ lease' = Acquired(lease, b, t) BY <2>3, <3>2 DEF IsLocal
            <4> HIDE DEF b
            <4>2. /\ Acquired(lease, b, t) \in Leases
                  /\ \A s \in Repos : s # b => Acquired(lease, b, t)[s] = lease[s]
                  /\ Acquired(lease, b, t)[b] = IF Free(lease, b, t) THEN t ELSE lease[b]
                BY <1>1, <4>1, LeaseMaps
            <4>3. None \notin Threads BY LocalLeasesAssumption
            <4> QED BY <3>1, <4>1, <4>2, <4>3 DEF Free
        <3>3. CASE ~(record[t] # None /\ IsLocal(record[t].bind))
            BY <1>1, <2>3, <3>1, <3>3
        <3> QED BY <3>2, <3>3
    <2> QED BY <2>1, <2>2, <2>3 DEF EndReclaims
<1>7. TypeOK' BY <1>1, <1>5, <1>6 DEF TypeOK, Leases
<1>8. Frame(t) BY <1>1, <1>5, <1>6 DEF Frame, TypeOK
<1>9. Own(t)'
    <2>1. tx[t] # None => Reserved(t)' BY <1>1, <1>2 DEF Own, Reserved, IsLocal
    <2> QED BY <1>1, <1>2, <1>3, <1>6, <2>1 DEF Own, Leased, Matched, Ending
<1> QED BY <1>1, <1>4, <1>7, <1>8, <1>9, StepOfOne

-----------------------------------------------------------------------------
(* The theorems.                                                            *)

LEMMA InvInit == ASSUME Init PROVE Inv
<1>1. TypeOK
    <2>1. record \in [Threads -> Record \cup {None}] BY DEF Init, Record, Binds
    <2>2. rebinds \in 0 .. MaxRebinds /\ crashes \in 0 .. MaxCrashes
        BY LocalLeasesAssumption DEF Init
    <2> QED BY <2>1, <2>2 DEF Init, TypeOK
<1>2. None \notin Repos /\ None \notin {"asking", "asking-rebound", "reclaiming"} /\ Worktree \notin Repos
    BY LocalLeasesAssumption
<1>3. Apart /\ Starting BY <1>2 DEF Init, Apart, Starting, Quiet, Claimants
<1>4. \A t \in Threads : Own(t) BY <1>2 DEF Init, Own, Leased, Matched, Ending
<1> QED BY <1>1, <1>3, <1>4 DEF Inv

LEMMA InvStep == ASSUME Inv, LocalMoves = FALSE, [Next]_vars PROVE Inv'
<1>1. CASE UNCHANGED vars
    BY <1>1 DEF vars, Inv, TypeOK, Apart, Starting, Quiet, Own, Leased, Matched, Ending,
                Reserved, Claimants, Active
<1>2. CASE Boot BY <1>2, BootKeeps
<1>3. CASE Crash BY <1>3, CrashKeeps
<1>4. ASSUME NEW t \in Threads, Reconciled(t) PROVE Inv' BY <1>4, ReconciledKeeps
<1>5. ASSUME NEW t \in Threads, NEW b \in Binds, Begin(t, b) PROVE Inv' BY <1>5, BeginKeeps
<1>6. ASSUME NEW t \in Threads, CaptureAndReserve(t) PROVE Inv' BY <1>6, CaptureKeeps
<1>7. ASSUME NEW t \in Threads, CreateFails(t) PROVE Inv' BY <1>7, CreateFailsKeeps
<1>8. ASSUME NEW t \in Threads, Created(t) PROVE Inv' BY <1>8, CreatedKeeps
<1>9. ASSUME NEW t \in Threads, CommitRolledBack(t) PROVE Inv' BY <1>9, CommitRolledBackKeeps
<1>10. ASSUME NEW t \in Threads, EndTyped(t) PROVE Inv' BY <1>10, EndTypedKeeps
<1>11. ASSUME NEW t \in Threads, EndUnconfirmed(t) PROVE Inv' BY <1>11, EndUnconfirmedKeeps
<1>12. ASSUME NEW t \in Threads, EndConfirmed(t) PROVE Inv' BY <1>12, EndConfirmedKeeps
<1>13. ASSUME NEW t \in Threads, EndReclaims(t) PROVE Inv' BY <1>13, EndReclaimsKeeps
<1> QED BY <1>1, <1>2, <1>3, <1>4, <1>5, <1>6, <1>7, <1>8, <1>9, <1>10, <1>11, <1>12, <1>13
        DEF Next

\* With one holder to a lease, whoever works in a checkout or claims it is alone.
LEMMA InvAlone == ASSUME Inv PROVE LocalAlone
<1> SUFFICES ASSUME NEW r \in Repos
             PROVE  /\ Cardinality({t \in Threads : session[t] = r}) <= 1
                    /\ Cardinality(Claimants(r)) <= 1
    BY DEF LocalAlone
<1>1. ASSUME NEW S, \A t, u \in S : t = u PROVE Cardinality(S) <= 1
    <2>1. CASE S = {} BY <2>1, FS_EmptySet
    <2>2. CASE S # {}
        <3>1. PICK t \in S : TRUE BY <2>2
        <3>2. S = {t} BY <1>1, <3>1
        <3>3. Cardinality({t}) = 1 BY FS_Singleton
        <3> QED BY <3>2, <3>3
    <2> QED BY <2>1, <2>2
<1>2. \A t, u \in {x \in Threads : session[x] = r} : t = u
    BY DEF Inv, Own, Leased
<1>3. \A t, u \in Claimants(r) : t = u BY DEF Inv, Apart
<1> QED BY <1>1, <1>2, <1>3

\* localLeases (app.ts): as long as no rebind goes straight from one local
\* repository to another, two sessions never run in one checkout, and two records
\* never claim it, in memory or over a crash.
THEOREM LeasesKeepApart == ASSUME LocalMoves = FALSE PROVE Spec => []LocalAlone
<1>1. Init => Inv BY InvInit
<1>2. Inv /\ [Next]_vars => Inv' BY InvStep
<1>3. Inv => LocalAlone BY InvAlone
<1> QED BY <1>1, <1>2, <1>3, PTL DEF Spec
=============================================================================
