----------------------- MODULE LifecycleOwnershipProofs -----------------------
(***************************************************************************)
(* What LifecycleOwnership promises for any number of threads, bodies and  *)
(* obligations.  Three inductive invariants, each resting on the one       *)
(* before it: the types; the claim count against the bodies that run; and  *)
(* the fact that what was retained and is not proved gone is still         *)
(* registered, from which the release conclusion is safe.  Then, that the  *)
(* coordinator implements the abstract lease, step by step; then what      *)
(* SingleInstance promises of the lock that the coordinator lets go; and   *)
(* last, what Update promises of the bots that an update stops.            *)
(***************************************************************************)
EXTENDS LifecycleOwnership, SingleInstance, Update, FiniteSetTheorems, TLAPS

-----------------------------------------------------------------------------
(* Types. *)

\* Every variable stays in its type; the count per thread stays a natural number
\* only because it is the number of bodies, so the two are proved together.
Typed == TypeOK /\ ClaimCounted

ClaimsOn(t) == {c \in Claims : claimThread[c] = t}

\* The claims on a thread are finitely many.
LEMMA ClaimsOnFinite == ASSUME NEW t PROVE IsFiniteSet(ClaimsOn(t))
  BY ClaimsFinite, FS_Subset DEF ClaimsOn

\* Claiming a thread adds one to its count and to no other.
LEMMA ClaimAdds ==
  ASSUME Typed, NEW c \in Claims, NEW t \in Threads, claimThread[c] = None,
         claimThread' = [claimThread EXCEPT ![c] = t],
         teardownClaims' = Claimed(t)
  PROVE  /\ teardownClaims' \in [Threads -> Nat]
         /\ ClaimCounted'
  <1>1. teardownClaims' \in [Threads -> Nat]
    BY DEF Typed, TypeOK, Claimed
  <1>2. ASSUME NEW u \in Threads
        PROVE  teardownClaims'[u] = Cardinality(ClaimsOn(u)')
    <2>1. IsFiniteSet(ClaimsOn(u)) BY ClaimsOnFinite
    <2>2. teardownClaims[u] = Cardinality(ClaimsOn(u))
      BY DEF Typed, ClaimCounted, ClaimsOn
    <2>3. CASE u = t
      <3>1. ClaimsOn(u)' = ClaimsOn(u) \cup {c}
        BY <2>3, ConstantsDistinct DEF Typed, TypeOK, ClaimsOn
      <3>2. c \notin ClaimsOn(u)
        BY <2>3, ConstantsDistinct DEF ClaimsOn
      <3>3. Cardinality(ClaimsOn(u) \cup {c}) = Cardinality(ClaimsOn(u)) + 1
        BY <2>1, <3>2, FS_AddElement
      <3>4. teardownClaims'[u] = teardownClaims[u] + 1
        BY <2>3 DEF Typed, TypeOK, Claimed
      <3> QED BY <3>1, <3>3, <3>4, <2>2
    <2>4. CASE u # t
      <3>1. ClaimsOn(u)' = ClaimsOn(u)
        BY <2>4, ConstantsDistinct DEF Typed, TypeOK, ClaimsOn
      <3>2. teardownClaims'[u] = teardownClaims[u]
        BY <2>4 DEF Typed, TypeOK, Claimed
      <3> QED BY <3>1, <3>2, <2>2
    <2> QED BY <2>3, <2>4
  <1> QED BY <1>1, <1>2 DEF ClaimCounted, ClaimsOn

\* A body that settles takes its own claim off the count and no other.
LEMMA ClaimSubtracts ==
  ASSUME Typed, NEW c \in Claims, claimThread[c] # None,
         claimThread' = [claimThread EXCEPT ![c] = None],
         teardownClaims' = Unclaimed(claimThread[c])
  PROVE  /\ teardownClaims' \in [Threads -> Nat]
         /\ ClaimCounted'
  <1> DEFINE t == claimThread[c]
  <1>1. t \in Threads BY DEF Typed, TypeOK
  <1>2. ASSUME NEW u \in Threads
        PROVE  /\ teardownClaims'[u] \in Nat
               /\ teardownClaims'[u] = Cardinality(ClaimsOn(u)')
    <2>1. IsFiniteSet(ClaimsOn(u)) BY ClaimsOnFinite
    <2>2. /\ teardownClaims[u] = Cardinality(ClaimsOn(u))
          /\ teardownClaims[u] \in Nat
      BY DEF Typed, TypeOK, ClaimCounted, ClaimsOn
    <2>3. CASE u = t
      <3>1. ClaimsOn(u)' = ClaimsOn(u) \ {c}
        BY <2>3, <1>1, ConstantsDistinct DEF Typed, TypeOK, ClaimsOn
      <3>2. c \in ClaimsOn(u)
        BY <2>3 DEF ClaimsOn
      <3>3. IsFiniteSet(ClaimsOn(u) \ {c})
        BY <2>1, FS_RemoveElement
      <3>4. Cardinality(ClaimsOn(u) \ {c}) = Cardinality(ClaimsOn(u)) - 1
        BY <2>1, <3>2, FS_RemoveElement
      <3>5. Cardinality(ClaimsOn(u) \ {c}) \in Nat
        BY <3>3, FS_CardinalityType
      <3>6. teardownClaims'[u] = teardownClaims[u] - 1
        BY <2>3, <1>1 DEF Typed, TypeOK, Unclaimed
      <3> QED BY <3>1, <3>4, <3>5, <3>6, <2>2
    <2>4. CASE u # t
      <3>1. ClaimsOn(u)' = ClaimsOn(u)
        BY <2>4, ConstantsDistinct DEF Typed, TypeOK, ClaimsOn
      <3>2. teardownClaims'[u] = teardownClaims[u]
        BY <2>4, <1>1 DEF Typed, TypeOK, Unclaimed
      <3> QED BY <3>1, <3>2, <2>2
    <2> QED BY <2>3, <2>4
  <1>3. teardownClaims' = [u \in Threads |-> teardownClaims'[u]]
    BY <1>1 DEF Typed, TypeOK, Unclaimed
  <1> QED BY <1>2, <1>3 DEF ClaimCounted, ClaimsOn

\* The invariant Typed holds initially.
LEMMA TypedInit == Init => Typed
  <1> SUFFICES ASSUME Init PROVE Typed
    OBVIOUS
  <1>1. TypeOK
    BY ConstantsDistinct DEF Init, TypeOK, Keys
  <1>2. ASSUME NEW t \in Threads
        PROVE  teardownClaims[t] = Cardinality(ClaimsOn(t))
    <2>1. ClaimsOn(t) = {} BY ConstantsDistinct DEF Init, ClaimsOn
    <2> QED BY <2>1, FS_EmptySet DEF Init
  <1> QED BY <1>1, <1>2 DEF Typed, ClaimCounted, ClaimsOn

\* A step that leaves the claims alone leaves their count right.
LEMMA CountKept ==
  ASSUME ClaimCounted, UNCHANGED <<claimThread, teardownClaims>>
  PROVE  ClaimCounted'
  BY DEF ClaimCounted

\* Every step preserves Typed.
LEMMA TypedStep == Typed /\ [Next]_vars => Typed'
  <1> SUFFICES ASSUME Typed, [Next]_vars PROVE Typed'
    OBVIOUS
  <1> USE DEF Typed
  <1>1. ASSUME NEW s \in Scopes, NEW t \in Threads, RunExclusive(s, t) PROVE Typed'
    BY <1>1, CountKept DEF RunExclusive, TypeOK, obligationVars, shutdownVars
  <1>2. ASSUME NEW s \in Scopes, ExclusiveSettles(s) PROVE Typed'
    BY <1>2, CountKept DEF ExclusiveSettles, Evaluate, TypeOK, obligationVars, shutdownVars
  <1>3. ASSUME NEW c \in Claims, NEW t \in Threads, RunTeardown(c, t) PROVE Typed'
    <2>1. teardownClaims' \in [Threads -> Nat] /\ ClaimCounted'
      BY <1>3, ClaimAdds DEF RunTeardown
    <2> QED BY <1>3, <2>1 DEF RunTeardown, TypeOK, obligationVars, shutdownVars
  <1>4. ASSUME NEW c \in Claims, JoinExclusive(c) PROVE Typed'
    BY <1>4, CountKept DEF JoinExclusive, TypeOK, obligationVars, shutdownVars
  <1>5. ASSUME NEW c \in Claims, JoinSettles(c) PROVE Typed'
    BY <1>5, CountKept DEF JoinSettles, JoinAnswer, TypeOK, obligationVars, shutdownVars
  <1>6. ASSUME NEW c \in Claims, TeardownSettles(c) PROVE Typed'
    <2>1. teardownClaims' \in [Threads -> Nat] /\ ClaimCounted'
      BY <1>6, ClaimSubtracts DEF TeardownSettles
    <2> QED BY <1>6, <2>1 DEF TeardownSettles, Evaluate, TypeOK, obligationVars, shutdownVars
  <1>7. ASSUME NEW k \in Keys, NEW e \in Entries, BodyRetains(k, e) PROVE Typed'
    BY <1>7, CountKept
    DEF BodyRetains, Retain, Orphaned, TypeOK, scopeVars, shutdownVars
  <1>8. ASSUME NEW e \in Entries, Prove(e) PROVE Typed'
    BY <1>8, CountKept DEF Prove, TypeOK, scopeVars, shutdownVars
  <1>9. ASSUME NEW e \in Entries, Discharge(e) PROVE Typed'
    BY <1>9, CountKept DEF Discharge, Without, Evaluate, TypeOK, scopeVars, shutdownVars
  <1>10. ASSUME NEW e \in Entries, StartAttempt(e) PROVE Typed'
    BY <1>10, CountKept DEF StartAttempt, TypeOK, scopeVars, shutdownVars
  <1>11. ASSUME NEW e \in Entries, AttemptSucceeds(e) PROVE Typed'
    BY <1>11, CountKept DEF AttemptSucceeds, AttemptOver, Without, Evaluate, TypeOK, scopeVars
  <1>12. ASSUME NEW e \in Entries, AttemptFails(e) PROVE Typed'
    BY <1>12, CountKept DEF AttemptFails, AttemptOver, TypeOK, scopeVars
  <1>13. ASSUME NEW d \in Teardowns, Arm(d) PROVE Typed'
    BY <1>13, CountKept DEF Arm, TypeOK, scopeVars, obligationVars
  <1>14. ASSUME NEW k \in Keys, NEW e \in Entries, LateArm(k, e) PROVE Typed'
    BY <1>14, CountKept DEF LateArm, Retain, Orphaned, TypeOK, scopeVars, shutdownVars
  <1>15. ASSUME Shutdown PROVE Typed'
    BY <1>15, CountKept DEF Shutdown, TypeOK, scopeVars, obligationVars
  <1>16. ASSUME JoinAllSettles PROVE Typed'
    BY <1>16, CountKept DEF JoinAllSettles, Registered, TypeOK, scopeVars, obligationVars
  <1>17. ASSUME NEW e \in Entries, SweepAttempts(e) PROVE Typed'
    BY <1>17, CountKept DEF SweepAttempts, TypeOK, scopeVars
  <1>18. ASSUME StartTeardown PROVE Typed'
    BY <1>18, CountKept, ConstantsDistinct DEF StartTeardown, Retain, Keys, TypeOK, scopeVars
  <1>19. ASSUME TeardownReturns PROVE Typed'
    BY <1>19, CountKept, ConstantsDistinct
    DEF TeardownReturns, Without, Evaluate, TypeOK, scopeVars
  <1>20. ASSUME TeardownThrows PROVE Typed'
    BY <1>20, CountKept DEF TeardownThrows, TypeOK, scopeVars, obligationVars
  <1>21. ASSUME Answer PROVE Typed'
    BY <1>21, CountKept DEF Answer, Evaluate, TypeOK, scopeVars, obligationVars
  <1>22. CASE UNCHANGED vars
    BY <1>22, CountKept DEF vars, scopeVars, obligationVars, shutdownVars, TypeOK
  <1> QED
    BY <1>1, <1>2, <1>3, <1>4, <1>5, <1>6, <1>7, <1>8, <1>9, <1>10, <1>11, <1>12,
       <1>13, <1>14, <1>15, <1>16, <1>17, <1>18, <1>19, <1>20, <1>21, <1>22 DEF Next

\* Every behaviour keeps every variable in its type.
THEOREM TypeCorrect == Spec => []TypeOK
  <1>1. Spec => []Typed
    BY TypedInit, TypedStep, PTL DEF Spec
  <1>2. Typed => TypeOK
    BY DEF Typed
  <1> QED BY <1>1, <1>2, PTL

\* The claim count of lifecycle-ownership.ts (claimTeardown) is the number of
\* teardown bodies that run, however they nest.
THEOREM ClaimsAreCounted == Spec => []ClaimCounted
  <1>1. Spec => []Typed
    BY TypedInit, TypedStep, PTL DEF Spec
  <1>2. Typed => ClaimCounted
    BY DEF Typed
  <1> QED BY <1>1, <1>2, PTL

-----------------------------------------------------------------------------
(* Retention: what was retained and is not proved gone is still registered. *)

\* Registering an entry adds it and loses no other.
LEMMA RetainAdds ==
  ASSUME TypeOK, NEW k \in Keys, NEW e \in Entries, Retain(k, e)
  PROVE  Created' = Created \cup {e} /\ Registered' = Registered \cup {e}
  BY ConstantsDistinct DEF Retain, TypeOK, Created, Registered, Keys

\* Discharging an entry drops it and loses no other.
LEMMA WithoutDrops ==
  ASSUME TypeOK, NEW e \in Entries, obligations' = Without(e), entryKey' = entryKey
  PROVE  Created' = Created /\ Registered' = Registered \ {e}
  BY ConstantsDistinct DEF Without, TypeOK, Created, Registered, Keys

\* No step takes an entry away that is not proved: the heart of the retention
\* invariant, and the action property of the same name.
LEMMA StaysStep ==
  Typed /\ [Next]_vars => \A e \in Registered : e \in Registered' \/ e \in proved'
  <1> SUFFICES ASSUME Typed, [Next]_vars
               PROVE  \A e \in Registered : e \in Registered' \/ e \in proved'
    OBVIOUS
  <1> DEFINE Goal == \A e \in Registered : e \in Registered' \/ e \in proved'
  <1>0. TypeOK BY DEF Typed
  <1>1. ASSUME UNCHANGED <<obligations, entryKey>> PROVE Goal
    BY <1>1 DEF Registered
  <1>2. ASSUME NEW k \in Keys, NEW e \in Entries, Retain(k, e) PROVE Goal
    BY <1>0, <1>2, RetainAdds
  <1>3. ASSUME NEW e \in Entries, e \in proved', obligations' = Without(e),
               entryKey' = entryKey
        PROVE  Goal
    BY <1>0, <1>3, WithoutDrops
  <1>4. CASE \E k \in Keys, e \in Entries : BodyRetains(k, e) \/ LateArm(k, e)
    BY <1>2, <1>4 DEF BodyRetains, LateArm
  <1>5. CASE StartTeardown
    BY <1>2, <1>5, ConstantsDistinct DEF StartTeardown, Keys
  <1>6. CASE \E e \in Entries : Discharge(e) \/ AttemptSucceeds(e)
    BY <1>3, <1>6 DEF Discharge, AttemptSucceeds, AttemptOver
  <1>7. CASE TeardownReturns
    BY <1>3, <1>7, ConstantsDistinct DEF TeardownReturns
  <1>8. CASE \/ \E s \in Scopes, t \in Threads : RunExclusive(s, t)
             \/ \E s \in Scopes : ExclusiveSettles(s)
             \/ \E c \in Claims, t \in Threads : RunTeardown(c, t)
             \/ \E c \in Claims : JoinExclusive(c) \/ JoinSettles(c) \/ TeardownSettles(c)
    BY <1>1, <1>8
    DEF RunExclusive, ExclusiveSettles, RunTeardown, JoinExclusive, JoinSettles,
        TeardownSettles, obligationVars
  <1>9. CASE \/ \E e \in Entries : \/ Prove(e) \/ StartAttempt(e)
                                   \/ AttemptFails(e) \/ SweepAttempts(e)
             \/ \E d \in Teardowns : Arm(d)
    BY <1>1, <1>9
    DEF Prove, StartAttempt, AttemptFails, AttemptOver, SweepAttempts, Arm, obligationVars
  <1>10. CASE Shutdown \/ JoinAllSettles \/ TeardownThrows \/ Answer
    BY <1>1, <1>10 DEF Shutdown, JoinAllSettles, TeardownThrows, Answer, obligationVars
  <1>11. CASE UNCHANGED vars
    BY <1>1, <1>11 DEF vars, obligationVars
  <1> QED
    BY <1>4, <1>5, <1>6, <1>7, <1>8, <1>9, <1>10, <1>11 DEF Next

\* No step of the coordinator (retain, attemptObligation, a handle's discharge,
\* the armed teardown's gate) drops an obligation that is still owed.
THEOREM ObligationsStay == Spec => UnprovenObligationStays
  <1>1. Spec => []Typed
    BY TypedInit, TypedStep, PTL DEF Spec
  <1>2. Typed /\ [Next]_vars
          => [\A e \in Registered : e \in Registered' \/ e \in proved']_vars
    BY StaysStep
  <1> QED BY <1>1, <1>2, PTL DEF Spec, UnprovenObligationStays

\* Everything ever retained is proved gone or still registered; the gate of the
\* armed teardown is registered for as long as that teardown runs.
Retention ==
    /\ proved \subseteq Created
    /\ Created \subseteq proved \cup Registered
    /\ GateEntry \in Created => entryKey[GateEntry] = ArmKey
    /\ teardown = "running" => GateEntry \in Created \ proved

\* Retention holds initially.
LEMMA RetentionInit == Init => Retention
  BY ConstantsDistinct DEF Init, Retention, Created

\* Every step preserves Retention.
LEMMA RetentionStep == Typed /\ Retention /\ [Next]_vars => Retention'
  <1> SUFFICES ASSUME Typed, Retention, [Next]_vars PROVE Retention'
    OBVIOUS
  <1>0. TypeOK BY DEF Typed
  <1>1. \A e \in Registered : e \in Registered' \/ e \in proved'
    BY StaysStep
  <1>2. ASSUME UNCHANGED <<entryKey, proved, teardown>> PROVE Retention'
    BY <1>1, <1>2 DEF Retention, Created
  <1>3. ASSUME NEW k \in Keys, NEW e \in Entries, Retain(k, e), e # GateEntry,
               UNCHANGED <<proved, teardown>>
        PROVE  Retention'
    <2>1. Created' = Created \cup {e} /\ Registered' = Registered \cup {e}
      BY <1>0, <1>3, RetainAdds
    <2>2. entryKey'[GateEntry] = entryKey[GateEntry]
      BY <1>0, <1>3, ConstantsDistinct DEF Retain, TypeOK
    <2> QED BY <1>3, <2>1, <2>2 DEF Retention
  <1>4. CASE \E k \in Keys, e \in Entries : BodyRetains(k, e) \/ LateArm(k, e)
    BY <1>3, <1>4 DEF BodyRetains, LateArm, shutdownVars
  <1>5. CASE StartTeardown
    <2>1. Retain(ArmKey, GateEntry) /\ proved' = proved
      BY <1>5 DEF StartTeardown
    <2>2. /\ Created' = Created \cup {GateEntry}
          /\ Registered' = Registered \cup {GateEntry}
      BY <1>0, <2>1, RetainAdds, ConstantsDistinct DEF Keys
    <2>3. entryKey'[GateEntry] = ArmKey /\ GateEntry \notin Created
      BY <1>0, <2>1, ConstantsDistinct DEF Retain, TypeOK, Created
    <2> QED BY <2>1, <2>2, <2>3 DEF Retention
  <1>6. CASE TeardownReturns
    <2>1. Created' = Created /\ Registered' = Registered \ {GateEntry}
      BY <1>0, <1>6, WithoutDrops, ConstantsDistinct DEF TeardownReturns
    <2>2. /\ proved' = proved \cup {GateEntry}
          /\ teardown = "running" /\ teardown' = "done"
          /\ entryKey' = entryKey
      BY <1>6 DEF TeardownReturns
    <2> QED BY <2>1, <2>2 DEF Retention
  <1>7. CASE TeardownThrows
    BY <1>7 DEF TeardownThrows, obligationVars, Retention, Created, Registered
  <1>8. CASE \E e \in Entries : Prove(e)
    <2>1. PICK e \in Entries : Prove(e) BY <1>8
    <2>2. /\ proved' = proved \cup {e} /\ e \in Created /\ entryKey[e] # ArmKey
          /\ UNCHANGED <<entryKey, obligations, teardown>>
      BY <2>1 DEF Prove, Created, shutdownVars
    <2> QED BY <2>2 DEF Retention, Created, Registered
  <1>9. CASE \/ \E s \in Scopes, t \in Threads : RunExclusive(s, t)
             \/ \E s \in Scopes : ExclusiveSettles(s)
             \/ \E c \in Claims, t \in Threads : RunTeardown(c, t)
             \/ \E c \in Claims : JoinExclusive(c) \/ JoinSettles(c) \/ TeardownSettles(c)
    BY <1>2, <1>9
    DEF RunExclusive, ExclusiveSettles, RunTeardown, JoinExclusive, JoinSettles,
        TeardownSettles, obligationVars, shutdownVars
  <1>10. CASE \E e \in Entries : \/ Discharge(e) \/ AttemptSucceeds(e) \/ StartAttempt(e)
                                 \/ AttemptFails(e) \/ SweepAttempts(e)
    BY <1>2, <1>10
    DEF Discharge, AttemptSucceeds, StartAttempt, AttemptFails, AttemptOver,
        SweepAttempts, shutdownVars
  <1>11. CASE \/ \E d \in Teardowns : Arm(d)
              \/ Shutdown \/ JoinAllSettles \/ Answer
    BY <1>2, <1>11 DEF Arm, Shutdown, JoinAllSettles, Answer, obligationVars
  <1>12. CASE UNCHANGED vars
    BY <1>2, <1>12 DEF vars, obligationVars, shutdownVars
  <1> QED
    BY <1>4, <1>5, <1>6, <1>7, <1>8, <1>9, <1>10, <1>11, <1>12 DEF Next

-----------------------------------------------------------------------------
(* The release. *)

\* ReleaseSafe strengthened: shutdown is over when the lock goes, and what stage
\* shutdown has reached fixes the state of the coordinator.
Concluded ==
    /\ shutdownPc # "none" <=> state = "shutting-down"
    /\ teardownComplete <=> shutdownPc = "answered"
    /\ released => teardownComplete
    /\ ReleaseSafe

ReleaseInv == Typed /\ Retention /\ Concluded

\* evaluate() concludes only when nothing of the process is left.
LEMMA ConclusionSafe ==
  ASSUME Typed', Retention', NothingOwed
  PROVE  /\ LiveScopes' = {} /\ LiveClaims' = {} /\ Registered' = {}
         /\ teardown' # "running"
         /\ Created' \subseteq proved'
  <1>1. LiveScopes' = {} BY DEF NothingOwed, LiveScopes
  <1>2. Registered' = {}
    BY ConstantsDistinct DEF NothingOwed, Registered, Typed, TypeOK, Keys
  <1>3. LiveClaims' = {}
    <2> SUFFICES ASSUME NEW c \in Claims, claimThread'[c] # None PROVE FALSE
      BY DEF LiveClaims
    <2>1. PICK t \in Threads : claimThread'[c] = t BY DEF Typed, TypeOK
    <2>2. c \in ClaimsOn(t)' BY <2>1 DEF ClaimsOn
    <2>3. Cardinality(ClaimsOn(t)') = 0
      BY <2>1 DEF NothingOwed, Typed, ClaimCounted, ClaimsOn
    <2>4. IsFiniteSet(ClaimsOn(t)')
      BY ClaimsFinite, FS_Subset DEF ClaimsOn
    <2> QED BY <2>2, <2>3, <2>4, FS_EmptySet
  <1>4. Created' \subseteq proved' BY <1>2 DEF Retention
  <1>5. teardown' # "running" BY <1>4 DEF Retention
  <1> QED BY <1>1, <1>2, <1>3, <1>4, <1>5

\* Concluded holds initially.
LEMMA ConcludedInit == Init => Concluded
  BY DEF Init, Concluded, ReleaseSafe

\* Once the lock is gone no scope, claim or armed teardown can start, and what is
\* retained from then on is an orphan; before that, only evaluate() lets it go.
LEMMA ConcludedStep == ReleaseInv /\ [Next]_vars => Concluded'
  <1> SUFFICES ASSUME ReleaseInv, [Next]_vars PROVE Concluded'
    OBVIOUS
  <1> DEFINE Staged == /\ shutdownPc # "none" <=> state = "shutting-down"
                       /\ teardownComplete <=> shutdownPc = "answered"
  <1>0. Typed /\ Retention /\ Concluded /\ TypeOK /\ Typed' /\ Retention'
    BY TypedStep, RetentionStep DEF ReleaseInv, Typed
  <1>1. Staged'
    BY <1>0
    DEF Concluded, TypeOK, Next, RunExclusive, ExclusiveSettles, RunTeardown, JoinExclusive,
        JoinSettles, TeardownSettles, BodyRetains, Prove, Discharge, StartAttempt,
        AttemptSucceeds, AttemptFails, AttemptOver, Arm, LateArm, Shutdown, JoinAllSettles,
        SweepAttempts, StartTeardown, TeardownReturns, TeardownThrows, Answer, vars,
        shutdownVars
  <1>2. ASSUME ~released, Evaluate PROVE Concluded'
    BY <1>0, <1>1, <1>2, ConclusionSafe DEF Evaluate, Concluded, ReleaseSafe
  <1>3. ASSUME ~released, released' = released PROVE Concluded'
    BY <1>1, <1>3 DEF Concluded, ReleaseSafe
  <1>4. CASE ~released
    BY <1>2, <1>3, <1>4
    DEF Next, RunExclusive, ExclusiveSettles, RunTeardown, JoinExclusive,
        JoinSettles, TeardownSettles, BodyRetains, Prove, Discharge, StartAttempt,
        AttemptSucceeds, AttemptFails, AttemptOver, Arm, LateArm, Shutdown, JoinAllSettles,
        SweepAttempts, StartTeardown, TeardownReturns, TeardownThrows, Answer, vars
  <1>5. CASE released
    <2>0. /\ state = "shutting-down" /\ teardownComplete /\ shutdownPc = "answered"
          /\ teardown # "running" /\ LiveScopes = {} /\ LiveClaims = {}
          /\ Created \ orphans \subseteq proved
      BY <1>0, <1>5 DEF Concluded, ReleaseSafe
    <2>1. ASSUME UNCHANGED <<scopeThread, claimThread, entryKey, teardown, teardownComplete>>,
                 proved \subseteq proved', orphans' = orphans
          PROVE  Concluded'
      BY <1>1, <2>0, <2>1 DEF Concluded, ReleaseSafe, LiveScopes, LiveClaims, Created
    <2>2. ASSUME NEW k \in Keys, NEW e \in Entries, Retain(k, e), orphans' = Orphaned(e),
                 UNCHANGED <<scopeThread, claimThread, teardown, teardownComplete, proved>>
          PROVE  Concluded'
      <3>1. Created' = Created \cup {e} BY <1>0, <2>2, RetainAdds
      <3>2. orphans' = orphans \cup {e} BY <1>5, <2>2 DEF Orphaned
      <3> QED BY <1>1, <2>0, <2>2, <3>1, <3>2 DEF Concluded, ReleaseSafe, LiveScopes, LiveClaims
    <2>3. CASE \E k \in Keys, e \in Entries : BodyRetains(k, e) \/ LateArm(k, e)
      BY <2>2, <2>3 DEF BodyRetains, LateArm, scopeVars, shutdownVars
    <2>4. CASE \E e \in Entries : \/ Prove(e) \/ Discharge(e) \/ AttemptSucceeds(e)
                                  \/ StartAttempt(e) \/ AttemptFails(e)
      BY <2>1, <2>4
      DEF Prove, Discharge, AttemptSucceeds, StartAttempt, AttemptFails, AttemptOver,
          scopeVars, shutdownVars
    <2>5. CASE UNCHANGED vars
      BY <2>1, <2>5 DEF vars, scopeVars, obligationVars, shutdownVars
    <2>6. CASE \/ \E s \in Scopes, t \in Threads : RunExclusive(s, t)
               \/ \E s \in Scopes : ExclusiveSettles(s)
               \/ \E c \in Claims, t \in Threads : RunTeardown(c, t)
               \/ \E c \in Claims : JoinExclusive(c) \/ JoinSettles(c) \/ TeardownSettles(c)
      <3>1. claimThread' = claimThread /\ scopeThread' = scopeThread
        BY <2>0, <2>6
        DEF RunExclusive, Admitted, ExclusiveSettles, LiveScopes, RunTeardown,
            JoinExclusive, JoinSettles, TeardownSettles, LiveClaims
      <3> QED
        BY <2>1, <2>6, <3>1
        DEF RunExclusive, ExclusiveSettles, RunTeardown, JoinExclusive, JoinSettles,
            TeardownSettles, obligationVars, shutdownVars
    <2>7. CASE \/ \E d \in Teardowns : Arm(d)
               \/ Shutdown \/ JoinAllSettles \/ \E e \in Entries : SweepAttempts(e)
               \/ StartTeardown \/ TeardownReturns \/ TeardownThrows \/ Answer
      BY <2>0, <2>7
      DEF Arm, Shutdown, JoinAllSettles, SweepAttempts, StartTeardown, TeardownReturns,
          TeardownThrows, Answer
    <2> QED
      BY <2>3, <2>4, <2>5, <2>6, <2>7 DEF Next
  <1> QED BY <1>4, <1>5

\* The strengthened invariant is inductive.
LEMMA ReleaseInvStep == ReleaseInv /\ [Next]_vars => ReleaseInv'
  BY TypedStep, RetentionStep, ConcludedStep DEF ReleaseInv

\* The lock is let go only after every body has settled, the armed teardown is
\* not half way, and every obligation it could still gate is really discharged.
THEOREM ReleaseIsSafe == Spec => []ReleaseSafe
  <1>1. Init => ReleaseInv
    BY TypedInit, RetentionInit, ConcludedInit DEF ReleaseInv
  <1>2. Spec => []ReleaseInv
    BY <1>1, ReleaseInvStep, PTL DEF Spec
  <1>3. ReleaseInv => ReleaseSafe
    BY DEF ReleaseInv, Concluded
  <1> QED BY <1>2, <1>3, PTL

-----------------------------------------------------------------------------
(* A joined teardown is alone. *)

\* JoinedAlone is inductive next to the claim count: a body that is "joined" has
\* a claim, so nothing is admitted on its thread until it settles.
Joined ==
    /\ \A c \in Claims : claimPc[c] # "idle" => claimThread[c] # None
    /\ JoinedAlone

\* Every step preserves Joined.
LEMMA JoinedStep == Typed /\ Joined /\ [Next]_vars => Joined'
  <1> SUFFICES ASSUME Typed, Joined, [Next]_vars PROVE Joined'
    OBVIOUS
  <1>0. TypeOK /\ ClaimCounted BY DEF Typed
  <1>1. ASSUME UNCHANGED <<scopeThread, claimThread, claimPc>> PROVE Joined'
    BY <1>1 DEF Joined, JoinedAlone, ScopesOf
  <1>2. CASE \E s \in Scopes, t \in Threads : RunExclusive(s, t)
    <2>1. PICK s \in Scopes, t \in Threads : RunExclusive(s, t) BY <1>2
    <2>2. scopeThread' = [scopeThread EXCEPT ![s] = t] /\ UNCHANGED <<claimThread, claimPc>>
      BY <2>1 DEF RunExclusive
    <2>3. ASSUME NEW c \in Claims PROVE claimThread[c] # t
      <3>1. Cardinality(ClaimsOn(t)) = 0
        BY <1>0, <2>1 DEF RunExclusive, Admitted, ClaimCounted, ClaimsOn
      <3>2. ClaimsOn(t) = {} BY <3>1, ClaimsOnFinite, FS_EmptySet
      <3> QED BY <3>2 DEF ClaimsOn
    <2>4. ASSUME NEW c \in Claims PROVE ScopesOf(claimThread[c])' \subseteq ScopesOf(claimThread[c])
      BY <1>0, <2>2, <2>3 DEF ScopesOf, TypeOK
    <2> QED BY <2>2, <2>4 DEF Joined, JoinedAlone
  <1>3. CASE \E s \in Scopes : ExclusiveSettles(s)
    <2>1. PICK s \in Scopes : ExclusiveSettles(s) BY <1>3
    <2>2. /\ scopeThread' = [scopeThread EXCEPT ![s] = None]
          /\ UNCHANGED <<claimThread, claimPc>>
      BY <2>1 DEF ExclusiveSettles
    <2>3. ASSUME NEW c \in Claims, claimThread[c] # None
          PROVE  ScopesOf(claimThread[c])' \subseteq ScopesOf(claimThread[c])
      BY <1>0, <2>2, <2>3 DEF ScopesOf, TypeOK
    <2> QED BY <2>2, <2>3 DEF Joined, JoinedAlone
  <1>4. CASE \E c \in Claims, t \in Threads : RunTeardown(c, t)
    BY <1>0, <1>4, ConstantsDistinct DEF RunTeardown, Joined, JoinedAlone, ScopesOf, TypeOK
  <1>5. CASE \E c \in Claims : JoinExclusive(c) \/ JoinSettles(c)
    BY <1>0, <1>5 DEF JoinExclusive, JoinSettles, JoinAnswer, Joined, JoinedAlone, ScopesOf, TypeOK
  <1>6. CASE \E c \in Claims : TeardownSettles(c)
    BY <1>0, <1>6 DEF TeardownSettles, Joined, JoinedAlone, ScopesOf, TypeOK
  <1>7. CASE \/ \E k \in Keys, e \in Entries : BodyRetains(k, e) \/ LateArm(k, e)
             \/ \E e \in Entries : \/ Prove(e) \/ Discharge(e) \/ AttemptSucceeds(e)
                                   \/ StartAttempt(e) \/ AttemptFails(e)
    BY <1>1, <1>7
    DEF BodyRetains, LateArm, Prove, Discharge, AttemptSucceeds, StartAttempt, AttemptFails,
        AttemptOver, scopeVars
  <1>8. CASE \/ \E d \in Teardowns : Arm(d)
             \/ Shutdown \/ JoinAllSettles \/ \E e \in Entries : SweepAttempts(e)
             \/ StartTeardown \/ TeardownReturns \/ TeardownThrows \/ Answer
    BY <1>1, <1>8
    DEF Arm, Shutdown, JoinAllSettles, SweepAttempts, StartTeardown, TeardownReturns,
        TeardownThrows, Answer, scopeVars
  <1>9. CASE UNCHANGED vars
    BY <1>1, <1>9 DEF vars, scopeVars
  <1> QED BY <1>2, <1>3, <1>4, <1>5, <1>6, <1>7, <1>8, <1>9 DEF Next

\* A teardown that joinExclusive told "true" has its thread to itself until it
\* settles, for any number of threads, scopes and nested claims.
THEOREM JoinedIsAlone == Spec => []JoinedAlone
  <1>1. Init => Typed /\ Joined
    BY TypedInit DEF Init, Joined, JoinedAlone
  <1>2. (Typed /\ Joined) /\ [Next]_vars => (Typed /\ Joined)'
    BY TypedStep, JoinedStep
  <1>3. Spec => [](Typed /\ Joined)
    BY <1>1, <1>2, PTL DEF Spec
  <1>4. Typed /\ Joined => JoinedAlone
    BY DEF Joined
  <1> QED BY <1>3, <1>4, PTL

-----------------------------------------------------------------------------
(* The coordinator implements the lease. *)

\* The map and the entries agree, so an empty set of registered entries is an
\* empty map.
Keyed == \A k \in Keys : obligations[k] # None => entryKey[obligations[k]] = k

\* What the lease adds to ReleaseInv: nothing is an orphan before the release,
\* everything registered is one after it, and a process that shuts down and
\* still has the lock owes something.
Leased ==
    /\ Keyed
    /\ ~released => orphans = {}
    /\ released => Registered \subseteq orphans
    /\ ~released /\ state = "shutting-down" => Owed # {}

\* Owed is determined by the live scopes and claims, the entries that can still
\* gate something, and whether shutdown has answered.
LEMMA OwedKept ==
  ASSUME LiveScopes' = LiveScopes, LiveClaims' = LiveClaims,
         (Registered \ orphans)' = Registered \ orphans,
         UNCHANGED <<state, teardownComplete>>
  PROVE  Owed' = Owed
  BY DEF Owed

\* Nothing is owed exactly when all three live sets are empty and shutdown, if
\* it has begun, has answered.
LEMMA OwedEmpty ==
  LET Empty == /\ LiveScopes = {} /\ LiveClaims = {} /\ Registered \ orphans = {}
               /\ state = "shutting-down" => teardownComplete
  IN  (Owed = {} <=> Empty) /\ (Owed' = {} <=> Empty')
  BY DEF Owed

\* Every owed item is work the lease knows of.
LEMMA OwedIsWork == Owed \subseteq AllWork
  BY DEF Owed, AllWork, LiveScopes, LiveClaims, Registered

\* After the release nothing is owed.
LEMMA ReleasedOwesNothing ==
  ASSUME ReleaseInv, Leased, released PROVE Owed = {}
  BY OwedEmpty DEF ReleaseInv, Concluded, ReleaseSafe, Leased

\* Leased holds initially.
LEMMA LeasedInit == Init => Leased
  BY ConstantsDistinct DEF Init, Leased, Keyed, Registered

\* The lease's variables are unchanged, or one of its steps is taken.
LeaseStep == Lease!Next \/ UNCHANGED <<Owed, state = "shutting-down", ~released>>

\* A step that changes nothing the lease sees keeps Leased.
LEMMA LeasedKept ==
  ASSUME Leased, Owed' = Owed, UNCHANGED <<state, released>>,
         orphans' = orphans, Registered' \subseteq Registered, Keyed'
  PROVE  Leased' /\ LeaseStep
  BY DEF Leased, LeaseStep

\* New work: a lease that is held, and owed to somebody if it drains, takes it.
LEMMA LeaseTakes ==
  ASSUME Leased, NEW w, ~released, w \in AllWork, w \notin Owed, Owed' = Owed \cup {w},
         UNCHANGED <<state, released, orphans>>, Keyed'
  PROVE  Leased' /\ LeaseStep
  BY DEF Leased, LeaseStep, Lease!Next, Lease!Take

\* Finished work: evaluate() lets the lock go with the last of it.
LEMMA LeaseFinishes ==
  ASSUME ReleaseInv, Leased, ReleaseInv', NEW w, w \in Owed, Owed' = Owed \ {w},
         UNCHANGED <<state, orphans>>, Keyed', Evaluate
  PROVE  Leased' /\ LeaseStep
  <1>1. ~released /\ orphans = {}
    BY ReleasedOwesNothing DEF Leased
  <1>2. NothingOwed <=> LiveScopes' = {} /\ LiveClaims' = {} /\ Registered' = {}
    <2>1. NothingOwed => LiveScopes' = {} /\ LiveClaims' = {} /\ Registered' = {}
      BY ConclusionSafe DEF ReleaseInv
    <2>2. ASSUME LiveScopes' = {}, LiveClaims' = {}, Registered' = {} PROVE NothingOwed
      <3>1. \A s \in Scopes : scopeThread'[s] = None BY <2>2 DEF LiveScopes
      <3>2. ASSUME NEW t \in Threads PROVE teardownClaims'[t] = 0
        <4>1. ClaimsOn(t)' = {}
          BY <2>2, ConstantsDistinct DEF LiveClaims, ClaimsOn
        <4> QED BY <4>1, FS_EmptySet DEF ReleaseInv, Typed, ClaimCounted, ClaimsOn
      <3>3. ASSUME NEW k \in Keys, obligations'[k] # None PROVE FALSE
        BY <2>2, <3>3, ConstantsDistinct DEF Keyed, Keys, Registered, ReleaseInv, Typed, TypeOK
      <3> QED BY <3>1, <3>2, <3>3 DEF NothingOwed
    <2> QED BY <2>1, <2>2
  <1>3. released' <=> state' = "shutting-down" /\ Owed' = {}
    <2>1. orphans' = {} BY <1>1
    <2>2. Owed' = {} <=> /\ LiveScopes' = {} /\ LiveClaims' = {} /\ Registered' = {}
                         /\ state' = "shutting-down" => teardownComplete'
      BY <2>1, OwedEmpty
    <2>3. released' = (state' = "shutting-down" /\ teardownComplete' /\ NothingOwed)
      BY <1>1 DEF Evaluate
    <2> QED BY <1>2, <2>2, <2>3
  <1>4. w \in AllWork BY OwedIsWork
  <1> QED
    BY <1>1, <1>3, <1>4, <1>2 DEF Evaluate, Leased, LeaseStep, Lease!Next, Lease!Finish

\* The map and the entries stay in agreement: an entry is registered under its
\* key in the step that creates it, and its key never changes.
LEMMA KeyedStep == Typed /\ Keyed /\ [Next]_vars => Keyed'
  <1> SUFFICES ASSUME Typed, Keyed, [Next]_vars PROVE Keyed'
    OBVIOUS
  <1>0. TypeOK BY DEF Typed
  <1>1. ASSUME UNCHANGED <<obligations, entryKey>> PROVE Keyed'
    BY <1>1 DEF Keyed
  <1>2. ASSUME NEW k \in Keys, NEW e \in Entries, Retain(k, e) PROVE Keyed'
    BY <1>0, <1>2, ConstantsDistinct DEF Retain, Keyed, Keys, TypeOK
  <1>3. ASSUME NEW e \in Entries, obligations' = Without(e), entryKey' = entryKey PROVE Keyed'
    BY <1>0, <1>3, ConstantsDistinct DEF Without, Keyed, TypeOK
  <1>4. CASE \E k \in Keys, e \in Entries : BodyRetains(k, e) \/ LateArm(k, e)
    BY <1>2, <1>4 DEF BodyRetains, LateArm
  <1>5. CASE StartTeardown
    BY <1>2, <1>5, ConstantsDistinct DEF StartTeardown, Keys
  <1>6. CASE \E e \in Entries : Discharge(e) \/ AttemptSucceeds(e)
    BY <1>3, <1>6 DEF Discharge, AttemptSucceeds, AttemptOver
  <1>7. CASE TeardownReturns
    BY <1>3, <1>7, ConstantsDistinct DEF TeardownReturns
  <1>8. CASE \/ \E s \in Scopes, t \in Threads : RunExclusive(s, t)
             \/ \E s \in Scopes : ExclusiveSettles(s)
             \/ \E c \in Claims, t \in Threads : RunTeardown(c, t)
             \/ \E c \in Claims : JoinExclusive(c) \/ JoinSettles(c) \/ TeardownSettles(c)
    BY <1>1, <1>8
    DEF RunExclusive, ExclusiveSettles, RunTeardown, JoinExclusive, JoinSettles,
        TeardownSettles, obligationVars
  <1>9. CASE \/ \E e \in Entries : \/ Prove(e) \/ StartAttempt(e)
                                   \/ AttemptFails(e) \/ SweepAttempts(e)
             \/ \E d \in Teardowns : Arm(d)
    BY <1>1, <1>9
    DEF Prove, StartAttempt, AttemptFails, AttemptOver, SweepAttempts, Arm, obligationVars
  <1>10. CASE Shutdown \/ JoinAllSettles \/ TeardownThrows \/ Answer
    BY <1>1, <1>10 DEF Shutdown, JoinAllSettles, TeardownThrows, Answer, obligationVars
  <1>11. CASE UNCHANGED vars
    BY <1>1, <1>11 DEF vars, obligationVars
  <1> QED
    BY <1>4, <1>5, <1>6, <1>7, <1>8, <1>9, <1>10, <1>11 DEF Next

\* Every step of the coordinator is a step of the lease or leaves it alone.
LEMMA LeasedStep == ReleaseInv /\ Leased /\ [Next]_vars => Leased' /\ LeaseStep
  <1> SUFFICES ASSUME ReleaseInv, Leased, [Next]_vars PROVE Leased' /\ LeaseStep
    OBVIOUS
  <1> DEFINE Goal == Leased' /\ LeaseStep
  <1>0. /\ ReleaseInv' /\ Keyed' /\ TypeOK /\ Retention /\ Concluded /\ Keyed
    BY ReleaseInvStep, KeyedStep DEF ReleaseInv, Typed, Leased
  <1>a. state = "running" \/ shutdownPc # "answered" => ~released
    BY <1>0 DEF Concluded
  <1>1. ASSUME UNCHANGED <<scopeThread, claimThread, obligations, entryKey, orphans, state,
                           teardownComplete, released>>
        PROVE  Goal
    <2>1. Registered' = Registered BY <1>1 DEF Registered
    <2>2. Owed' = Owed BY <1>1, <2>1, OwedKept DEF LiveScopes, LiveClaims
    <2> QED BY <1>0, <1>1, <2>1, <2>2, LeasedKept
  \* One of the three live sets gains a member while the lock is held ...
  <1>2. ASSUME NEW k \in Keys, NEW e \in Entries, Retain(k, e), ~released, orphans' = orphans,
               UNCHANGED <<scopeThread, claimThread, state, teardownComplete, released>>
        PROVE  Goal
    <2>1. Registered' = Registered \cup {e} /\ e \notin Registered
      BY <1>0, <1>2, RetainAdds, ConstantsDistinct DEF Retain, Registered
    <2>2. orphans = {} BY <1>2 DEF Leased
    <2>3. Owed' = Owed \cup {<<"obligation", e>>} /\ <<"obligation", e>> \notin Owed
      BY <1>2, <2>1, <2>2 DEF Owed, LiveScopes, LiveClaims
    <2> QED BY <1>0, <1>2, <2>3, LeaseTakes DEF AllWork
  \* ... or loses one, and evaluate() looks.
  <1>3. ASSUME NEW e \in Registered, obligations' = Without(e), entryKey' = entryKey,
               UNCHANGED <<scopeThread, claimThread, orphans, state, teardownComplete>>,
               Evaluate
        PROVE  Goal
    <2>0. e \in Entries BY DEF Registered
    <2>1. Registered' = Registered \ {e} BY <1>0, <1>3, <2>0, WithoutDrops
    <2>2. CASE released
      <3>1. (Registered \ orphans)' = Registered \ orphans BY <1>3, <2>1, <2>2 DEF Leased
      <3>2. Owed' = Owed BY <1>3, <3>1, OwedKept DEF LiveScopes, LiveClaims
      <3>3. released' = released BY <1>3, <2>2, <1>0 DEF Evaluate, TypeOK
      <3> QED BY <1>0, <1>3, <2>1, <3>2, <3>3, LeasedKept
    <2>3. CASE ~released
      <3>1. orphans = {} BY <2>3 DEF Leased
      <3>2. Owed' = Owed \ {<<"obligation", e>>} /\ <<"obligation", e>> \in Owed
        BY <1>3, <2>1, <3>1 DEF Owed, LiveScopes, LiveClaims
      <3> QED BY <1>0, <1>3, <3>2, LeaseFinishes
    <2> QED BY <2>2, <2>3
  <1>4. CASE \E s \in Scopes, t \in Threads : RunExclusive(s, t)
    <2>1. PICK s \in Scopes, t \in Threads : RunExclusive(s, t) BY <1>4
    <2>2. LiveScopes' = LiveScopes \cup {s} /\ s \notin LiveScopes
      BY <1>0, <2>1, ConstantsDistinct DEF RunExclusive, LiveScopes, TypeOK
    <2>3. /\ LiveClaims' = LiveClaims /\ Registered' = Registered
          /\ UNCHANGED <<state, teardownComplete, orphans, released>>
      BY <2>1 DEF RunExclusive, LiveClaims, Registered, obligationVars, shutdownVars
    <2>4. Owed' = Owed \cup {<<"scope", s>>} /\ <<"scope", s>> \notin Owed
      BY <2>2, <2>3 DEF Owed
    <2>5. ~released BY <1>a, <2>1 DEF RunExclusive, Admitted
    <2> QED BY <1>0, <2>3, <2>4, <2>5, LeaseTakes DEF AllWork
  <1>5. CASE \E s \in Scopes : ExclusiveSettles(s)
    <2>1. PICK s \in Scopes : ExclusiveSettles(s) BY <1>5
    <2>2. LiveScopes' = LiveScopes \ {s} /\ s \in LiveScopes
      BY <1>0, <2>1 DEF ExclusiveSettles, LiveScopes, TypeOK
    <2>3. /\ LiveClaims' = LiveClaims /\ Registered' = Registered
          /\ UNCHANGED <<state, teardownComplete, orphans>> /\ Evaluate
      BY <2>1 DEF ExclusiveSettles, LiveClaims, Registered, obligationVars, shutdownVars
    <2>4. Owed' = Owed \ {<<"scope", s>>} /\ <<"scope", s>> \in Owed
      BY <2>2, <2>3 DEF Owed
    <2> QED BY <1>0, <2>3, <2>4, LeaseFinishes
  <1>6. CASE \E c \in Claims, t \in Threads : RunTeardown(c, t)
    <2>1. PICK c \in Claims, t \in Threads : RunTeardown(c, t) BY <1>6
    <2>2. LiveClaims' = LiveClaims \cup {c} /\ c \notin LiveClaims
      BY <1>0, <2>1, ConstantsDistinct DEF RunTeardown, LiveClaims, TypeOK
    <2>3. /\ LiveScopes' = LiveScopes /\ Registered' = Registered
          /\ UNCHANGED <<state, teardownComplete, orphans, released>>
      BY <2>1 DEF RunTeardown, LiveScopes, Registered, obligationVars, shutdownVars
    <2>4. Owed' = Owed \cup {<<"claim", c>>} /\ <<"claim", c>> \notin Owed
      BY <2>2, <2>3 DEF Owed
    <2>5. ~released BY <1>a, <2>1 DEF RunTeardown
    <2> QED BY <1>0, <2>3, <2>4, <2>5, LeaseTakes DEF AllWork
  <1>7. CASE \E c \in Claims : TeardownSettles(c)
    <2>1. PICK c \in Claims : TeardownSettles(c) BY <1>7
    <2>2. LiveClaims' = LiveClaims \ {c} /\ c \in LiveClaims
      BY <1>0, <2>1 DEF TeardownSettles, LiveClaims, TypeOK
    <2>3. /\ LiveScopes' = LiveScopes /\ Registered' = Registered
          /\ UNCHANGED <<state, teardownComplete, orphans>> /\ Evaluate
      BY <2>1 DEF TeardownSettles, LiveScopes, Registered, obligationVars, shutdownVars
    <2>4. Owed' = Owed \ {<<"claim", c>>} /\ <<"claim", c>> \in Owed
      BY <2>2, <2>3 DEF Owed
    <2> QED BY <1>0, <2>3, <2>4, LeaseFinishes
  <1>8. CASE \E k \in Keys, e \in Entries : BodyRetains(k, e) \/ LateArm(k, e)
    <2>1. PICK k \in Keys, e \in Entries : BodyRetains(k, e) \/ LateArm(k, e) BY <1>8
    <2>2. /\ Retain(k, e) /\ orphans' = Orphaned(e)
          /\ UNCHANGED <<scopeThread, claimThread, state, teardownComplete, released>>
      BY <2>1 DEF BodyRetains, LateArm, scopeVars, shutdownVars
    <2>3. CASE ~released
      BY <1>2, <2>2, <2>3 DEF Orphaned
    <2>4. CASE released
      <3>1. Registered' = Registered \cup {e} /\ orphans' = orphans \cup {e}
        BY <1>0, <2>2, <2>4, RetainAdds DEF Orphaned
      <3>2. (Registered \ orphans)' = Registered \ orphans
        BY <2>4, <3>1 DEF Leased
      <3>3. Owed' = Owed BY <2>2, <3>2, OwedKept DEF LiveScopes, LiveClaims
      <3> QED BY <1>0, <2>2, <2>4, <3>1, <3>3 DEF Leased, LeaseStep
    <2> QED BY <2>3, <2>4
  <1>9. CASE StartTeardown
    BY <1>2, <1>9, <1>a, ConstantsDistinct DEF StartTeardown, Keys, scopeVars
  <1>10. CASE \E e \in Entries : Discharge(e) \/ AttemptSucceeds(e)
    <2>1. PICK e \in Entries : Discharge(e) \/ AttemptSucceeds(e) BY <1>10
    <2>2. CASE e \in Registered
      BY <1>3, <2>1, <2>2 DEF Discharge, AttemptSucceeds, AttemptOver, scopeVars, shutdownVars
    <2>3. CASE e \notin Registered
      BY <1>1, <2>1, <2>3 DEF Discharge, AttemptSucceeds, AttemptOver, Without, scopeVars
    <2> QED BY <2>2, <2>3
  <1>11. CASE TeardownReturns
    <2>1. GateEntry \in Registered BY <1>0, <1>11 DEF TeardownReturns, Retention
    <2> QED BY <1>3, <1>11, <2>1 DEF TeardownReturns, scopeVars
  <1>12. CASE Shutdown
    <2>1. /\ state = "running" /\ state' = "shutting-down" /\ ~released /\ ~teardownComplete
          /\ UNCHANGED <<teardownComplete, orphans, released>>
      BY <1>0, <1>12, <1>a DEF Shutdown, Concluded, TypeOK
    <2>2. LiveScopes' = LiveScopes /\ LiveClaims' = LiveClaims /\ Registered' = Registered
      BY <1>12 DEF Shutdown, LiveScopes, LiveClaims, Registered, scopeVars, obligationVars
    <2>3. Owed' = Owed \cup {<<"shutdown", None>>}
      BY <2>1, <2>2 DEF Owed
    <2> QED BY <1>0, <2>1, <2>3 DEF Leased, LeaseStep, Lease!Next, Lease!Drain
  <1>13. CASE Answer
    <2>1. /\ state = "shutting-down" /\ state' = state /\ ~released /\ ~teardownComplete
          /\ teardownComplete' /\ orphans' = orphans /\ Evaluate
      BY <1>0, <1>13, <1>a DEF Answer, Concluded, TypeOK
    <2>2. LiveScopes' = LiveScopes /\ LiveClaims' = LiveClaims /\ Registered' = Registered
      BY <1>13 DEF Answer, LiveScopes, LiveClaims, Registered, scopeVars, obligationVars
    <2>3. Owed' = Owed \ {<<"shutdown", None>>} /\ <<"shutdown", None>> \in Owed
      BY <2>1, <2>2 DEF Owed
    <2> QED BY <1>0, <2>1, <2>3, LeaseFinishes
  <1>14. CASE \/ \E c \in Claims : JoinExclusive(c) \/ JoinSettles(c)
              \/ \E e \in Entries : \/ Prove(e) \/ StartAttempt(e)
                                    \/ AttemptFails(e) \/ SweepAttempts(e)
              \/ \E d \in Teardowns : Arm(d)
              \/ JoinAllSettles \/ TeardownThrows
    BY <1>1, <1>14
    DEF JoinExclusive, JoinSettles, Prove, StartAttempt, AttemptFails, AttemptOver,
        SweepAttempts, Arm, JoinAllSettles, TeardownThrows, scopeVars, obligationVars,
        shutdownVars
  <1>15. CASE UNCHANGED vars
    BY <1>1, <1>15 DEF vars, scopeVars, obligationVars, shutdownVars
  <1> QED
    BY <1>4, <1>5, <1>6, <1>7, <1>8, <1>9, <1>10, <1>11, <1>12, <1>13, <1>14, <1>15 DEF Next

\* The coordinator implements the lease of LockLease.tla: the lock of
\* src/core/single-instance.ts is held for as long as anything of this process
\* is owed and shutdown has not answered, and goes in the step that settles the
\* last of it.
THEOREM ImplementsLease == Spec => LeaseSpec
  <1>1. Init => ReleaseInv /\ Leased
    BY TypedInit, RetentionInit, ConcludedInit, LeasedInit DEF ReleaseInv
  <1>2. (ReleaseInv /\ Leased) /\ [Next]_vars => (ReleaseInv /\ Leased)'
    BY ReleaseInvStep, LeasedStep
  <1>3. ReleaseInv /\ Leased /\ [Next]_vars => [Lease!Next]_(Lease!vars)
    BY LeasedStep DEF LeaseStep, Lease!vars
  <1>4. Init => Lease!Init
    BY ConstantsDistinct DEF Init, Lease!Init, Owed, LiveScopes, LiveClaims, Registered
  <1> QED BY <1>1, <1>2, <1>3, <1>4, PTL DEF Spec, LeaseSpec, Lease!Spec

-----------------------------------------------------------------------------
(* The lock itself, SingleInstance, whose release is what the coordinator   *)
(* decides: one live process holds it for any set of pids, however they are *)
(* reused and whoever starts or dies when, unless a starter that has been    *)
(* overtaken takes it away; and one that let go of it no longer claims to be *)
(* serving.                                                                  *)

Places == Acquiring \cup Owning \cup {"off", "refused", "exhausted", "over"}

\* A process that is acquiring the lock has an attempt left.
LockTyped ==
    /\ LockTypeOK
    /\ \A p \in Procs : pc[p] \in Acquiring => attempt[p] > 0

\* The lock file is its holder's until somebody takes it away.  A starter that has
\* read it and was not overtaken has read what is there, and goes on to remove it
\* only when that is no holder's.
Alone ==
    /\ \A p \in Procs : pc[p] \in Acquiring \cup Owning => p \in alive
    /\ \A p \in Holders \ robbed : lock = [creator |-> p, written |-> pc[p] # "created"]
    /\ \A p \in Procs \ overtaken :
          /\ pc[p] \in {"judge", "reclaim"} =>
                holder[p] \in Procs /\ lock = [creator |-> holder[p], written |-> TRUE]
          /\ pc[p] = "reclaim" => holder[p] \notin Holders \ robbed

\* A teardown has taken the status file away, or finds out after the publication
\* that it has to be retracted; a marker belongs to a publication that has not been
\* checked yet, or to a start that was served.
Cleared ==
    /\ \A p \in Procs :
          /\ pc[p] = "off" => p \notin alive \cup token /\ clearing[p] = "unarmed"
          /\ clearing[p] \notin {"unarmed", "idle"} => p \in shutting
    /\ \A p \in alive :
          pc[p] \in {"unlink", "over"} => clearing[p] \in {"unarmed", "done"}
    /\ \A p \in alive \ Failing :
          /\ clearing[p] = "done" /\ pc[p] \notin {"token", "check", "retract", "matched"} => ready # p
          /\ p \in token => p \in served \/ pc[p] \in {"check", "retract", "matched", "unmark"}

-----------------------------------------------------------------------------
(* Each action, for the three parts.                                        *)

LEMMA LockFileIs ==
    ASSUME NEW p \in Procs, NEW w \in BOOLEAN
    PROVE  [creator |-> p, written |-> w] \in LockFiles /\ [creator |-> p, written |-> w] # Nobody
<1>1. [creator |-> p, written |-> w] \in LockFiles
  BY DEF LockFiles
<1> QED
  BY <1>1, NobodyIsNoFile

LEMMA WrittenIs ==
    ASSUME NEW p, NEW w, NEW v
    PROVE  [[creator |-> p, written |-> w] EXCEPT !.written = v] = [creator |-> p, written |-> v]
  OBVIOUS

\* Whose turn it is goes somewhere, and nobody else moves.
LEMMA GotoIs ==
    ASSUME LockTyped, NEW p \in Procs, NEW l \in Places, Goto(p, l)
    PROVE  pc' \in [Procs -> Places] /\ pc'[p] = l /\ \A q \in Procs \ {p} : pc'[q] = pc[q]
  BY DEF Goto, LockTyped, LockTypeOK, Places

LEMMA LockTypedStep == LockTyped /\ [LockNext]_lockVars => LockTyped'
<1> SUFFICES ASSUME LockTyped, [LockNext]_lockVars PROVE LockTyped'
  OBVIOUS
<1> USE ProcsAssumption
<1>1. ASSUME NEW p \in Procs, Launch(p) PROVE LockTyped'
  BY <1>1 DEF Launch, Goto, Forget, history, LockRemoved, LockTyped, LockTypeOK, LockFiles,
     Acquiring, Owning, Scoped, Attempts, Readable
<1>2. ASSUME NEW p \in Procs, Exit(p) PROVE LockTyped'
  BY <1>2 DEF Exit, Goto, Forget, history, LockRemoved, LockTyped, LockTypeOK, LockFiles,
     Acquiring, Owning, Scoped, Attempts, Readable
<1>3. ASSUME NEW p \in Procs, Create(p) PROVE LockTyped'
  <2>1. lock' \in LockFiles \cup {Nobody}
    <3>1. [creator |-> p, written |-> FALSE] \in LockFiles
      BY DEF LockFiles
    <3> QED
      BY <1>3, <3>1 DEF Create, LockTyped, LockTypeOK
  <2>2. pc' \in [Procs -> Places] /\ \A q \in Procs : pc'[q] \in Acquiring => q = p \/ pc[q] \in Acquiring
    BY <1>3, GotoIs DEF Create, Places, Acquiring, Owning, Scoped
  <2>3. pc[p] \in Acquiring
    BY <1>3 DEF Create, Acquiring
  <2> QED
    BY <1>3, <2>1, <2>2, <2>3 DEF Create, history, LockTyped, LockTypeOK, Places
<1>4. ASSUME NEW p \in Procs, WritePid(p) PROVE LockTyped'
  <2>1. lock' \in LockFiles \cup {Nobody}
    BY <1>4 DEF WritePid, LockTyped, LockTypeOK, LockFiles
  <2>2. pc' \in [Procs -> Places] /\ pc'[p] = "starting" /\ \A q \in Procs \ {p} : pc'[q] = pc[q]
    BY <1>4, GotoIs DEF WritePid, Places, Acquiring, Owning, Scoped
  <2>3. /\ attempt' \in [Procs -> 0 .. Attempts] /\ holder' \in [Procs -> Procs \cup {Nobody}]
        /\ \A q \in Procs \ {p} : attempt'[q] = attempt[q]
    BY <1>4 DEF WritePid, Forget, LockTyped, LockTypeOK, Attempts
  <2>4. LockTypeOK'
    BY <1>4, <2>1, <2>2, <2>3 DEF WritePid, Forget, LockTyped, LockTypeOK, Places
  <2>5. \A q \in Procs : pc'[q] \in Acquiring => q # p /\ pc[q] \in Acquiring
    BY <2>2 DEF Acquiring
  <2> QED
    BY <2>3, <2>4, <2>5 DEF LockTyped
<1>5. ASSUME NEW p \in Procs, ReadHolder(p) PROVE LockTyped'
  BY <1>5 DEF ReadHolder, Goto, Forget, history, LockRemoved, LockTyped, LockTypeOK,
     LockFiles, Acquiring, Owning, Scoped, Attempts, Readable
<1>6. ASSUME NEW p \in Procs, Judge(p) PROVE LockTyped'
  BY <1>6 DEF Judge, Goto, Forget, history, LockRemoved, LockTyped, LockTypeOK, LockFiles,
     Acquiring, Owning, Scoped, Attempts, Readable
<1>7. ASSUME NEW p \in Procs, Reclaim(p) PROVE LockTyped'
  BY <1>7 DEF Reclaim, Goto, Forget, history, LockRemoved, LockTyped, LockTypeOK, LockFiles,
     Acquiring, Owning, Scoped, Attempts, Readable
<1>8. ASSUME NEW p \in Procs, Arms(p) PROVE LockTyped'
  BY <1>8 DEF Arms, Goto, Forget, history, LockRemoved, LockTyped, LockTypeOK, LockFiles,
     Acquiring, Owning, Scoped, Attempts, Readable
<1>9. ASSUME NEW p \in Procs, StartSettles(p) PROVE LockTyped'
  BY <1>9 DEF StartSettles, Goto, Forget, history, LockRemoved, LockTyped, LockTypeOK,
     LockFiles, Acquiring, Owning, Scoped, Attempts, Readable
<1>10. ASSUME NEW p \in Procs, StartFails(p) PROVE LockTyped'
  BY <1>10 DEF StartFails, Goto, Forget, history, LockRemoved, LockTyped, LockTypeOK,
     LockFiles, Acquiring, Owning, Scoped, Attempts, Readable
<1>11. ASSUME NEW p \in Procs, PublishFails(p) PROVE LockTyped'
  BY <1>11 DEF PublishFails, Goto, Forget, history, LockRemoved, LockTyped, LockTypeOK,
     LockFiles, Acquiring, Owning, Scoped, Attempts, Readable
<1>12. ASSUME NEW p \in Procs, PublishStatus(p) PROVE LockTyped'
  BY <1>12 DEF PublishStatus, Goto, Forget, history, LockRemoved, LockTyped, LockTypeOK,
     LockFiles, Acquiring, Owning, Scoped, Attempts, Readable
<1>13. ASSUME NEW p \in Procs, PublishToken(p) PROVE LockTyped'
  BY <1>13 DEF PublishToken, Goto, Forget, history, LockRemoved, LockTyped, LockTypeOK,
     LockFiles, Acquiring, Owning, Scoped, Attempts, Readable
<1>14. ASSUME NEW p \in Procs, Check(p) PROVE LockTyped'
  BY <1>14 DEF Check, Goto, Forget, history, LockRemoved, LockTyped, LockTypeOK, LockFiles,
     Acquiring, Owning, Scoped, Attempts, Readable
<1>15. ASSUME NEW p \in Procs, RetractReads(p) PROVE LockTyped'
  BY <1>15 DEF RetractReads, Goto, Forget, history, LockRemoved, LockTyped, LockTypeOK,
     LockFiles, Acquiring, Owning, Scoped, Attempts, Readable
<1>16. ASSUME NEW p \in Procs, RetractStatus(p) PROVE LockTyped'
  BY <1>16 DEF RetractStatus, Goto, Forget, history, LockRemoved, LockTyped, LockTypeOK,
     LockFiles, Acquiring, Owning, Scoped, Attempts, Readable
<1>17. ASSUME NEW p \in Procs, RetractToken(p) PROVE LockTyped'
  BY <1>17 DEF RetractToken, Goto, Forget, history, LockRemoved, LockTyped, LockTypeOK,
     LockFiles, Acquiring, Owning, Scoped, Attempts, Readable
<1>18. ASSUME NEW p \in Procs, RetractFails(p) PROVE LockTyped'
  BY <1>18 DEF RetractFails, Goto, Forget, history, LockRemoved, LockTyped, LockTypeOK,
     LockFiles, Acquiring, Owning, Scoped, Attempts, Readable
<1>19. ASSUME NEW p \in Procs, ShutdownBegins(p) PROVE LockTyped'
  BY <1>19 DEF ShutdownBegins, Goto, Forget, history, LockRemoved, LockTyped, LockTypeOK,
     LockFiles, Acquiring, Owning, Scoped, Attempts, Readable
<1>20. ASSUME NEW p \in Procs, ClearReads(p) PROVE LockTyped'
  BY <1>20 DEF ClearReads, Goto, Forget, history, LockRemoved, LockTyped, LockTypeOK,
     LockFiles, Acquiring, Owning, Scoped, Attempts, Readable
<1>21. ASSUME NEW p \in Procs, ClearRemoves(p) PROVE LockTyped'
  BY <1>21 DEF ClearRemoves, Goto, Forget, history, LockRemoved, LockTyped, LockTypeOK,
     LockFiles, Acquiring, Owning, Scoped, Attempts, Readable
<1>22. ASSUME NEW p \in Procs, Release(p) PROVE LockTyped'
  BY <1>22 DEF Release, Goto, Forget, history, LockRemoved, LockTyped, LockTypeOK,
     LockFiles, Acquiring, Owning, Scoped, Attempts, Readable
<1>23. ASSUME NEW p \in Procs, Unlink(p) PROVE LockTyped'
  BY <1>23 DEF Unlink, Goto, Forget, history, LockRemoved, LockTyped, LockTypeOK, LockFiles,
     Acquiring, Owning, Scoped, Attempts, Readable
<1>24. CASE UNCHANGED lockVars
  BY <1>24 DEF lockVars, history, LockTyped, LockTypeOK, LockFiles, Acquiring, Owning,
     Scoped, Attempts, Readable
<1> QED
  BY <1>1, <1>2, <1>3, <1>4, <1>5, <1>6, <1>7, <1>8, <1>9, <1>10, <1>11, <1>12, <1>13,
     <1>14, <1>15, <1>16, <1>17, <1>18, <1>19, <1>20, <1>21, <1>22, <1>23, <1>24 DEF
     LockNext, Step

LEMMA AloneStep == LockTyped /\ Alone /\ [LockNext]_lockVars => Alone'
<1> SUFFICES ASSUME LockTyped, Alone, [LockNext]_lockVars PROVE Alone'
  OBVIOUS
<1> USE ProcsAssumption
<1>1. ASSUME NEW p \in Procs, Launch(p) PROVE Alone'
  BY <1>1 DEF Launch, Goto, Forget, history, LockRemoved, LockTyped, LockTypeOK, LockFiles,
     Acquiring, Owning, Scoped, Holders, Alone, Readable
<1>2. ASSUME NEW p \in Procs, Exit(p) PROVE Alone'
  BY <1>2 DEF Exit, Goto, Forget, history, LockRemoved, LockTyped, LockTypeOK, LockFiles,
     Acquiring, Owning, Scoped, Holders, Alone, Readable
<1>3. ASSUME NEW p \in Procs, Create(p) PROVE Alone'
  <2>1. UNCHANGED <<alive, holder, overtaken, robbed>> /\ \A q \in Procs \ {p} : pc'[q] = pc[q]
    BY <1>3, GotoIs DEF Create, history, Places, Acquiring
  <2>2. CASE lock = Nobody
    <3>1. lock' = [creator |-> p, written |-> FALSE] /\ pc'[p] = "created" /\ p \in alive
      BY <1>3, <2>2, GotoIs DEF Create, Places, Acquiring, Alone
    <3>2. Holders \ robbed = {} /\ \A q \in Procs \ overtaken : pc[q] \notin {"judge", "reclaim"}
      <4>1. \A q \in Holders \ robbed : lock # Nobody
        <5>1. Holders \subseteq Procs /\ \A q \in Holders : (pc[q] # "created") \in BOOLEAN
          BY DEF Holders, LockTyped, LockTypeOK
        <5> QED
          BY <5>1, LockFileIs DEF Alone
      <4>2. \A q \in Procs \ overtaken : pc[q] \in {"judge", "reclaim"} => lock # Nobody
        BY LockFileIs DEF Alone
      <4> QED
        BY <2>2, <4>1, <4>2
    <3>3. Holders' \ robbed' \subseteq {p}
      BY <2>1, <3>2 DEF Holders, LockTyped, LockTypeOK
    <3> QED
      BY <2>1, <3>1, <3>2, <3>3 DEF Alone, Acquiring, Owning, Scoped
  <2>3. CASE lock # Nobody
    BY <1>3, <2>1, <2>3, GotoIs DEF Create, Alone, Places, Acquiring, Owning, Scoped, Holders,
       LockTyped, LockTypeOK
  <2> QED
    BY <2>2, <2>3
<1>4. ASSUME NEW p \in Procs, WritePid(p) PROVE Alone'
  <2>1. /\ UNCHANGED <<alive, robbed>> /\ overtaken' = overtaken \ {p}
        /\ pc[p] = "created" /\ pc'[p] = "starting"
        /\ \A q \in Procs \ {p} : pc'[q] = pc[q] /\ holder'[q] = holder[q]
    BY <1>4, GotoIs DEF WritePid, Forget, Places, Owning, Scoped, LockTyped, LockTypeOK
  <2>2. Holders' = Holders
    BY <2>1 DEF Holders, Owning, Scoped, LockTyped, LockTypeOK
  <2>3. \A w \in BOOLEAN : lock = [creator |-> p, written |-> w] => lock' = [creator |-> p, written |-> TRUE]
    <3>1. ASSUME NEW w \in BOOLEAN, lock = [creator |-> p, written |-> w]
          PROVE  lock' = [creator |-> p, written |-> TRUE]
      <4>1. lock # Nobody /\ lock.creator = p
        BY <3>1, LockFileIs
      <4>2. lock' = [lock EXCEPT !.written = TRUE]
        BY <1>4, <4>1 DEF WritePid
      <4>3. [[creator |-> p, written |-> w] EXCEPT !.written = TRUE] = [creator |-> p, written |-> TRUE]
        BY WrittenIs
      <4> QED
        BY <3>1, <4>2, <4>3
    <3> QED
      BY <3>1
  <2>4. \A c, w : lock = [creator |-> c, written |-> w] /\ c # p => lock' = lock
    BY <1>4 DEF WritePid
  <2>5. ASSUME NEW q \in Holders' \ robbed'
        PROVE  lock' = [creator |-> q, written |-> pc'[q] # "created"]
    <3>1. q \in Holders \ robbed /\ lock = [creator |-> q, written |-> pc[q] # "created"]
      BY <2>1, <2>2 DEF Alone
    <3>2. CASE q = p
      <4>1. (pc[q] # "created") = FALSE /\ (pc'[q] # "created") = TRUE
        BY <2>1, <3>2
      <4> QED
        BY <2>3, <3>1, <3>2, <4>1
    <3>3. CASE q # p
      <4>1. pc'[q] = pc[q]
        BY <2>1, <3>1, <3>3 DEF Holders, LockTyped, LockTypeOK
      <4> QED
        BY <2>4, <3>1, <3>3, <4>1
    <3> QED
      BY <3>2, <3>3
  <2>6. \A q \in Procs \ overtaken' : pc'[q] \in {"judge", "reclaim"} =>
            holder'[q] \in Procs /\ lock' = [creator |-> holder'[q], written |-> TRUE]
    BY <2>1, <2>3, <2>4 DEF Alone
  <2> QED
    BY <2>1, <2>2, <2>5, <2>6 DEF Alone, Acquiring, Owning, Scoped
<1>5. ASSUME NEW p \in Procs, ReadHolder(p) PROVE Alone'
  BY <1>5 DEF ReadHolder, Goto, Forget, history, LockRemoved, LockTyped, LockTypeOK,
     LockFiles, Acquiring, Owning, Scoped, Holders, Alone, Readable
<1>6. ASSUME NEW p \in Procs, Judge(p) PROVE Alone'
  BY <1>6 DEF Judge, Goto, Forget, history, LockRemoved, LockTyped, LockTypeOK, LockFiles,
     Acquiring, Owning, Scoped, Holders, Alone, Readable
<1>7. ASSUME NEW p \in Procs, Reclaim(p) PROVE Alone'
  BY <1>7 DEF Reclaim, Goto, Forget, history, LockRemoved, LockTyped, LockTypeOK, LockFiles,
     Acquiring, Owning, Scoped, Holders, Alone, Readable
<1>8. ASSUME NEW p \in Procs, Arms(p) PROVE Alone'
  BY <1>8 DEF Arms, Goto, Forget, history, LockRemoved, LockTyped, LockTypeOK, LockFiles,
     Acquiring, Owning, Scoped, Holders, Alone, Readable
<1>9. ASSUME NEW p \in Procs, StartSettles(p) PROVE Alone'
  BY <1>9 DEF StartSettles, Goto, Forget, history, LockRemoved, LockTyped, LockTypeOK,
     LockFiles, Acquiring, Owning, Scoped, Holders, Alone, Readable
<1>10. ASSUME NEW p \in Procs, StartFails(p) PROVE Alone'
  BY <1>10 DEF StartFails, Goto, Forget, history, LockRemoved, LockTyped, LockTypeOK,
     LockFiles, Acquiring, Owning, Scoped, Holders, Alone, Readable
<1>11. ASSUME NEW p \in Procs, PublishFails(p) PROVE Alone'
  BY <1>11 DEF PublishFails, Goto, Forget, history, LockRemoved, LockTyped, LockTypeOK,
     LockFiles, Acquiring, Owning, Scoped, Holders, Alone, Readable
<1>12. ASSUME NEW p \in Procs, PublishStatus(p) PROVE Alone'
  BY <1>12 DEF PublishStatus, Goto, Forget, history, LockRemoved, LockTyped, LockTypeOK,
     LockFiles, Acquiring, Owning, Scoped, Holders, Alone, Readable
<1>13. ASSUME NEW p \in Procs, PublishToken(p) PROVE Alone'
  BY <1>13 DEF PublishToken, Goto, Forget, history, LockRemoved, LockTyped, LockTypeOK,
     LockFiles, Acquiring, Owning, Scoped, Holders, Alone, Readable
<1>14. ASSUME NEW p \in Procs, Check(p) PROVE Alone'
  BY <1>14 DEF Check, Goto, Forget, history, LockRemoved, LockTyped, LockTypeOK, LockFiles,
     Acquiring, Owning, Scoped, Holders, Alone, Readable
<1>15. ASSUME NEW p \in Procs, RetractReads(p) PROVE Alone'
  BY <1>15 DEF RetractReads, Goto, Forget, history, LockRemoved, LockTyped, LockTypeOK,
     LockFiles, Acquiring, Owning, Scoped, Holders, Alone, Readable
<1>16. ASSUME NEW p \in Procs, RetractStatus(p) PROVE Alone'
  BY <1>16 DEF RetractStatus, Goto, Forget, history, LockRemoved, LockTyped, LockTypeOK,
     LockFiles, Acquiring, Owning, Scoped, Holders, Alone, Readable
<1>17. ASSUME NEW p \in Procs, RetractToken(p) PROVE Alone'
  BY <1>17 DEF RetractToken, Goto, Forget, history, LockRemoved, LockTyped, LockTypeOK,
     LockFiles, Acquiring, Owning, Scoped, Holders, Alone, Readable
<1>18. ASSUME NEW p \in Procs, RetractFails(p) PROVE Alone'
  BY <1>18 DEF RetractFails, Goto, Forget, history, LockRemoved, LockTyped, LockTypeOK,
     LockFiles, Acquiring, Owning, Scoped, Holders, Alone, Readable
<1>19. ASSUME NEW p \in Procs, ShutdownBegins(p) PROVE Alone'
  BY <1>19 DEF ShutdownBegins, Goto, Forget, history, LockRemoved, LockTyped, LockTypeOK,
     LockFiles, Acquiring, Owning, Scoped, Holders, Alone, Readable
<1>20. ASSUME NEW p \in Procs, ClearReads(p) PROVE Alone'
  BY <1>20 DEF ClearReads, Goto, Forget, history, LockRemoved, LockTyped, LockTypeOK,
     LockFiles, Acquiring, Owning, Scoped, Holders, Alone, Readable
<1>21. ASSUME NEW p \in Procs, ClearRemoves(p) PROVE Alone'
  BY <1>21 DEF ClearRemoves, Goto, Forget, history, LockRemoved, LockTyped, LockTypeOK,
     LockFiles, Acquiring, Owning, Scoped, Holders, Alone, Readable
<1>22. ASSUME NEW p \in Procs, Release(p) PROVE Alone'
  BY <1>22 DEF Release, Goto, Forget, history, LockRemoved, LockTyped, LockTypeOK,
     LockFiles, Acquiring, Owning, Scoped, Holders, Alone, Readable
<1>23. ASSUME NEW p \in Procs, Unlink(p) PROVE Alone'
  BY <1>23 DEF Unlink, Goto, Forget, history, LockRemoved, LockTyped, LockTypeOK, LockFiles,
     Acquiring, Owning, Scoped, Holders, Alone, Readable
<1>24. CASE UNCHANGED lockVars
  BY <1>24 DEF lockVars, history, LockTyped, LockTypeOK, LockFiles, Acquiring, Owning,
     Scoped, Holders, Alone, Readable
<1> QED
  BY <1>1, <1>2, <1>3, <1>4, <1>5, <1>6, <1>7, <1>8, <1>9, <1>10, <1>11, <1>12, <1>13,
     <1>14, <1>15, <1>16, <1>17, <1>18, <1>19, <1>20, <1>21, <1>22, <1>23, <1>24 DEF
     LockNext, Step

LEMMA ClearedStep == LockTyped /\ Cleared /\ [LockNext]_lockVars => Cleared'
<1> SUFFICES ASSUME LockTyped, Cleared, [LockNext]_lockVars PROVE Cleared'
  OBVIOUS
<1> USE ProcsAssumption
<1>1. ASSUME NEW p \in Procs, Launch(p) PROVE Cleared'
  BY <1>1 DEF Launch, Goto, Forget, history, LockRemoved, LockTyped, LockTypeOK, LockFiles,
     Acquiring, Owning, Scoped, Cleared
<1>2. ASSUME NEW p \in Procs, Exit(p) PROVE Cleared'
  BY <1>2 DEF Exit, Goto, Forget, history, LockRemoved, LockTyped, LockTypeOK, LockFiles,
     Acquiring, Owning, Scoped, Cleared
<1>3. ASSUME NEW p \in Procs, Create(p) PROVE Cleared'
  BY <1>3 DEF Create, Goto, Forget, history, LockRemoved, LockTyped, LockTypeOK, LockFiles,
     Acquiring, Owning, Scoped, Cleared
<1>4. ASSUME NEW p \in Procs, WritePid(p) PROVE Cleared'
  BY <1>4 DEF WritePid, Goto, Forget, history, LockRemoved, LockTyped, LockTypeOK,
     LockFiles, Acquiring, Owning, Scoped, Cleared
<1>5. ASSUME NEW p \in Procs, ReadHolder(p) PROVE Cleared'
  BY <1>5 DEF ReadHolder, Goto, Forget, history, LockRemoved, LockTyped, LockTypeOK,
     LockFiles, Acquiring, Owning, Scoped, Cleared
<1>6. ASSUME NEW p \in Procs, Judge(p) PROVE Cleared'
  BY <1>6 DEF Judge, Goto, Forget, history, LockRemoved, LockTyped, LockTypeOK, LockFiles,
     Acquiring, Owning, Scoped, Cleared
<1>7. ASSUME NEW p \in Procs, Reclaim(p) PROVE Cleared'
  BY <1>7 DEF Reclaim, Goto, Forget, history, LockRemoved, LockTyped, LockTypeOK, LockFiles,
     Acquiring, Owning, Scoped, Cleared
<1>8. ASSUME NEW p \in Procs, Arms(p) PROVE Cleared'
  BY <1>8 DEF Arms, Goto, Forget, history, LockRemoved, LockTyped, LockTypeOK, LockFiles,
     Acquiring, Owning, Scoped, Cleared
<1>9. ASSUME NEW p \in Procs, StartSettles(p) PROVE Cleared'
  BY <1>9 DEF StartSettles, Goto, Forget, history, LockRemoved, LockTyped, LockTypeOK,
     LockFiles, Acquiring, Owning, Scoped, Cleared
<1>10. ASSUME NEW p \in Procs, StartFails(p) PROVE Cleared'
  BY <1>10 DEF StartFails, Goto, Forget, history, LockRemoved, LockTyped, LockTypeOK,
     LockFiles, Acquiring, Owning, Scoped, Cleared
<1>11. ASSUME NEW p \in Procs, PublishFails(p) PROVE Cleared'
  BY <1>11 DEF PublishFails, Goto, Forget, history, LockRemoved, LockTyped, LockTypeOK,
     LockFiles, Acquiring, Owning, Scoped, Cleared
<1>12. ASSUME NEW p \in Procs, PublishStatus(p) PROVE Cleared'
  BY <1>12 DEF PublishStatus, Goto, Forget, history, LockRemoved, LockTyped, LockTypeOK,
     LockFiles, Acquiring, Owning, Scoped, Cleared
<1>13. ASSUME NEW p \in Procs, PublishToken(p) PROVE Cleared'
  BY <1>13 DEF PublishToken, Goto, Forget, history, LockRemoved, LockTyped, LockTypeOK,
     LockFiles, Acquiring, Owning, Scoped, Cleared
<1>14. ASSUME NEW p \in Procs, Check(p) PROVE Cleared'
  BY <1>14 DEF Check, Goto, Forget, history, LockRemoved, LockTyped, LockTypeOK, LockFiles,
     Acquiring, Owning, Scoped, Cleared
<1>15. ASSUME NEW p \in Procs, RetractReads(p) PROVE Cleared'
  BY <1>15 DEF RetractReads, Goto, Forget, history, LockRemoved, LockTyped, LockTypeOK,
     LockFiles, Acquiring, Owning, Scoped, Cleared
<1>16. ASSUME NEW p \in Procs, RetractStatus(p) PROVE Cleared'
  BY <1>16 DEF RetractStatus, Goto, Forget, history, LockRemoved, LockTyped, LockTypeOK,
     LockFiles, Acquiring, Owning, Scoped, Cleared
<1>17. ASSUME NEW p \in Procs, RetractToken(p) PROVE Cleared'
  BY <1>17 DEF RetractToken, Goto, Forget, history, LockRemoved, LockTyped, LockTypeOK,
     LockFiles, Acquiring, Owning, Scoped, Cleared
<1>18. ASSUME NEW p \in Procs, RetractFails(p) PROVE Cleared'
  BY <1>18 DEF RetractFails, Goto, Forget, history, LockRemoved, LockTyped, LockTypeOK,
     LockFiles, Acquiring, Owning, Scoped, Cleared
<1>19. ASSUME NEW p \in Procs, ShutdownBegins(p) PROVE Cleared'
  BY <1>19 DEF ShutdownBegins, Goto, Forget, history, LockRemoved, LockTyped, LockTypeOK,
     LockFiles, Acquiring, Owning, Scoped, Cleared
<1>20. ASSUME NEW p \in Procs, ClearReads(p) PROVE Cleared'
  BY <1>20 DEF ClearReads, Goto, Forget, history, LockRemoved, LockTyped, LockTypeOK,
     LockFiles, Acquiring, Owning, Scoped, Cleared
<1>21. ASSUME NEW p \in Procs, ClearRemoves(p) PROVE Cleared'
  BY <1>21 DEF ClearRemoves, Goto, Forget, history, LockRemoved, LockTyped, LockTypeOK,
     LockFiles, Acquiring, Owning, Scoped, Cleared
<1>22. ASSUME NEW p \in Procs, Release(p) PROVE Cleared'
  BY <1>22 DEF Release, Goto, Forget, history, LockRemoved, LockTyped, LockTypeOK,
     LockFiles, Acquiring, Owning, Scoped, Cleared
<1>23. ASSUME NEW p \in Procs, Unlink(p) PROVE Cleared'
  BY <1>23 DEF Unlink, Goto, Forget, history, LockRemoved, LockTyped, LockTypeOK, LockFiles,
     Acquiring, Owning, Scoped, Cleared
<1>24. CASE UNCHANGED lockVars
  BY <1>24 DEF lockVars, history, LockTyped, LockTypeOK, LockFiles, Acquiring, Owning,
     Scoped, Cleared
<1> QED
  BY <1>1, <1>2, <1>3, <1>4, <1>5, <1>6, <1>7, <1>8, <1>9, <1>10, <1>11, <1>12, <1>13,
     <1>14, <1>15, <1>16, <1>17, <1>18, <1>19, <1>20, <1>21, <1>22, <1>23, <1>24 DEF
     LockNext, Step

-----------------------------------------------------------------------------
(* The theorems.                                                            *)

LEMMA LockInitHolds == LockInit => LockTyped /\ Alone /\ Cleared
<1> USE ProcsAssumption
<1>1. LockInit => LockTyped
  BY DEF LockInit, LockTyped, LockTypeOK, Attempts, Acquiring
<1>2. LockInit => Alone
  BY DEF LockInit, Alone, Acquiring, Owning, Scoped, Holders
<1>3. LockInit => Cleared
  BY DEF LockInit, Cleared
<1> QED
  BY <1>1, <1>2, <1>3

\* Every variable keeps to its type, and no process that is still acquiring the
\* lock has used up both attempts of acquireSingleInstanceLock.
THEOREM LockTypeCorrect == LockSpec => []LockTyped
<1> QED
  BY LockInitHolds, LockTypedStep, PTL DEF LockSpec

\* acquireSingleInstanceLock with the release of the coordinator: two live
\* processes never own the lock together, unless an overtaken starter took it from
\* one of them.
THEOREM OneInstance == LockSpec => []MutualExclusion
<1>1. LockTypeOK /\ Alone => MutualExclusion
  <2> SUFFICES ASSUME LockTypeOK, Alone, NEW p \in Owners \ robbed, NEW q \in Owners \ robbed
               PROVE  p = q
    BY DEF MutualExclusion
  <2>1. p \in Holders \ robbed /\ q \in Holders \ robbed
    BY DEF Owners, Holders
  <2>2. lock.creator = p /\ lock.creator = q
    BY <2>1 DEF Alone
  <2> QED
    BY <2>2
<1>2. LockTyped => LockTypeOK
  BY DEF LockTyped
<1> QED
  BY <1>1, <1>2, LockInitHolds, AloneStep, LockTypeCorrect, PTL DEF LockSpec

\* publishStartupReady, retractStartupReady and clearStartupReady: a process that
\* has let go of the lock has left neither the status file nor, for a start that
\* was given up, the launcher's marker, however shutdown overtook its publication.
THEOREM NothingClaimed == LockSpec => []NoClaimAfterRelease
<1>1. LockTypeOK /\ Cleared => NoClaimAfterRelease
  BY DEF Cleared, NoClaimAfterRelease
<1>2. LockTyped => LockTypeOK
  BY DEF LockTyped
<1> QED
  BY <1>1, <1>2, LockInitHolds, ClearedStep, LockTypeCorrect, PTL DEF LockSpec

-----------------------------------------------------------------------------
(***************************************************************************)
(* What the updater promises, for any number of instances, updates,        *)
(* crashes and reboots.  Three parts of one invariant: what the updater    *)
(* knows is what the disk has (Known), what is stopped or never ran stays  *)
(* down until the files are whole (Down), and what it has put back stays   *)
(* put back until the record goes (Back).                                  *)
(***************************************************************************)

-----------------------------------------------------------------------------
(* Types. *)

Plans == [Instances -> State \cup {Nothing}]
Stages == {"stopping", "moving", "setup", "building"}

\* What an invocation of the updater carries from stage to stage: all that its
\* steps look up, and only entries that are there.
Fetching ==
    {x \in [pc : {"fetching"}, own : Instances, restart : BOOLEAN,
            live : SUBSET Instances, targets : SUBSET Instances] : x.own \in x.targets}
Planning ==
    {x \in [pc : {"confirming", "saving"}, own : Instances, restart : BOOLEAN, plan : Plans] :
        x.plan[x.own] # Nothing}
Applying ==
    {x \in [pc : Stages, own : Instances, restart : BOOLEAN, plan : Plans,
            left : SUBSET Instances, half : Instances \cup {Nothing}] :
        /\ x.plan[x.own] # Nothing /\ x.left \subseteq DOMAIN x.plan[x.own]
        /\ x.half # Nothing => x.half \in DOMAIN x.plan[x.own]}
Restoring ==
    {x \in [pc : {"restoring", "launching"}, own : Instances \cup {Nothing}, plan : Plans,
            at : Instances, left : SUBSET Instances, child : Instances \cup {Nothing}] :
        /\ x.plan[x.at] # Nothing /\ x.left \subseteq DOMAIN x.plan[x.at]
        /\ x.pc = "launching" => x.child # Nothing}
Invocations == {Idle} \cup Fetching \cup Planning \cup Applying \cup Restoring

UpdateTyped ==
    /\ UpdateTypeOK
    /\ up \in [Updaters -> Invocations]
    /\ updates \in Nat /\ crashes \in Nat

-----------------------------------------------------------------------------
(* The invariant. *)

\* An update has a plan for its own record only.
Only(x) == \A k \in Instances : x.plan[k] # Nothing => k = x.own

\* An update writes its record where none is, and works from what it wrote; a
\* restore works off what is on disk.
Known(u) ==
    /\ up[u].pc \in {"confirming", "saving"} \cup Stages => Only(up[u])
    /\ up[u].pc \in {"fetching", "confirming", "saving"} => saved[up[u].own] = Nothing
    /\ up[u].pc \in Stages => saved[up[u].own] = up[u].plan[up[u].own]
    /\ up[u].pc \in {"restoring", "launching"} =>
          \A k \in Instances : up[u].plan[k] # Nothing => saved[k] = up[u].plan[k]

Quiet(i) == ~Live(i) /\ ~active[i]
Stopped(i) == ~active[i] /\ unit[i] # "enabled"

\* Whoever is no target ran nothing when the update began, and has no unit that
\* would start it; a target is stopped for good before it is looked at.
Down(u) ==
    /\ up[u].pc = "fetching" => \A i \in Instances \ up[u].targets : Quiet(i)
    /\ up[u].pc \in {"confirming", "saving"} \cup Stages => \A i \in Instances \ Targets(u) : Quiet(i)
    /\ up[u].pc = "stopping" =>
          \A i \in Targets(u) : i \notin up[u].left \/ i = up[u].half => Stopped(i)
    /\ up[u].pc \in {"moving", "setup", "building"} =>
          \A i \in Targets(u) : Stopped(i) /\ ~Live(i)

TornStaysDown == \A i \in torn : Stopped(i) /\ ~Live(i)

\* What restoring has dealt with is as it was, or a unit is at it.
Back(u) ==
    up[u].pc \in {"restoring", "launching"} =>
        \A i \in DOMAIN Recorded(u) \ up[u].left :
            /\ Recorded(u)[i].enabled => unit[i] = "enabled"
            /\ Recorded(u)[i].ran => IF Recorded(u)[i].enabled THEN active[i] ELSE proc[i] # "stopping"

MarkerIsReady == \A i \in Instances : marker[i] = "own" => proc[i] \in {"ready", "stopping"}

-----------------------------------------------------------------------------
(* What a stage has. *)

LEMMA EntriesOf ==
    ASSUME NEW s \in State
    PROVE  /\ DOMAIN s \subseteq Instances /\ s \in [DOMAIN s -> Entry]
           /\ \A i \in DOMAIN s : s[i] \in Entry /\ s[i].ran \in BOOLEAN /\ s[i].enabled \in BOOLEAN
<1>1. PICK T \in (SUBSET Instances) \ {{}} : s \in [T -> Entry]
  BY DEF State
<1> QED
  BY <1>1 DEF Entry

LEMMA RecordIs ==
    ASSUME NEW T \in SUBSET Instances, T # {}, NEW s \in [T -> Entry]
    PROVE  s \in State
  BY DEF State

LEMMA FetchingIs ==
    ASSUME UpdateTyped, NEW u \in Updaters, At(u, "fetching")
    PROVE  /\ up[u] \in Fetching /\ up[u].own \in Instances /\ up[u].restart \in BOOLEAN
           /\ up[u].live \subseteq Instances /\ up[u].targets \subseteq Instances
           /\ up[u].own \in up[u].targets
  BY DEF UpdateTyped, At, Invocations, Idle, Fetching, Planning, Applying, Restoring, Stages

LEMMA PlanningIs ==
    ASSUME UpdateTyped, NEW u \in Updaters, up[u].pc \in {"confirming", "saving"}
    PROVE  /\ up[u] \in Planning /\ up[u].own \in Instances /\ up[u].restart \in BOOLEAN
           /\ up[u].plan \in Plans /\ up[u].plan[up[u].own] \in State
           /\ Targets(u) \subseteq Instances
<1>1. up[u] \in Planning
  BY DEF UpdateTyped, Invocations, Idle, Fetching, Planning, Applying, Restoring, Stages
<1>2. /\ up[u].own \in Instances /\ up[u].restart \in BOOLEAN
      /\ up[u].plan \in Plans /\ up[u].plan[up[u].own] \in State
  BY <1>1 DEF Planning, Plans
<1> QED
  BY <1>1, <1>2, EntriesOf DEF Targets

LEMMA ApplyingIs ==
    ASSUME UpdateTyped, NEW u \in Updaters, up[u].pc \in Stages
    PROVE  /\ up[u] \in Applying /\ up[u].own \in Instances /\ up[u].restart \in BOOLEAN
           /\ up[u].plan \in Plans /\ up[u].plan[up[u].own] \in State
           /\ Targets(u) \subseteq Instances /\ up[u].left \subseteq Targets(u)
           /\ up[u].half # Nothing => up[u].half \in Targets(u)
<1>1. up[u] \in Applying
  BY DEF UpdateTyped, Invocations, Idle, Fetching, Planning, Applying, Restoring, Stages
<1>2. /\ up[u].own \in Instances /\ up[u].restart \in BOOLEAN
      /\ up[u].plan \in Plans /\ up[u].plan[up[u].own] \in State
  BY <1>1 DEF Applying, Plans
<1>3. up[u].left \subseteq Targets(u) /\ (up[u].half # Nothing => up[u].half \in Targets(u))
  BY <1>1 DEF Applying, Targets
<1> QED
  BY <1>1, <1>2, <1>3, EntriesOf DEF Targets

LEMMA RestoringIs ==
    ASSUME UpdateTyped, NEW u \in Updaters, up[u].pc \in {"restoring", "launching"}
    PROVE  /\ up[u] \in Restoring /\ up[u].own \in Instances \cup {Nothing} /\ up[u].at \in Instances
           /\ up[u].plan \in Plans /\ Recorded(u) \in State
           /\ DOMAIN Recorded(u) \subseteq Instances /\ up[u].left \subseteq DOMAIN Recorded(u)
           /\ up[u].pc = "launching" => up[u].child \in Instances
<1>1. up[u] \in Restoring
  BY DEF UpdateTyped, Invocations, Idle, Fetching, Planning, Applying, Restoring, Stages
<1>2. /\ up[u].own \in Instances \cup {Nothing} /\ up[u].at \in Instances
      /\ up[u].plan \in Plans /\ Recorded(u) \in State
  BY <1>1 DEF Restoring, Plans, Recorded
<1>3. up[u].left \subseteq DOMAIN Recorded(u) /\ (up[u].pc = "launching" => up[u].child \in Instances)
  BY <1>1 DEF Restoring, Recorded
<1> QED
  BY <1>1, <1>2, <1>3, EntriesOf

LEMMA UpdateTypedInit == UpdateInit => UpdateTyped
<1> SUFFICES ASSUME UpdateInit PROVE UpdateTyped
  OBVIOUS
<1>1. UpdateTypeOK
  BY DEF UpdateInit, UpdateTypeOK
<1>2. up \in [Updaters -> Invocations]
  BY DEF UpdateInit, Invocations
<1> QED
  BY <1>1, <1>2 DEF UpdateInit, UpdateTyped

-----------------------------------------------------------------------------
(* Each step of an updater: what it carries then.  Nobody else moves.       *)

Becomes(u, x) == up' = [up EXCEPT ![u] = x]

LEMMA BecomesIs ==
    ASSUME UpdateTyped, NEW u \in Updaters, NEW x \in Invocations, Becomes(u, x)
    PROVE  up' \in [Updaters -> Invocations] /\ up'[u] = x /\ \A v \in Updaters \ {u} : up'[v] = up[v]
  BY DEF UpdateTyped, Becomes

LEMMA GoesToIs ==
    ASSUME UpdateTyped, NEW u \in Updaters, NEW p \in Stages, up[u].pc \in Stages, GoesTo(u, p)
    PROVE  \E x \in Applying :
              /\ Becomes(u, x) /\ x.pc = p /\ x.own = up[u].own /\ x.plan = up[u].plan
              /\ x.left = up[u].left /\ x.half = up[u].half
<1> DEFINE x == [up[u] EXCEPT !.pc = p]
<1>1. up[u] \in Applying
  BY ApplyingIs
<1>2. x \in Applying /\ x.pc = p /\ x.own = up[u].own /\ x.plan = up[u].plan
        /\ x.left = up[u].left /\ x.half = up[u].half
  BY <1>1 DEF Applying
<1>3. Becomes(u, x)
  BY DEF GoesTo, Becomes, UpdateTyped
<1> QED
  BY <1>2, <1>3

LEMMA IdleIs == Idle \in Invocations /\ Idle.pc = "idle"
  BY DEF Idle, Invocations

\* The idle, fetching and planning stages.
LEMMA PreflightIs ==
    ASSUME UpdateTyped, NEW u \in Updaters, NEW i \in Instances, NEW all \in BOOLEAN, NEW restart \in BOOLEAN,
           Preflight(u, i, all, restart)
    PROVE  \E x \in Fetching :
              /\ Becomes(u, x) /\ x.own = i
              /\ x.targets = {i} \cup IF all THEN LiveInstances ELSE {}
<1> DEFINE x == [pc |-> "fetching", own |-> i, restart |-> restart, live |-> LiveInstances,
                 targets |-> {i} \cup IF all THEN LiveInstances ELSE {}]
<1>1. x \in Fetching
  BY DEF Fetching, LiveInstances
<1>2. Becomes(u, x)
  BY DEF Preflight, Becomes
<1> QED
  BY <1>1, <1>2

LEMMA SnapshotIs ==
    ASSUME UpdateTyped, NEW u \in Updaters, Snapshot(u)
    PROVE  \E x \in Planning :
              /\ Becomes(u, x) /\ x.pc = "confirming" /\ x.own = up[u].own
              /\ DOMAIN x.plan[x.own] = up[u].targets /\ Only(x)
<1> DEFINE entry(i) == [ran |-> i \in up[u].live, enabled |-> unit[i] = "enabled"]
           own == up[u].own
           plan == [k \in Instances |-> IF k = own THEN [i \in up[u].targets |-> entry(i)] ELSE Nothing]
           x == [pc |-> "confirming", own |-> own, restart |-> up[u].restart, plan |-> plan]
<1>1. /\ own \in Instances /\ up[u].restart \in BOOLEAN
      /\ up[u].targets \subseteq Instances /\ own \in up[u].targets
  BY FetchingIs DEF Snapshot
<1>2. [i \in up[u].targets |-> entry(i)] \in [up[u].targets -> Entry]
  BY DEF Entry
<1>3. plan[own] \in State
  BY <1>1, <1>2, RecordIs
<1>4. plan \in Plans
  BY <1>1, <1>3 DEF Plans
<1>5. x \in Planning
  BY <1>1, <1>3, <1>4, NothingIsNoState DEF Planning
<1>6. Becomes(u, x)
  BY DEF Snapshot, Becomes, UpdateTyped
<1>7. DOMAIN plan[own] = up[u].targets /\ Only(x)
  BY <1>1 DEF Only
<1> HIDE DEF plan, entry, own
<1> QED
  BY <1>5, <1>6, <1>7 DEF own

LEMMA AcquireLockIs ==
    ASSUME UpdateTyped, NEW u \in Updaters, AcquireLock(u)
    PROVE  \E x \in Planning :
              Becomes(u, x) /\ x.pc = "saving" /\ x.own = up[u].own /\ x.plan = up[u].plan
<1> DEFINE x == [up[u] EXCEPT !.pc = "saving"]
<1>1. up[u] \in Planning
  BY PlanningIs DEF AcquireLock, At
<1>2. x \in Planning /\ x.pc = "saving" /\ x.own = up[u].own /\ x.plan = up[u].plan
  BY <1>1 DEF Planning
<1>3. Becomes(u, x)
  BY DEF AcquireLock, GoesTo, Becomes, UpdateTyped
<1> QED
  BY <1>2, <1>3

LEMMA WriteStateIs ==
    ASSUME UpdateTyped, NEW u \in Updaters, WriteState(u)
    PROVE  \E x \in Applying :
              /\ Becomes(u, x) /\ x.pc = "stopping" /\ x.own = up[u].own /\ x.plan = up[u].plan
              /\ x.left = Targets(u) /\ x.half = Nothing
<1> DEFINE x == [pc |-> "stopping", own |-> up[u].own, restart |-> up[u].restart, plan |-> up[u].plan,
                 left |-> Targets(u), half |-> Nothing]
<1>1. /\ up[u].own \in Instances /\ up[u].restart \in BOOLEAN
      /\ up[u].plan \in Plans /\ up[u].plan[up[u].own] \in State
      /\ Targets(u) \subseteq Instances
  BY PlanningIs DEF WriteState, At
<1>2. x \in Applying
  BY <1>1, NothingIsNoState DEF Applying, Stages, Targets
<1>3. Becomes(u, x)
  BY DEF WriteState, StopsNext, Becomes, UpdateTyped
<1> QED
  BY <1>2, <1>3

\* Stopping.
LEMMA StopUnitIs ==
    ASSUME UpdateTyped, NEW u \in Updaters, NEW i \in Instances, StopUnit(u, i)
    PROVE  \E x \in Applying :
              /\ Becomes(u, x) /\ x.pc = "stopping" /\ x.own = up[u].own /\ x.plan = up[u].plan
              /\ x.left = up[u].left /\ x.half = i
<1> DEFINE x == [up[u] EXCEPT !.half = i]
<1>1. up[u] \in Applying /\ up[u].pc = "stopping" /\ i \in DOMAIN up[u].plan[up[u].own]
  BY ApplyingIs DEF StopUnit, At, Stages, Targets
<1>2. x \in Applying /\ x.pc = "stopping" /\ x.own = up[u].own /\ x.plan = up[u].plan
        /\ x.left = up[u].left /\ x.half = i
  BY <1>1 DEF Applying
<1>3. Becomes(u, x)
  BY DEF StopUnit, Becomes, UpdateTyped
<1> QED
  BY <1>2, <1>3

LEMMA StopProcessIs ==
    ASSUME UpdateTyped, NEW u \in Updaters, StopProcess(u)
    PROVE  \E x \in Applying :
              /\ Becomes(u, x) /\ x.pc = "stopping" /\ x.own = up[u].own /\ x.plan = up[u].plan
              /\ x.left = up[u].left \ {up[u].half} /\ x.half = Nothing
<1> DEFINE x == [up[u] EXCEPT !.left = @ \ {up[u].half}, !.half = Nothing]
<1>1. up[u] \in Applying /\ up[u].pc = "stopping"
  BY ApplyingIs DEF StopProcess, At, Stages
<1>2. x \in Applying /\ x.pc = "stopping" /\ x.own = up[u].own /\ x.plan = up[u].plan
        /\ x.left = up[u].left \ {up[u].half} /\ x.half = Nothing
  BY <1>1 DEF Applying
<1>3. Becomes(u, x)
  BY DEF StopProcess, Becomes, UpdateTyped
<1> QED
  BY <1>2, <1>3

\* Restoring.
LEMMA RestoresNextIs ==
    ASSUME UpdateTyped, NEW u \in Updaters, up[u].pc \in Stages
    PROVE  RestoresNext(u, up[u].own) \in Restoring
<1>1. /\ up[u].own \in Instances /\ up[u].plan \in Plans /\ up[u].plan[up[u].own] \in State
      /\ Targets(u) \subseteq Instances
  BY ApplyingIs
<1> QED
  BY <1>1, NothingIsNoState DEF RestoresNext, Restoring, Targets

LEMMA RestoreSavedIs ==
    ASSUME UpdateTyped, NEW u \in Updaters, NEW k \in Instances, RestoreSaved(u, k)
    PROVE  \E x \in Restoring :
              Becomes(u, x) /\ x.pc = "restoring" /\ x.plan = saved /\ x.at = k /\ x.left = DOMAIN saved[k]
<1> DEFINE x == [pc |-> "restoring", own |-> Nothing, plan |-> saved, at |-> k, left |-> DOMAIN saved[k],
                 child |-> Nothing]
<1>1. saved \in Plans /\ saved[k] \in State
  BY DEF RestoreSaved, UpdateTyped, UpdateTypeOK, Plans
<1>2. x \in Restoring
  BY <1>1, EntriesOf, NothingIsNoState DEF Restoring
<1>3. Becomes(u, x)
  BY DEF RestoreSaved, Becomes, UpdateTyped
<1> QED
  BY <1>2, <1>3

\* One entry is done: its bot is launched, or not.
LEMMA EntryDoneIs ==
    ASSUME UpdateTyped, NEW u \in Updaters, NEW i \in Instances,
           RestoreResidency(u, i) \/ LeaveDown(u, i) \/ StartInstance(u, i)
    PROVE  \E x \in Restoring :
              /\ Becomes(u, x) /\ x.plan = up[u].plan /\ x.at = up[u].at
              /\ x.left = up[u].left \ {i}
<1> DEFINE x == IF StartInstance(u, i) THEN [up[u] EXCEPT !.left = @ \ {i}, !.child = i, !.pc = "launching"]
                ELSE [up[u] EXCEPT !.left = @ \ {i}]
<1>1. up[u] \in Restoring /\ up[u].pc = "restoring"
  BY RestoringIs DEF RestoreResidency, LeaveDown, StartInstance, At
<1>2. CASE StartInstance(u, i)
  <2> DEFINE y == [up[u] EXCEPT !.left = @ \ {i}, !.child = i, !.pc = "launching"]
  <2>1. y \in Restoring /\ y.plan = up[u].plan /\ y.at = up[u].at /\ y.left = up[u].left \ {i}
    BY <1>1, UpdateAssumption DEF Restoring
  <2>2. Becomes(u, y)
    BY <1>2 DEF StartInstance, Becomes, UpdateTyped
  <2> QED
    BY <2>1, <2>2
<1>3. CASE RestoreResidency(u, i) \/ LeaveDown(u, i)
  <2> DEFINE y == [up[u] EXCEPT !.left = @ \ {i}]
  <2>1. y \in Restoring /\ y.plan = up[u].plan /\ y.at = up[u].at /\ y.left = up[u].left \ {i}
    BY <1>1 DEF Restoring
  <2>2. Becomes(u, y)
    BY <1>3 DEF RestoreResidency, LeaveDown, Becomes, UpdateTyped
  <2> QED
    BY <2>1, <2>2
<1> QED
  BY <1>2, <1>3

LEMMA LaunchedIs ==
    ASSUME UpdateTyped, NEW u \in Updaters, Launched(u)
    PROVE  \E x \in Restoring :
              /\ Becomes(u, x) /\ x.plan = up[u].plan /\ x.at = up[u].at
              /\ x.left = up[u].left /\ x.pc = "restoring"
<1> DEFINE x == [up[u] EXCEPT !.pc = "restoring"]
<1>1. up[u] \in Restoring
  BY RestoringIs DEF Launched, At
<1>2. x \in Restoring /\ x.plan = up[u].plan /\ x.at = up[u].at /\ x.left = up[u].left /\ x.pc = "restoring"
  BY <1>1 DEF Restoring
<1>3. Becomes(u, x)
  BY DEF Launched, GoesTo, Becomes, UpdateTyped
<1> QED
  BY <1>2, <1>3

\* The next record, or none is left.
LEMMA ProvedIs ==
    ASSUME UpdateTyped, NEW u \in Updaters, Proved(u)
    PROVE  \/ Becomes(u, Idle)
           \/ \E x \in Restoring :
                 /\ Becomes(u, x) /\ x.plan = [up[u].plan EXCEPT ![up[u].at] = Nothing]
                 /\ x.left = DOMAIN x.plan[x.at]
<1>1. up[u] \in Restoring /\ up[u].plan \in Plans
  BY RestoringIs DEF Proved, At
<1> DEFINE rest == [up[u].plan EXCEPT ![up[u].at] = Nothing]
<1>2. rest \in Plans
  BY <1>1 DEF Plans
<1>3. SUFFICES ASSUME NEW k \in Instances, rest[k] # Nothing,
                      up' = [up EXCEPT ![u].plan = rest, ![u].at = k, ![u].left = DOMAIN rest[k]]
               PROVE  \E x \in Restoring :
                         Becomes(u, x) /\ x.plan = rest /\ x.left = DOMAIN x.plan[x.at]
  BY DEF Proved, Becomes
<1> DEFINE x == [up[u] EXCEPT !.plan = rest, !.at = k, !.left = DOMAIN rest[k]]
<1>4. rest[k] \in State
  BY <1>2, <1>3 DEF Plans
<1>5. DOMAIN rest[k] \subseteq Instances
  BY <1>4, EntriesOf
<1> HIDE DEF rest
<1>6. x \in Restoring /\ x.plan = rest /\ x.left = DOMAIN x.plan[x.at]
  BY <1>1, <1>2, <1>3, <1>5, RestoringIs DEF Restoring, Proved, At
<1>7. Becomes(u, x)
  BY <1>3 DEF Becomes, UpdateTyped
<1> QED
  BY <1>6, <1>7

-----------------------------------------------------------------------------
(* The types. *)

\* A step of an updater that says what it becomes keeps the types of all of them.
LEMMA InvocationsStep ==
    ASSUME UpdateTyped, [UpdateNext]_updateVars
    PROVE  up' \in [Updaters -> Invocations]
<1> USE DEF Invocations
<1>1. CASE UNCHANGED up
  BY <1>1 DEF UpdateTyped
<1>2. ASSUME NEW u \in Updaters, NEW x \in Invocations, Becomes(u, x) PROVE up' \in [Updaters -> Invocations]
  BY <1>2, BecomesIs
<1>3. Idle \in Invocations
  OBVIOUS
<1>4. ASSUME NEW i \in Instances, Environment(i) PROVE UNCHANGED up
  BY <1>4 DEF Environment, BotReady, BotFalls, BotStopped, Respawn, HandStart, HandStop, LockRemovedByHand
<1>5. CASE Reboot
  BY <1>5 DEF Reboot
<1>6. ASSUME NEW u \in Updaters, UpdaterDies(u) PROVE Becomes(u, Idle)
  BY <1>6 DEF UpdaterDies, Becomes
<1>7. ASSUME NEW u \in Updaters, Restores(u) PROVE \E x \in Invocations : Becomes(u, x)
  <2>1. CASE LaunchFails(u)
    BY <2>1, <1>3 DEF LaunchFails, Becomes
  <2>2. CASE Launched(u)
    BY <2>2, LaunchedIs
  <2>3. CASE Proved(u)
    BY <2>3, ProvedIs
  <2>4. ASSUME NEW i \in Instances, RestoreSaved(u, i) PROVE \E x \in Invocations : Becomes(u, x)
    BY <2>4, RestoreSavedIs
  <2>5. ASSUME NEW i \in Instances, RestoreResidency(u, i) \/ LeaveDown(u, i) \/ StartInstance(u, i)
        PROVE  \E x \in Invocations : Becomes(u, x)
    BY <2>5, EntryDoneIs
  <2> QED
    BY <1>7, <2>1, <2>2, <2>3, <2>4, <2>5 DEF Restores
<1>8. ASSUME NEW u \in Updaters, Applies(u) PROVE \E x \in Invocations : Becomes(u, x)
  <2>1. ASSUME NEW i \in Instances, NEW all \in BOOLEAN, NEW restart \in BOOLEAN, Preflight(u, i, all, restart)
        PROVE  \E x \in Invocations : Becomes(u, x)
    BY <2>1, PreflightIs
  <2>2. CASE Snapshot(u)
    BY <2>2, SnapshotIs
  <2>3. CASE Refused(u) \/ Declined(u) \/ LockHeld(u) \/ Fails(u)
    BY <2>3, <1>3 DEF Refused, Declined, LockHeld, Fails, Becomes
  <2>4. CASE AcquireLock(u)
    BY <2>4, AcquireLockIs
  <2>5. CASE WriteState(u)
    BY <2>5, WriteStateIs
  <2>6. ASSUME NEW i \in Instances, StopUnit(u, i) PROVE \E x \in Invocations : Becomes(u, x)
    BY <2>6, StopUnitIs
  <2>7. CASE StopProcess(u)
    BY <2>7, StopProcessIs
  <2>8. CASE Verified(u) \/ ApplySource(u) \/ SetupChecked(u)
    <3>1. PICK p \in Stages : GoesTo(u, p) /\ up[u].pc \in Stages
      BY <2>8 DEF Verified, ApplySource, SetupChecked, Stages, At
    <3> QED
      BY <3>1, GoesToIs
  <2>9. CASE SetupDone(u)
    <3>1. CASE Becomes(u, Idle)
      BY <3>1, <1>3
    <3>2. CASE up' = [up EXCEPT ![u] = RestoresNext(u, up[u].own)]
      <4>1. RestoresNext(u, up[u].own) \in Restoring
        BY <2>9, RestoresNextIs DEF SetupDone, At, Stages
      <4> QED
        BY <3>2, <4>1 DEF Becomes
    <3> QED
      BY <2>9, <3>1, <3>2 DEF SetupDone, Becomes
  <2> QED
    BY <1>8, <2>1, <2>2, <2>3, <2>4, <2>5, <2>6, <2>7, <2>8, <2>9 DEF Applies
<1> QED
  BY <1>1, <1>2, <1>3, <1>4, <1>5, <1>6, <1>7, <1>8 DEF UpdateNext, updateVars

LEMMA UpdateTypeOKStep == UpdateTyped /\ [UpdateNext]_updateVars => UpdateTypeOK'
<1> SUFFICES ASSUME UpdateTyped, [UpdateNext]_updateVars PROVE UpdateTypeOK'
  OBVIOUS
<1> USE DEF UpdateTypeOK
<1>0. UpdateTypeOK
  BY DEF UpdateTyped
<1>1. CASE UNCHANGED updateVars
  BY <1>0, <1>1 DEF updateVars, machine, bots, ghosts, counts
<1>2. ASSUME NEW i \in Instances, Environment(i) PROVE UpdateTypeOK'
  BY <1>0, <1>2 DEF Environment, BotReady, BotFalls, BotStopped, Respawn, HandStart, HandStop, LockRemovedByHand,
     Left, Signalled, ghosts, counts, machine, bots
<1>3. CASE Reboot
  BY <1>0, <1>3 DEF Reboot, Left, ghosts
<1>4. ASSUME NEW u \in Updaters, UpdaterDies(u) PROVE UpdateTypeOK'
  BY <1>0, <1>4 DEF UpdaterDies, ghosts, machine, bots
<1>5. ASSUME NEW u \in Updaters, Restores(u) PROVE UpdateTypeOK'
  <2>1. CASE LaunchFails(u)
    <3>1. up[u].own \in Instances \cup {Nothing} /\ up[u].child \in Instances
      BY <2>1, RestoringIs DEF LaunchFails, At
    <3> QED
      BY <1>0, <2>1, <3>1 DEF LaunchFails, Released, Signalled, ghosts
  <2>2. CASE Launched(u)
    BY <1>0, <2>2 DEF Launched, ghosts, machine, bots
  <2>3. CASE Proved(u)
    <3>1. up[u].own \in Instances \cup {Nothing} /\ up[u].at \in Instances
      BY <2>3, RestoringIs DEF Proved, At
    <3>2. saved' \in [Instances -> State \cup {Nothing}]
      BY <1>0, <2>3, <3>1 DEF Proved
    <3>3. owed' \in [Instances -> Entry \cup {Nothing}]
      BY <1>0, <2>3 DEF Proved, Discharged
    <3>4. locked' \in [Instances -> Updaters \cup {Nothing}]
      BY <1>0, <2>3, <3>1 DEF Proved, Released
    <3> QED
      BY <1>0, <2>3, <3>2, <3>3, <3>4 DEF Proved, machine, bots
  <2>4. ASSUME NEW i \in Instances, RestoreSaved(u, i) PROVE UpdateTypeOK'
    BY <1>0, <2>4 DEF RestoreSaved, ghosts, machine, bots
  <2>5. ASSUME NEW i \in Instances, LeaveDown(u, i) PROVE UpdateTypeOK'
    BY <1>0, <2>5 DEF LeaveDown, ghosts, machine, bots
  <2>6. ASSUME NEW i \in Instances, StartInstance(u, i) PROVE UpdateTypeOK'
    BY <1>0, <2>6 DEF StartInstance
  <2>7. ASSUME NEW i \in Instances, RestoreResidency(u, i) PROVE UpdateTypeOK'
    <3>1. Recorded(u)[i].ran \in BOOLEAN
      BY <2>7, RestoringIs, EntriesOf DEF RestoreResidency, At
    <3> QED
      BY <1>0, <2>7, <3>1 DEF RestoreResidency, bots
  <2> QED
    BY <1>5, <2>1, <2>2, <2>3, <2>4, <2>5, <2>6, <2>7 DEF Restores
<1>6. ASSUME NEW u \in Updaters, Applies(u) PROVE UpdateTypeOK'
  <2>1. CASE UNCHANGED <<machine, saved, locked, ghosts>>
    BY <1>0, <2>1 DEF ghosts, machine, bots
  <2>2. CASE AcquireLock(u)
    <3>1. up[u].own \in Instances
      BY <2>2, PlanningIs DEF AcquireLock, At
    <3> QED
      BY <1>0, <2>2, <3>1 DEF AcquireLock, ghosts, machine, bots
  <2>3. CASE WriteState(u)
    <3>1. up[u].own \in Instances /\ up[u].plan[up[u].own] \in State
      BY <2>3, PlanningIs DEF WriteState, At
    <3> QED
      BY <1>0, <2>3, <3>1 DEF WriteState, ghosts, machine, bots
  <2>4. ASSUME NEW i \in Instances, StopUnit(u, i) PROVE UpdateTypeOK'
    <3>1. up[u].plan[up[u].own][i] \in Entry
      BY <2>4, ApplyingIs, EntriesOf DEF StopUnit, At, Stages, Targets
    <3> QED
      BY <1>0, <2>4, <3>1 DEF StopUnit, Disabled, Signalled
  <2>5. CASE StopProcess(u)
    <3>1. up[u].half \in Instances
      BY <2>5, ApplyingIs DEF StopProcess, At, Stages
    <3> QED
      BY <1>0, <2>5, <3>1 DEF StopProcess, Signalled, ghosts
  <2>6. CASE ApplySource(u)
    <3>1. Targets(u) \subseteq Instances
      BY <2>6, ApplyingIs DEF ApplySource, At, Stages
    <3> QED
      BY <1>0, <2>6, <3>1 DEF ApplySource, machine, bots
  <2>7. CASE SetupDone(u)
    <3>1. up[u].own \in Instances
      BY <2>7, ApplyingIs DEF SetupDone, At, Stages
    <3>2. owed' \in [Instances -> Entry \cup {Nothing}]
      BY <1>0, <2>7 DEF SetupDone, Discharged
    <3> QED
      BY <1>0, <2>7, <3>1, <3>2 DEF SetupDone, machine, bots
  <2>8. CASE Fails(u)
    <3>1. up[u].own \in Instances \cup {Nothing}
      BY <2>8, ApplyingIs, RestoringIs DEF Fails, Stages
    <3> QED
      BY <1>0, <2>8, <3>1 DEF Fails, Released, ghosts, machine, bots
  <2> QED
    BY <1>6, <2>1, <2>2, <2>3, <2>4, <2>5, <2>6, <2>7, <2>8
       DEF Applies, Preflight, Snapshot, Refused, Declined, LockHeld, Verified, SetupChecked
<1> QED
  BY <1>1, <1>2, <1>3, <1>4, <1>5, <1>6 DEF UpdateNext

LEMMA UpdateTypedStep == UpdateTyped /\ [UpdateNext]_updateVars => UpdateTyped'
<1> SUFFICES ASSUME UpdateTyped, [UpdateNext]_updateVars PROVE UpdateTyped'
  OBVIOUS
<1>1. updates' \in {updates, updates + 1} /\ crashes' \in {crashes, crashes + 1}
  <2>1. CASE UNCHANGED updateVars
    BY <2>1 DEF updateVars, counts
  <2>2. ASSUME NEW i \in Instances, Environment(i) PROVE UNCHANGED counts
    BY <2>2 DEF Environment, BotReady, BotFalls, BotStopped, Respawn, HandStart, HandStop, LockRemovedByHand
  <2>3. CASE Reboot \/ \E u \in Updaters : UpdaterDies(u)
    BY <2>3 DEF Reboot, UpdaterDies, Crashes
  <2>4. ASSUME NEW u \in Updaters, Applies(u)
        PROVE  updates' \in {updates, updates + 1} /\ crashes' = crashes
    BY <2>4 DEF Applies, Preflight, Begins, Snapshot, Refused, Declined, AcquireLock, LockHeld, counts,
       WriteState, StopUnit, StopProcess, Verified, ApplySource, SetupChecked, SetupDone, Fails
  <2>5. ASSUME NEW u \in Updaters, Restores(u)
        PROVE  updates' \in {updates, updates + 1} /\ crashes' = crashes
    BY <2>5 DEF Restores, RestoreSaved, Begins, RestoreResidency, LeaveDown, StartInstance, counts,
       Launched, LaunchFails, Proved
  <2> QED
    BY <2>1, <2>2, <2>3, <2>4, <2>5 DEF UpdateNext, counts
<1>2. updates' \in Nat /\ crashes' \in Nat
  BY <1>1 DEF UpdateTyped
<1> QED
  BY <1>2, UpdateTypeOKStep, InvocationsStep DEF UpdateTyped

-----------------------------------------------------------------------------
(* One updater at a time.  (Two are two of the findings: nothing keeps      *)
(* them apart before the lock, and a restore takes none.)                   *)

OneUpdater == \A u, v \in Updaters : u = v

LEMMA OnlyOneMoves ==
    ASSUME UpdateTyped, OneUpdater, NEW u \in Updaters, NEW x \in Invocations, Becomes(u, x), NEW v \in Updaters
    PROVE  v = u /\ up'[v] = x
  BY BecomesIs DEF OneUpdater

LEMMA GoneIdle ==
    ASSUME UpdateTyped, OneUpdater, NEW u \in Updaters, Becomes(u, Idle), NEW v \in Updaters
    PROVE  Known(v)' /\ Down(v)' /\ Back(v)'
<1>1. up'[v] = Idle
  BY OnlyOneMoves DEF Invocations
<1> QED
  BY <1>1 DEF Idle, Known, Down, Back, Stages

LEMMA AllIdle ==
    ASSUME NEW v \in Updaters, up'[v] = Idle
    PROVE  Known(v)' /\ Down(v)' /\ Back(v)'
  BY DEF Idle, Known, Down, Back, Stages

\* The steps that end an invocation.
LEMMA Ends ==
    ASSUME NEW u \in Updaters,
           Refused(u) \/ Declined(u) \/ LockHeld(u) \/ Fails(u) \/ LaunchFails(u) \/ UpdaterDies(u)
    PROVE  Becomes(u, Idle) /\ UNCHANGED <<saved, unit, active, marker, torn, owed>>
  BY DEF Refused, Declined, LockHeld, Fails, LaunchFails, UpdaterDies, Becomes, machine, bots, ghosts

LEMMA OutsideIs ==
    ASSUME NEW i \in Instances, Environment(i)
    PROVE  UNCHANGED <<up, saved, owed, unit>>
  BY DEF Environment, BotReady, BotFalls, BotStopped, Respawn, HandStart, HandStop, LockRemovedByHand,
     ghosts, machine

-----------------------------------------------------------------------------
(* What the updater knows. *)

LEMMA KnownStep ==
    ASSUME UpdateTyped, OneUpdater, \A u \in Updaters : Known(u), [UpdateNext]_updateVars, NEW v \in Updaters
    PROVE  Known(v)'
<1> USE DEF Invocations
<1>1. CASE UNCHANGED <<up, saved>>
  BY <1>1 DEF Known, Only
<1>2. ASSUME NEW i \in Instances, Environment(i) PROVE Known(v)'
  BY <1>1, <1>2, OutsideIs
<1>3. CASE Reboot
  BY <1>3, AllIdle DEF Reboot
<1>4. ASSUME NEW u \in Updaters,
             Refused(u) \/ Declined(u) \/ LockHeld(u) \/ Fails(u) \/ LaunchFails(u) \/ UpdaterDies(u)
      PROVE  Known(v)'
  BY <1>4, Ends, GoneIdle
<1>5. ASSUME NEW u \in Updaters, Restores(u), ~LaunchFails(u) PROVE Known(v)'
  <2>0. Known(u)
    OBVIOUS
  <2>1. CASE Launched(u)
    <3>1. PICK x \in Restoring : Becomes(u, x) /\ x.plan = up[u].plan
      BY <2>1, LaunchedIs
    <3>2. up[u].pc = "launching" /\ saved' = saved /\ x.pc \in {"restoring", "launching"}
      BY <2>1 DEF Launched, At, Restoring
    <3> QED
      BY <2>0, <3>1, <3>2, OnlyOneMoves DEF Known, Stages, Only
  <2>2. CASE Proved(u)
    <3>1. CASE Becomes(u, Idle)
      BY <3>1, GoneIdle
    <3>2. ASSUME NEW x \in Restoring, Becomes(u, x), x.plan = [up[u].plan EXCEPT ![up[u].at] = Nothing]
          PROVE  Known(v)'
      <4>1. /\ up[u].pc = "restoring" /\ saved' = [saved EXCEPT ![up[u].at] = Nothing]
            /\ x.pc \in {"restoring", "launching"} /\ up[u].plan \in Plans /\ up[u].at \in Instances
        BY <2>2, RestoringIs DEF Proved, At, Restoring
      <4>2. \A k \in Instances : x.plan[k] # Nothing => saved'[k] = x.plan[k]
        BY <2>0, <3>2, <4>1 DEF Known, Plans, UpdateTyped, UpdateTypeOK
      <4>3. up'[v] = x
        BY <3>2, OnlyOneMoves
      <4> QED
        BY <4>1, <4>2, <4>3 DEF Known, Stages, Only
    <3> QED
      BY <2>2, <3>1, <3>2, ProvedIs
  <2>3. ASSUME NEW k \in Instances, RestoreSaved(u, k) PROVE Known(v)'
    <3>1. PICK x \in Restoring : Becomes(u, x) /\ x.pc = "restoring" /\ x.plan = saved
      BY <2>3, RestoreSavedIs
    <3>2. saved' = saved
      BY <2>3 DEF RestoreSaved
    <3> QED
      BY <3>1, <3>2, OnlyOneMoves DEF Known, Stages, Only
  <2>4. ASSUME NEW i \in Instances, RestoreResidency(u, i) \/ LeaveDown(u, i) \/ StartInstance(u, i)
        PROVE  Known(v)'
    <3>1. PICK x \in Restoring : Becomes(u, x) /\ x.plan = up[u].plan
      BY <2>4, EntryDoneIs
    <3>2. up[u].pc = "restoring" /\ saved' = saved /\ x.pc \in {"restoring", "launching"}
      BY <2>4 DEF RestoreResidency, LeaveDown, StartInstance, At, Restoring
    <3> QED
      BY <2>0, <3>1, <3>2, OnlyOneMoves DEF Known, Stages, Only
  <2> QED
    BY <1>5, <2>1, <2>2, <2>3, <2>4 DEF Restores
<1>6. ASSUME NEW u \in Updaters, Applies(u), ~Refused(u), ~Declined(u), ~LockHeld(u), ~Fails(u) PROVE Known(v)'
  <2>0. Known(u)
    OBVIOUS
  <2>1. ASSUME NEW i \in Instances, NEW all \in BOOLEAN, NEW restart \in BOOLEAN, Preflight(u, i, all, restart)
        PROVE  Known(v)'
    <3>1. PICK x \in Fetching : Becomes(u, x) /\ x.own = i
      BY <2>1, PreflightIs
    <3>2. saved'[i] = Nothing /\ x.pc = "fetching"
      BY <2>1 DEF Preflight, MayApply, Fetching
    <3> QED
      BY <3>1, <3>2, OnlyOneMoves DEF Known, Stages, Only
  <2>2. CASE Snapshot(u)
    <3>1. PICK x \in Planning :
             Becomes(u, x) /\ x.pc = "confirming" /\ x.own = up[u].own /\ Only(x)
      BY <2>2, SnapshotIs
    <3>2. saved'[up[u].own] = Nothing
      BY <2>0, <2>2 DEF Snapshot, Known, At
    <3> QED
      BY <3>1, <3>2, OnlyOneMoves DEF Known, Stages, Only
  <2>3. CASE AcquireLock(u)
    <3>1. PICK x \in Planning :
             Becomes(u, x) /\ x.pc = "saving" /\ x.own = up[u].own /\ x.plan = up[u].plan
      BY <2>3, AcquireLockIs
    <3>2. saved'[up[u].own] = Nothing /\ Only(up[u])
      BY <2>0, <2>3 DEF AcquireLock, Known, At
    <3> QED
      BY <3>1, <3>2, OnlyOneMoves DEF Known, Stages, Only
  <2>4. CASE WriteState(u)
    <3>1. PICK x \in Applying : Becomes(u, x) /\ x.own = up[u].own /\ x.plan = up[u].plan
      BY <2>4, WriteStateIs
    <3>2. saved'[up[u].own] = up[u].plan[up[u].own] /\ x.pc \in Stages /\ Only(up[u])
      BY <2>0, <2>4, PlanningIs DEF WriteState, At, Applying, UpdateTyped, UpdateTypeOK, Known
    <3> QED
      BY <3>1, <3>2, OnlyOneMoves DEF Known, Stages, Only
  <2>5. CASE /\ up[u].pc \in Stages /\ saved' = saved
             /\ \E x \in Applying : Becomes(u, x) /\ x.own = up[u].own /\ x.plan = up[u].plan
    <3>1. PICK x \in Applying : Becomes(u, x) /\ x.own = up[u].own /\ x.plan = up[u].plan
      BY <2>5
    <3>2. x.pc \in Stages
      BY DEF Applying
    <3> QED
      BY <2>0, <2>5, <3>1, <3>2, OnlyOneMoves DEF Known, Stages, Only
  <2>6. ASSUME NEW i \in Instances, StopUnit(u, i) PROVE Known(v)'
    BY <2>5, <2>6, StopUnitIs DEF StopUnit, At, Stages
  <2>7. CASE StopProcess(u)
    BY <2>5, <2>7, StopProcessIs DEF StopProcess, At, Stages
  <2>8. CASE Verified(u) \/ ApplySource(u) \/ SetupChecked(u)
    <3>1. PICK p \in Stages : GoesTo(u, p) /\ up[u].pc \in Stages /\ saved' = saved
      BY <2>8 DEF Verified, ApplySource, SetupChecked, Stages, At
    <3> QED
      BY <2>5, <3>1, GoesToIs
  <2>9. CASE SetupDone(u)
    <3>1. CASE Becomes(u, Idle)
      BY <3>1, GoneIdle
    <3>2. CASE up' = [up EXCEPT ![u] = RestoresNext(u, up[u].own)] /\ saved' = saved
      <4> DEFINE x == RestoresNext(u, up[u].own)
      <4>1. x \in Restoring /\ up[u].pc \in Stages
        BY <2>9, RestoresNextIs DEF SetupDone, At, Stages
      <4>2. x.plan = up[u].plan /\ x.pc = "restoring"
        BY DEF RestoresNext
      <4>3. Becomes(u, x)
        BY <3>2 DEF Becomes
      <4>4. \A k \in Instances : up[u].plan[k] # Nothing => k = up[u].own
        BY <2>0, <4>1 DEF Known, Only
      <4> QED
        BY <2>0, <3>2, <4>1, <4>2, <4>3, <4>4, OnlyOneMoves DEF Known, Stages, Only
    <3> QED
      BY <2>9, <3>1, <3>2 DEF SetupDone, Becomes
  <2> QED
    BY <1>6, <2>1, <2>2, <2>3, <2>4, <2>6, <2>7, <2>8, <2>9 DEF Applies
<1> QED
  BY <1>1, <1>2, <1>3, <1>4, <1>5, <1>6 DEF UpdateNext, updateVars

-----------------------------------------------------------------------------
(* What stays down. *)

\* What is quiet stays quiet, and what is stopped stays stopped.
Rests ==
    \A i \in Instances :
        /\ Quiet(i) => Quiet(i)'
        /\ Stopped(i) => Stopped(i)'
        /\ Stopped(i) /\ ~Live(i) => ~Live(i)'

LEMMA NothingMovesRests == ASSUME UNCHANGED <<unit, active, proc>> PROVE Rests
  BY DEF Rests, Quiet, Stopped, Live

LEMMA SignalRests ==
    ASSUME UpdateTyped, NEW i \in Instances, UNCHANGED <<unit, active>>, proc' = Signalled(i) PROVE Rests
  BY DEF Rests, Quiet, Stopped, Live, Signalled, UpdateTyped, UpdateTypeOK

\* A bot by itself, or its unit: none of them starts what is at rest.
LEMMA BotRests ==
    ASSUME UpdateTyped, NEW i \in Instances, BotReady(i) \/ BotFalls(i) \/ BotStopped(i) \/ Respawn(i)
    PROVE  Rests /\ UNCHANGED <<up, torn>>
<1> USE DEF UpdateTyped, UpdateTypeOK, Rests, Quiet, Stopped, Live, ghosts
<1>1. CASE BotReady(i)
  BY <1>1 DEF BotReady
<1>2. CASE BotFalls(i)
  BY <1>2 DEF BotFalls
<1>3. CASE BotStopped(i)
  BY <1>3 DEF BotStopped
<1>4. CASE Respawn(i)
  BY <1>4 DEF Respawn
<1> QED
  BY <1>1, <1>2, <1>3, <1>4

LEMMA StopUnitRests ==
    ASSUME UpdateTyped, NEW u \in Updaters, NEW i \in Instances, StopUnit(u, i)
    PROVE  Rests /\ Stopped(i)'
<1>1. active' = [active EXCEPT ![i] = FALSE] /\ unit' = Disabled(i) /\ proc' \in {proc, Signalled(i)}
  BY DEF StopUnit
<1>2. \A j \in Instances : Live(j)' => Live(j)
  BY <1>1 DEF Live, Signalled, UpdateTyped, UpdateTypeOK
<1>3. \A j \in Instances : (~active[j] => ~active'[j]) /\ (unit[j] # "enabled" => unit'[j] # "enabled")
  BY <1>1 DEF Disabled, UpdateTyped, UpdateTypeOK
<1>4. Stopped(i)'
  BY <1>1 DEF Stopped, Disabled, UpdateTyped, UpdateTypeOK
<1> QED
  BY <1>2, <1>3, <1>4 DEF Rests, Quiet, Stopped

LEMMA DownStep ==
    ASSUME UpdateTyped, OneUpdater, Pauses = FALSE, \A u \in Updaters : Down(u), [UpdateNext]_updateVars, NEW v \in Updaters
    PROVE  Down(v)'
<1> USE DEF Invocations
<1>1. CASE UNCHANGED up /\ Rests
  <2>1. Down(v) /\ (up[v].pc \in {"confirming", "saving"} \cup Stages => Targets(v) \subseteq Instances)
    BY PlanningIs, ApplyingIs
  <2> QED
    BY <1>1, <2>1 DEF Down, Rests, Targets, Stages
<1>2. CASE UNCHANGED updateVars
  BY <1>1, <1>2, NothingMovesRests DEF updateVars, machine, bots
<1>3. ASSUME NEW i \in Instances, Environment(i) PROVE Down(v)'
  <2>1. CASE BotReady(i) \/ BotFalls(i) \/ BotStopped(i) \/ Respawn(i)
    BY <1>1, <2>1, BotRests
  <2>2. CASE HandStart(i) \/ HandStop(i) \/ LockRemovedByHand(i)
    <3>1. up'[v].pc = "idle"
      BY <2>2 DEF HandStart, HandStop, LockRemovedByHand, Unattended, At
    <3> QED
      BY <3>1 DEF Down, Stages
  <2> QED
    BY <1>3, <2>1, <2>2 DEF Environment
<1>4. CASE Reboot
  BY <1>4, AllIdle DEF Reboot
<1>5. ASSUME NEW u \in Updaters,
             Refused(u) \/ Declined(u) \/ LockHeld(u) \/ Fails(u) \/ LaunchFails(u) \/ UpdaterDies(u)
      PROVE  Down(v)'
  BY <1>5, Ends, GoneIdle
<1>6. ASSUME NEW u \in Updaters, NEW x \in Restoring, Becomes(u, x) PROVE Down(v)'
  <2>1. up'[v] = x /\ x.pc \in {"restoring", "launching"}
    BY <1>6, OnlyOneMoves DEF Restoring
  <2> QED
    BY <2>1 DEF Down, Stages
<1>7. ASSUME NEW u \in Updaters, Restores(u), ~LaunchFails(u) PROVE Down(v)'
  <2>1. CASE Launched(u)
    BY <1>6, <2>1, LaunchedIs
  <2>2. CASE Proved(u)
    BY <1>6, <2>2, ProvedIs, GoneIdle
  <2>3. ASSUME NEW k \in Instances, RestoreSaved(u, k) PROVE Down(v)'
    BY <1>6, <2>3, RestoreSavedIs
  <2>4. ASSUME NEW i \in Instances, RestoreResidency(u, i) \/ LeaveDown(u, i) \/ StartInstance(u, i)
        PROVE  Down(v)'
    BY <1>6, <2>4, EntryDoneIs
  <2> QED
    BY <1>7, <2>1, <2>2, <2>3, <2>4 DEF Restores
<1>8. ASSUME NEW u \in Updaters, Applies(u), ~Refused(u), ~Declined(u), ~LockHeld(u), ~Fails(u) PROVE Down(v)'
  <2>0. Down(u)
    OBVIOUS
  <2>1. ASSUME NEW i \in Instances, NEW all \in BOOLEAN, NEW restart \in BOOLEAN, Preflight(u, i, all, restart)
        PROVE  Down(v)'
    <3>1. PICK x \in Fetching :
             Becomes(u, x) /\ x.targets = {i} \cup IF all THEN LiveInstances ELSE {}
      BY <2>1, PreflightIs
    <3>2. \A j \in Instances \ x.targets : Quiet(j)'
      BY <2>1, <3>1 DEF Preflight, MayApply, LiveInstances, Quiet, Live, machine, bots
    <3>3. up'[v] = x /\ x.pc = "fetching"
      BY <3>1, OnlyOneMoves DEF Fetching
    <3> QED
      BY <3>2, <3>3 DEF Down, Stages
  <2>2. CASE Snapshot(u)
    <3>1. PICK x \in Planning :
             Becomes(u, x) /\ x.pc = "confirming" /\ DOMAIN x.plan[x.own] = up[u].targets
      BY <2>2, SnapshotIs
    <3>2. Rests /\ up[u].pc = "fetching" /\ up'[v] = x
      BY <2>2, <3>1, NothingMovesRests, OnlyOneMoves DEF Snapshot, At, machine, bots
    <3> QED
      BY <2>0, <3>1, <3>2 DEF Down, Stages, Rests, Targets
  <2>3. CASE AcquireLock(u)
    <3>1. PICK x \in Planning :
             Becomes(u, x) /\ x.pc = "saving" /\ x.own = up[u].own /\ x.plan = up[u].plan
      BY <2>3, AcquireLockIs
    <3>2. Rests /\ up[u].pc = "confirming" /\ up'[v] = x
      BY <2>3, <3>1, NothingMovesRests, OnlyOneMoves DEF AcquireLock, At, machine, bots
    <3> QED
      BY <2>0, <3>1, <3>2 DEF Down, Stages, Rests, Targets
  <2>4. CASE WriteState(u)
    <3>1. PICK x \in Applying :
             /\ Becomes(u, x) /\ x.pc = "stopping" /\ x.own = up[u].own /\ x.plan = up[u].plan
             /\ x.left = Targets(u) /\ x.half = Nothing
      BY <2>4, WriteStateIs
    <3>2. Rests /\ up[u].pc = "saving" /\ up'[v] = x /\ Targets(u) \subseteq Instances
      BY <2>4, <3>1, NothingMovesRests, OnlyOneMoves, PlanningIs DEF WriteState, At, machine, bots
    <3> QED
      BY <2>0, <3>1, <3>2, UpdateAssumption DEF Down, Stages, Rests, Targets
  <2>5. ASSUME NEW i \in Instances, StopUnit(u, i) PROVE Down(v)'
    <3>1. PICK x \in Applying :
             /\ Becomes(u, x) /\ x.pc = "stopping" /\ x.own = up[u].own /\ x.plan = up[u].plan
             /\ x.left = up[u].left /\ x.half = i
      BY <2>5, StopUnitIs
    <3>2. /\ Rests /\ Stopped(i)' /\ up[u].pc = "stopping" /\ up'[v] = x
          /\ Targets(u) \subseteq Instances
      BY <2>5, <3>1, StopUnitRests, OnlyOneMoves, ApplyingIs DEF StopUnit, At, Stages
    <3> QED
      BY <2>0, <3>1, <3>2 DEF Down, Stages, Rests, Targets
  <2>6. CASE StopProcess(u)
    <3>1. PICK x \in Applying :
             /\ Becomes(u, x) /\ x.pc = "stopping" /\ x.own = up[u].own /\ x.plan = up[u].plan
             /\ x.left = up[u].left \ {up[u].half} /\ x.half = Nothing
      BY <2>6, StopProcessIs
    <3>2. /\ up[u].pc = "stopping" /\ up'[v] = x /\ Targets(u) \subseteq Instances
          /\ up[u].half \in Instances
      BY <2>6, <3>1, OnlyOneMoves, ApplyingIs DEF StopProcess, At, Stages
    <3>3. Rests
      BY <2>6, <3>2, SignalRests DEF StopProcess
    <3> QED
      BY <2>0, <3>1, <3>2, <3>3, UpdateAssumption DEF Down, Stages, Rests, Targets
  <2>7. CASE Verified(u)
    <3>1. PICK x \in Applying :
             /\ Becomes(u, x) /\ x.pc = "moving" /\ x.own = up[u].own /\ x.plan = up[u].plan
      BY <2>7, GoesToIs DEF Verified, Stages, At
    <3>2. /\ Rests /\ up[u].pc = "stopping" /\ up'[v] = x /\ Targets(u) \subseteq Instances
          /\ \A i \in Targets(u) : Stopped(i) /\ ~Live(i)
      BY <2>0, <2>7, <3>1, NothingMovesRests, OnlyOneMoves, ApplyingIs
         DEF Verified, At, Stages, Down, LiveInstances, machine, bots
    <3> QED
      BY <2>0, <3>1, <3>2 DEF Down, Stages, Rests, Targets
  <2>8. CASE ApplySource(u) \/ SetupChecked(u)
    <3>1. PICK p \in Stages \ {"stopping"} : GoesTo(u, p) /\ up[u].pc \in Stages \ {"stopping"}
      BY <2>8 DEF ApplySource, SetupChecked, Stages, At
    <3>2. PICK x \in Applying :
             /\ Becomes(u, x) /\ x.pc = p /\ x.own = up[u].own /\ x.plan = up[u].plan
      BY <3>1, GoesToIs
    <3>3. Rests /\ up'[v] = x /\ Targets(u) \subseteq Instances
      BY <2>8, <3>1, <3>2, NothingMovesRests, OnlyOneMoves, ApplyingIs DEF ApplySource, SetupChecked, machine, bots
    <3> QED
      BY <2>0, <3>1, <3>2, <3>3 DEF Down, Stages, Rests, Targets
  <2>9. CASE SetupDone(u)
    <3>1. CASE Becomes(u, Idle)
      BY <3>1, GoneIdle
    <3>2. CASE Becomes(u, RestoresNext(u, up[u].own))
      BY <1>6, <2>9, <3>2, RestoresNextIs DEF SetupDone, At, Stages
    <3> QED
      BY <2>9, <3>1, <3>2 DEF SetupDone, Becomes
  <2> QED
    BY <1>8, <2>1, <2>2, <2>3, <2>4, <2>5, <2>6, <2>7, <2>8, <2>9 DEF Applies
<1> QED
  BY <1>2, <1>3, <1>4, <1>5, <1>7, <1>8 DEF UpdateNext

\* What was stopped for a move of the files, while these are not whole.
LEMMA TornStep ==
    ASSUME UpdateTyped, OneUpdater, \A u \in Updaters : Down(u), TornStaysDown, [UpdateNext]_updateVars
    PROVE  TornStaysDown'
<1>0. torn \subseteq Instances
  BY DEF UpdateTyped, UpdateTypeOK
<1>1. CASE Rests /\ torn' \subseteq torn
  BY <1>0, <1>1 DEF Rests, TornStaysDown
<1>2. CASE UNCHANGED <<machine, torn>>
  BY <1>1, <1>2, NothingMovesRests DEF machine, bots
<1>3. ASSUME NEW i \in Instances, Environment(i) PROVE TornStaysDown'
  <2>1. CASE BotReady(i) \/ BotFalls(i) \/ BotStopped(i) \/ Respawn(i)
    BY <1>1, <2>1, BotRests
  <2>2. CASE HandStart(i)
    BY <2>2, <1>0 DEF HandStart, TornStaysDown, Stopped, Live, UpdateTyped, UpdateTypeOK
  <2>3. CASE HandStop(i)
    BY <2>3, <1>0 DEF HandStop, TornStaysDown, Stopped, Live, Signalled, UpdateTyped, UpdateTypeOK, ghosts
  <2>4. CASE LockRemovedByHand(i)
    BY <1>2, <2>4 DEF LockRemovedByHand, ghosts
  <2> QED
    BY <1>3, <2>1, <2>2, <2>3, <2>4 DEF Environment
<1>4. CASE Reboot
  BY <1>0, <1>4 DEF Reboot, TornStaysDown, Stopped, Live, ghosts
<1>5. ASSUME NEW u \in Updaters, Restores(u) PROVE TornStaysDown'
  <2>1. CASE LaunchFails(u)
    <3>1. up[u].child \in Instances
      BY <2>1, RestoringIs DEF LaunchFails, At
    <3> QED
      BY <1>1, <2>1, <3>1, SignalRests DEF LaunchFails, ghosts
  <2>2. CASE Launched(u) \/ Proved(u)
    BY <1>2, <2>2 DEF Launched, Proved, ghosts
  <2>3. ASSUME NEW i \in Instances, RestoreSaved(u, i) \/ LeaveDown(u, i) PROVE TornStaysDown'
    BY <1>2, <2>3 DEF RestoreSaved, LeaveDown, ghosts
  <2>4. ASSUME NEW i \in Instances, StartInstance(u, i) PROVE TornStaysDown'
    BY <1>0, <2>4 DEF StartInstance, TornStaysDown, Stopped, Live, UpdateTyped, UpdateTypeOK
  <2>5. ASSUME NEW i \in Instances, RestoreResidency(u, i) PROVE TornStaysDown'
    BY <1>0, <2>5 DEF RestoreResidency, TornStaysDown, Stopped, Live, UpdateTyped, UpdateTypeOK, bots
  <2> QED
    BY <1>5, <2>1, <2>2, <2>3, <2>4, <2>5 DEF Restores
<1>6. ASSUME NEW u \in Updaters, Applies(u) PROVE TornStaysDown'
  <2>1. ASSUME NEW i \in Instances, StopUnit(u, i) PROVE TornStaysDown'
    BY <1>1, <2>1, StopUnitRests DEF StopUnit
  <2>2. CASE StopProcess(u)
    <3>1. up[u].half \in Instances
      BY <2>2, ApplyingIs DEF StopProcess, At, Stages
    <3> QED
      BY <1>1, <2>2, <3>1, SignalRests DEF StopProcess, ghosts
  <2>3. CASE ApplySource(u)
    <3>1. \A i \in Targets(u) : Stopped(i) /\ ~Live(i)
      BY <2>3 DEF ApplySource, At, Down
    <3>2. Targets(u) \subseteq Instances /\ Rests
      BY <2>3, ApplyingIs, NothingMovesRests DEF ApplySource, At, Stages, machine, bots
    <3> QED
      BY <1>0, <2>3, <3>1, <3>2 DEF ApplySource, TornStaysDown, Rests
  <2>4. CASE SetupDone(u)
    BY <2>4 DEF SetupDone, TornStaysDown
  <2> QED
    BY <1>2, <1>6, <2>1, <2>2, <2>3, <2>4
       DEF Applies, Preflight, Snapshot, Refused, Declined, AcquireLock, LockHeld, WriteState, Verified,
           SetupChecked, Fails, ghosts
<1> QED
  BY <1>2, <1>3, <1>4, <1>5, <1>6 DEF UpdateNext, updateVars, ghosts, UpdaterDies

-----------------------------------------------------------------------------
(* What is put back. *)

LEMMA MarkerStep == UpdateTyped /\ MarkerIsReady /\ [UpdateNext]_updateVars => MarkerIsReady'
<1> SUFFICES ASSUME UpdateTyped, MarkerIsReady, [UpdateNext]_updateVars PROVE MarkerIsReady'
  OBVIOUS
<1> USE DEF MarkerIsReady
<1>0. /\ proc \in [Instances -> {"down", "starting", "ready", "stopping"}]
      /\ marker \in [Instances -> {"none", "own", "old"}]
  BY DEF UpdateTyped, UpdateTypeOK
<1>1. CASE UNCHANGED bots
  BY <1>1 DEF bots
<1>2. ASSUME NEW i \in Instances, UNCHANGED marker,
             proc' = Signalled(i) \/ (~Live(i) /\ proc' = [proc EXCEPT ![i] = "starting"])
      PROVE  MarkerIsReady'
  BY <1>0, <1>2 DEF Signalled, Live
<1>3. ASSUME NEW i \in Instances, Environment(i) PROVE MarkerIsReady'
  <2>1. CASE BotReady(i)
    BY <1>0, <2>1 DEF BotReady
  <2>2. CASE BotFalls(i)
    BY <1>0, <2>2 DEF BotFalls, Left
  <2>3. CASE BotStopped(i)
    BY <1>0, <2>3 DEF BotStopped
  <2>4. CASE Respawn(i) \/ HandStart(i) \/ HandStop(i)
    BY <1>2, <2>4 DEF Respawn, HandStart, HandStop, Live
  <2>5. CASE LockRemovedByHand(i)
    BY <1>1, <2>5 DEF LockRemovedByHand, machine
  <2> QED
    BY <1>3, <2>1, <2>2, <2>3, <2>4, <2>5 DEF Environment
<1>4. CASE Reboot
  BY <1>0, <1>4 DEF Reboot, Left
<1>5. ASSUME NEW u \in Updaters, Restores(u) PROVE MarkerIsReady'
  <2>1. CASE LaunchFails(u)
    <3>1. up[u].child \in Instances
      BY <2>1, RestoringIs DEF LaunchFails, At
    <3> QED
      BY <1>2, <2>1, <3>1 DEF LaunchFails
  <2>2. ASSUME NEW i \in Instances, StartInstance(u, i) PROVE MarkerIsReady'
    BY <1>2, <2>2 DEF StartInstance
  <2> QED
    BY <1>1, <1>5, <2>1, <2>2
       DEF Restores, RestoreSaved, RestoreResidency, LeaveDown, Launched, Proved, machine
<1>6. ASSUME NEW u \in Updaters, Applies(u) PROVE MarkerIsReady'
  <2>1. ASSUME NEW i \in Instances, StopUnit(u, i) PROVE MarkerIsReady'
    BY <1>1, <1>2, <2>1 DEF StopUnit, bots
  <2>2. CASE StopProcess(u)
    <3>1. up[u].half \in Instances
      BY <2>2, ApplyingIs DEF StopProcess, At, Stages
    <3> QED
      BY <1>2, <2>2, <3>1 DEF StopProcess
  <2> QED
    BY <1>1, <1>6, <2>1, <2>2
       DEF Applies, Preflight, Snapshot, Refused, Declined, AcquireLock, LockHeld, WriteState, Verified,
           ApplySource, SetupChecked, SetupDone, Fails, machine
<1> QED
  BY <1>1, <1>3, <1>4, <1>5, <1>6 DEF UpdateNext, updateVars, machine, UpdaterDies

\* One instance is as its entry says, or a unit is at it.
PutBack(i, entry) ==
    /\ entry.enabled => unit[i] = "enabled"
    /\ entry.ran => IF entry.enabled THEN active[i] ELSE proc[i] # "stopping"

\* Nobody takes back what is put back while an updater restores.
LEMMA PutBackKept ==
    ASSUME UpdateTyped, NEW i \in Instances, NEW e \in Entry, PutBack(i, e),
           \/ UNCHANGED machine
           \/ \E j \in Instances : BotReady(j) \/ BotFalls(j) \/ BotStopped(j) \/ Respawn(j)
           \/ \E j \in Instances, u \in Updaters : RestoreResidency(u, j) \/ StartInstance(u, j)
    PROVE  PutBack(i, e)'
<1> USE DEF PutBack, UpdateTyped, UpdateTypeOK, bots
<1>1. CASE UNCHANGED machine
  BY <1>1 DEF machine
<1>2. ASSUME NEW j \in Instances, BotReady(j) PROVE PutBack(i, e)'
  BY <1>2 DEF BotReady
<1>3. ASSUME NEW j \in Instances, BotFalls(j) PROVE PutBack(i, e)'
  BY <1>3 DEF BotFalls
<1>4. ASSUME NEW j \in Instances, BotStopped(j) PROVE PutBack(i, e)'
  BY <1>4 DEF BotStopped
<1>5. ASSUME NEW j \in Instances, Respawn(j) PROVE PutBack(i, e)'
  BY <1>5 DEF Respawn
<1>6. ASSUME NEW j \in Instances, NEW u \in Updaters, RestoreResidency(u, j) PROVE PutBack(i, e)'
  BY <1>6 DEF RestoreResidency
<1>7. ASSUME NEW j \in Instances, NEW u \in Updaters, StartInstance(u, j) PROVE PutBack(i, e)'
  BY <1>7 DEF StartInstance
<1> QED
  BY <1>1, <1>2, <1>3, <1>4, <1>5, <1>6, <1>7

\* Its own step puts an instance back.
LEMMA PutBackNow ==
    ASSUME UpdateTyped, NEW u \in Updaters, NEW i \in Instances,
           RestoreResidency(u, i) \/ LeaveDown(u, i) \/ StartInstance(u, i)
    PROVE  PutBack(i, Recorded(u)[i])'
<1> USE DEF UpdateTyped, UpdateTypeOK
<1> DEFINE e == Recorded(u)[i]
<1>1. e \in Entry /\ e.ran \in BOOLEAN /\ e.enabled \in BOOLEAN
  BY RestoringIs, EntriesOf DEF RestoreResidency, LeaveDown, StartInstance, At
<1>2. PICK x \in Restoring : Becomes(u, x) /\ x.plan = up[u].plan /\ x.at = up[u].at
  BY EntryDoneIs
<1>3. Recorded(u)' = Recorded(u)
  BY <1>2, BecomesIs DEF Recorded, Invocations
<1>4. CASE RestoreResidency(u, i)
  <2>1. unit'[i] = "enabled" /\ e.enabled /\ (e.ran => active'[i])
    BY <1>1, <1>4 DEF RestoreResidency
  <2> QED
    BY <1>3, <2>1 DEF PutBack
<1>5. CASE LeaveDown(u, i)
  BY <1>1, <1>3, <1>5 DEF PutBack, LeaveDown
<1>6. CASE StartInstance(u, i)
  <2>1. proc'[i] = "starting" /\ ~e.enabled
    BY <1>6 DEF StartInstance
  <2> QED
    BY <1>3, <2>1 DEF PutBack
<1> QED
  BY <1>4, <1>5, <1>6

LEMMA BackIs ==
    ASSUME NEW u \in Updaters
    PROVE  Back(u) <=> (up[u].pc \in {"restoring", "launching"} =>
              \A i \in DOMAIN Recorded(u) \ up[u].left : PutBack(i, Recorded(u)[i]))
  BY DEF Back, PutBack

LEMMA BackStep ==
    ASSUME UpdateTyped, OneUpdater, \A u \in Updaters : Back(u), [UpdateNext]_updateVars, NEW v \in Updaters
    PROVE  Back(v)'
<1> USE DEF Invocations
<1> DEFINE Kept == \/ UNCHANGED machine
                   \/ \E j \in Instances : BotReady(j) \/ BotFalls(j) \/ BotStopped(j) \/ Respawn(j)
                   \/ \E j \in Instances, u \in Updaters : RestoreResidency(u, j) \/ StartInstance(u, j)
<1>1. CASE UNCHANGED up /\ Kept
  <2>1. ASSUME up[v].pc \in {"restoring", "launching"}, NEW i \in DOMAIN Recorded(v) \ up[v].left
        PROVE  PutBack(i, Recorded(v)[i])'
    <3>1. i \in Instances /\ Recorded(v)[i] \in Entry
      BY <2>1, RestoringIs, EntriesOf
    <3>2. PICK e \in Entry : e = Recorded(v)[i]
      BY <3>1
    <3>3. PutBack(i, e)
      BY <2>1, <3>2, BackIs
    <3>4. PutBack(i, e)'
      BY <1>1, <3>1, <3>3, PutBackKept
    <3>5. Recorded(v)'[i] = e
      BY <1>1, <3>2 DEF Recorded
    <3> QED
      BY <3>4, <3>5 DEF PutBack
  <2> QED
    BY <1>1, <2>1 DEF Back, PutBack, Recorded
<1>2. CASE UNCHANGED updateVars
  BY <1>1, <1>2 DEF updateVars
<1>3. ASSUME NEW i \in Instances, Environment(i) PROVE Back(v)'
  <2>1. CASE BotReady(i) \/ BotFalls(i) \/ BotStopped(i) \/ Respawn(i)
    BY <1>1, <2>1, BotRests
  <2>2. CASE HandStart(i) \/ HandStop(i) \/ LockRemovedByHand(i)
    <3>1. up'[v].pc = "idle"
      BY <2>2 DEF HandStart, HandStop, LockRemovedByHand, Unattended, At
    <3> QED
      BY <3>1 DEF Back
  <2> QED
    BY <1>3, <2>1, <2>2 DEF Environment
<1>4. CASE Reboot
  BY <1>4, AllIdle DEF Reboot
<1>5. ASSUME NEW u \in Updaters,
             Refused(u) \/ Declined(u) \/ LockHeld(u) \/ Fails(u) \/ LaunchFails(u) \/ UpdaterDies(u)
      PROVE  Back(v)'
  BY <1>5, Ends, GoneIdle
<1>6. ASSUME NEW u \in Updaters, NEW x \in Fetching \cup Planning \cup Applying, Becomes(u, x) PROVE Back(v)'
  <2>1. up'[v] = x /\ x.pc \notin {"restoring", "launching"}
    BY <1>6, OnlyOneMoves DEF Fetching, Planning, Applying, Stages
  <2> QED
    BY <2>1 DEF Back
\* At the start of a record there is nothing yet.
<1>7. ASSUME NEW u \in Updaters, NEW x \in Restoring, Becomes(u, x), x.left = DOMAIN x.plan[x.at] PROVE Back(v)'
  <2>1. up'[v] = x
    BY <1>7, OnlyOneMoves
  <2> QED
    BY <1>7, <2>1 DEF Back, Recorded
\* Later, what was done and what this step does.
<1>8. ASSUME NEW u \in Updaters, NEW x \in Restoring, Becomes(u, x), x.plan = up[u].plan, x.at = up[u].at,
             up[u].pc \in {"restoring", "launching"}, Kept,
             \A i \in up[u].left \ x.left : PutBack(i, Recorded(u)[i])'
      PROVE  Back(v)'
  <2>1. up'[v] = x /\ v = u /\ Recorded(u)' = Recorded(u)
    BY <1>8, OnlyOneMoves DEF Recorded
  <2>2. ASSUME NEW i \in DOMAIN Recorded(u) \ x.left PROVE PutBack(i, Recorded(u)[i])'
    <3>1. CASE i \in up[u].left
      BY <1>8, <2>2, <3>1
    <3>2. CASE i \notin up[u].left
      <4>1. i \in Instances /\ Recorded(u)[i] \in Entry
        BY <1>8, <2>2, RestoringIs, EntriesOf
      <4>2. PICK e \in Entry : e = Recorded(u)[i]
        BY <4>1
      <4>3. PutBack(i, e)
        BY <1>8, <2>2, <3>2, <4>2, BackIs
      <4>4. PutBack(i, e)'
        BY <1>8, <4>1, <4>3, PutBackKept
      <4>5. Recorded(u)'[i] = e
        BY <2>1, <4>2
      <4> QED
        BY <4>4, <4>5 DEF PutBack
    <3> QED
      BY <3>1, <3>2
  <2> QED
    BY <2>1, <2>2 DEF Back, PutBack
<1> HIDE DEF Kept
<1>9. ASSUME NEW u \in Updaters, Restores(u), ~LaunchFails(u) PROVE Back(v)'
  <2>1. CASE Launched(u)
    <3>1. Kept /\ up[u].pc = "launching"
      BY <2>1 DEF Launched, At, Kept
    <3> QED
      BY <1>8, <2>1, <3>1, LaunchedIs
  <2>2. CASE Proved(u)
    BY <1>7, <2>2, ProvedIs, GoneIdle
  <2>3. ASSUME NEW k \in Instances, RestoreSaved(u, k) PROVE Back(v)'
    <3>1. PICK x \in Restoring : Becomes(u, x) /\ x.plan = saved /\ x.at = k /\ x.left = DOMAIN saved[k]
      BY <2>3, RestoreSavedIs
    <3> QED
      BY <1>7, <3>1
  <2>4. ASSUME NEW i \in Instances, RestoreResidency(u, i) \/ LeaveDown(u, i) \/ StartInstance(u, i)
        PROVE  Back(v)'
    <3>1. PICK x \in Restoring :
             Becomes(u, x) /\ x.plan = up[u].plan /\ x.at = up[u].at /\ x.left = up[u].left \ {i}
      BY <2>4, EntryDoneIs
    <3>2. Kept /\ up[u].pc = "restoring"
      BY <2>4 DEF RestoreResidency, LeaveDown, StartInstance, At, Kept
    <3>3. PutBack(i, Recorded(u)[i])'
      BY <2>4, PutBackNow
    <3> QED
      BY <1>8, <3>1, <3>2, <3>3
  <2> QED
    BY <1>9, <2>1, <2>2, <2>3, <2>4 DEF Restores
<1>10. ASSUME NEW u \in Updaters, Applies(u), ~Refused(u), ~Declined(u), ~LockHeld(u), ~Fails(u) PROVE Back(v)'
  <2>1. ASSUME NEW i \in Instances, NEW all \in BOOLEAN, NEW restart \in BOOLEAN, Preflight(u, i, all, restart)
        PROVE  Back(v)'
    BY <1>6, <2>1, PreflightIs
  <2>2. CASE Snapshot(u) \/ AcquireLock(u) \/ WriteState(u) \/ StopProcess(u)
    BY <1>6, <2>2, SnapshotIs, AcquireLockIs, WriteStateIs, StopProcessIs
  <2>3. ASSUME NEW i \in Instances, StopUnit(u, i) PROVE Back(v)'
    BY <1>6, <2>3, StopUnitIs
  <2>4. CASE Verified(u) \/ ApplySource(u) \/ SetupChecked(u)
    <3>1. PICK p \in Stages : GoesTo(u, p) /\ up[u].pc \in Stages
      BY <2>4 DEF Verified, ApplySource, SetupChecked, Stages, At
    <3> QED
      BY <1>6, <3>1, GoesToIs
  <2>5. CASE SetupDone(u)
    <3>1. CASE Becomes(u, Idle)
      BY <3>1, GoneIdle
    <3>2. CASE Becomes(u, RestoresNext(u, up[u].own))
      <4>1. RestoresNext(u, up[u].own) \in Restoring
        BY <2>5, RestoresNextIs DEF SetupDone, At, Stages
      <4> QED
        BY <1>7, <3>2, <4>1 DEF RestoresNext
    <3> QED
      BY <2>5, <3>1, <3>2 DEF SetupDone, Becomes
  <2> QED
    BY <1>10, <2>1, <2>2, <2>3, <2>4, <2>5 DEF Applies
<1> QED
  BY <1>2, <1>3, <1>4, <1>5, <1>9, <1>10 DEF UpdateNext

-----------------------------------------------------------------------------
(* The record of what was stopped. *)

LEMMA RememberedStep ==
    ASSUME UpdateTyped, OneUpdater, \A u \in Updaters : Known(u), DowntimeIsRemembered, [UpdateNext]_updateVars
    PROVE  DowntimeIsRemembered'
<1> USE DEF DowntimeIsRemembered
<1>0. /\ saved \in [Instances -> State \cup {Nothing}] /\ owed \in [Instances -> Entry \cup {Nothing}]
      /\ \A u \in Updaters : Known(u)
  BY DEF UpdateTyped, UpdateTypeOK
<1>1. CASE UNCHANGED <<saved, owed>>
  BY <1>1
\* A record is worked off and goes, with the debts that are on it.
<1>2. ASSUME NEW k \in Instances, saved' = [saved EXCEPT ![k] = Nothing], saved[k] # Nothing, Discharged(saved[k])
      PROVE  DowntimeIsRemembered'
  <2> SUFFICES ASSUME NEW i \in Instances, owed'[i] # Nothing
               PROVE  \E j \in Instances :
                         saved'[j] # Nothing /\ i \in DOMAIN saved'[j] /\ saved'[j][i] = owed'[i]
    OBVIOUS
  <2>1. owed'[i] = owed[i] /\ ~(i \in DOMAIN saved[k] /\ owed[i] = saved[k][i])
    BY <1>2 DEF Discharged
  <2>2. PICK j \in Instances : saved[j] # Nothing /\ i \in DOMAIN saved[j] /\ saved[j][i] = owed[i]
    BY <2>1
  <2> QED
    BY <1>0, <1>2, <2>1, <2>2
<1>3. ASSUME NEW i \in Instances, Environment(i) PROVE DowntimeIsRemembered'
  BY <1>1, <1>3, OutsideIs
<1>4. CASE Reboot
  BY <1>1, <1>4 DEF Reboot, ghosts
<1>5. ASSUME NEW u \in Updaters, Restores(u) PROVE DowntimeIsRemembered'
  <2>1. CASE Proved(u)
    <3>1. /\ up[u].at \in Instances /\ Recorded(u) \in State /\ up[u].pc = "restoring"
          /\ saved' = [saved EXCEPT ![up[u].at] = Nothing] /\ Discharged(Recorded(u))
      BY <2>1, RestoringIs DEF Proved, At
    <3>2. saved[up[u].at] = Recorded(u)
      BY <1>0, <3>1, NothingIsNoState DEF Known, Recorded
    <3> QED
      BY <1>2, <3>1, <3>2, NothingIsNoState
  <2> QED
    BY <1>1, <1>5, <2>1
       DEF Restores, RestoreSaved, RestoreResidency, LeaveDown, StartInstance, Launched, LaunchFails, ghosts
<1>6. ASSUME NEW u \in Updaters, Applies(u) PROVE DowntimeIsRemembered'
  <2>1. CASE WriteState(u)
    <3>1. /\ up[u].own \in Instances /\ saved[up[u].own] = Nothing /\ owed' = owed
          /\ saved' = [saved EXCEPT ![up[u].own] = up[u].plan[up[u].own]]
      BY <1>0, <2>1, PlanningIs DEF WriteState, At, Known, ghosts
    <3> QED
      BY <1>0, <3>1
  <2>2. ASSUME NEW i \in Instances, StopUnit(u, i) PROVE DowntimeIsRemembered'
    <3> DEFINE plan == up[u].plan[up[u].own]
    <3>1. up[u].own \in Instances /\ plan \in State /\ i \in DOMAIN plan /\ plan = saved[up[u].own]
      BY <1>0, <2>2, ApplyingIs DEF StopUnit, At, Stages, Targets, Known
    <3>2. saved' = saved /\ (owed' = owed \/ owed' = [owed EXCEPT ![i] = plan[i]])
      BY <2>2 DEF StopUnit
    <3> HIDE DEF plan
    <3> QED
      BY <1>0, <3>1, <3>2, NothingIsNoState
  <2>3. CASE SetupDone(u)
    <3>1. /\ up[u].own \in Instances /\ saved[up[u].own] = up[u].plan[up[u].own] /\ saved[up[u].own] # Nothing
      BY <1>0, <2>3, ApplyingIs, NothingIsNoState DEF SetupDone, At, Stages, Known
    <3> QED
      BY <1>1, <1>2, <2>3, <3>1 DEF SetupDone
  <2> QED
    BY <1>1, <1>6, <2>1, <2>2, <2>3
       DEF Applies, Preflight, Snapshot, Refused, Declined, AcquireLock, LockHeld, StopProcess, Verified,
           ApplySource, SetupChecked, Fails, ghosts
<1> QED
  BY <1>1, <1>3, <1>4, <1>5, <1>6 DEF UpdateNext, updateVars, ghosts, UpdaterDies

-----------------------------------------------------------------------------
(* The theorems. *)

\* Every variable keeps its type, and every stage of an invocation has what its
\* steps look up, however many run at once.
THEOREM UpdateTypeCorrect == UpdateSpec => []UpdateTyped
  BY UpdateTypedInit, UpdateTypedStep, PTL DEF UpdateSpec

LEMMA Beginning == UpdateInit => DowntimeIsRemembered /\ TornStaysDown /\ MarkerIsReady
                             /\ \A u \in Updaters : Known(u) /\ Down(u) /\ Back(u)
  BY DEF UpdateInit, DowntimeIsRemembered, TornStaysDown, MarkerIsReady, Known, Down, Back, Stages, Idle

\* writeState, restoreState and the rmSync behind it: what an update has stopped
\* stays on record until it is put back, whatever fails or dies when, as long as
\* nobody runs two updaters at once.
THEOREM DowntimeRemembered == ASSUME OneUpdater PROVE UpdateSpec => []DowntimeIsRemembered
<1> DEFINE Inv == DowntimeIsRemembered /\ \A u \in Updaters : Known(u)
<1>1. UpdateInit => Inv
  BY Beginning
<1>2. UpdateTyped /\ Inv /\ [UpdateNext]_updateVars => Inv'
  BY RememberedStep, KnownStep
<1>3. Inv => DowntimeIsRemembered
  OBVIOUS
<1> HIDE DEF Inv
<1> QED
  BY <1>1, <1>2, <1>3, UpdateTypeCorrect, PTL DEF UpdateSpec

\* stopInstance, verifyStopped and the residency they take down: no bot the
\* update stopped runs from files in the middle of a move, and none at all during
\* a build, if nobody runs two updaters at once and no unit was in its restart
\* pause when the update began.
THEOREM FilesAreWhole == ASSUME OneUpdater, Pauses = FALSE PROVE UpdateSpec => []NoBotOnTornFiles
<1> DEFINE Inv == TornStaysDown /\ \A u \in Updaters : Down(u)
<1>1. UpdateInit => Inv
  BY Beginning
<1>2. UpdateTyped /\ Inv /\ [UpdateNext]_updateVars => Inv'
  BY TornStep, DownStep
<1>3. UpdateTyped /\ Inv => NoBotOnTornFiles
  <2> SUFFICES ASSUME UpdateTyped, Inv PROVE NoBotOnTornFiles
    OBVIOUS
  <2>1. \A i \in torn : ~Live(i)
    BY DEF TornStaysDown
  <2>2. ASSUME NEW u \in Updaters, At(u, "setup") \/ At(u, "building") PROVE LiveInstances = {}
    BY <2>2 DEF Down, At, Stages, LiveInstances, Quiet
  <2> QED
    BY <2>1, <2>2 DEF NoBotOnTornFiles
<1> HIDE DEF Inv
<1> QED
  BY <1>1, <1>2, <1>3, UpdateTypeCorrect, PTL DEF UpdateSpec

\* restoreState with readyMarkerMatches: the record goes only when each bot on it
\* that ran is ready, or on its way out under a unit that brings it back, and each
\* unit is enabled that was.
THEOREM AllPutBack == ASSUME OneUpdater PROVE UpdateSpec => PutBackAsFound
<1> DEFINE Inv == MarkerIsReady /\ \A u \in Updaters : Known(u) /\ Back(u)
           Worked == \A u \in Updaters : At(u, "restoring") => \A k \in Instances :
                        saved[k] # Nothing /\ saved'[k] = Nothing /\ up[u].at = k => \A i \in DOMAIN saved[k] :
                            /\ saved[k][i].ran => proc[i] = "ready" \/ (proc[i] = "stopping" /\ active[i])
                            /\ saved[k][i].enabled => unit[i] = "enabled"
<1>1. UpdateInit => Inv
  BY Beginning
<1>2. UpdateTyped /\ Inv /\ [UpdateNext]_updateVars => Inv'
  BY MarkerStep, KnownStep, BackStep
<1>3. UpdateTyped /\ Inv /\ [UpdateNext]_updateVars => [Worked]_updateVars
  <2> SUFFICES ASSUME UpdateTyped, Inv, UpdateNext,
                      NEW u \in Updaters, At(u, "restoring"), NEW k \in Instances,
                      saved[k] # Nothing, saved'[k] = Nothing, up[u].at = k, NEW i \in DOMAIN saved[k]
               PROVE  /\ saved[k][i].ran => proc[i] = "ready" \/ (proc[i] = "stopping" /\ active[i])
                      /\ saved[k][i].enabled => unit[i] = "enabled"
    OBVIOUS
  <2>1. Proved(u)
    <3>1. ~Unattended
      BY DEF Unattended, At
    <3>2. ASSUME NEW v \in Updaters, Applies(v) PROVE saved' = saved
      <4>1. v = u
        BY DEF OneUpdater
      <4> QED
        BY <3>2, <4>1 DEF Applies, Preflight, Begins, Snapshot, Refused, Declined, AcquireLock, LockHeld,
           WriteState, StopUnit, StopProcess, Verified, ApplySource, SetupChecked, SetupDone, Fails, At
    <3>3. ASSUME NEW v \in Updaters, Restores(v), ~Proved(v) PROVE saved' = saved
      BY <3>3 DEF Restores, RestoreSaved, RestoreResidency, LeaveDown, StartInstance, Launched, LaunchFails
    <3>4. ASSUME NEW v \in Updaters, Proved(v) PROVE Proved(u)
      BY <3>4 DEF OneUpdater
    <3> QED
      BY <3>2, <3>3, <3>4, OutsideIs DEF UpdateNext, Reboot, UpdaterDies
  <2>2. Recorded(u) = saved[k] /\ Recorded(u) \in State /\ up[u].left = {}
    <3>1. Recorded(u) \in State /\ up[u].left = {} /\ up[u].pc = "restoring" /\ Known(u)
      BY <2>1, RestoringIs DEF Proved, At
    <3> QED
      BY <3>1, NothingIsNoState DEF Known, Recorded
  <2>3. i \in Instances /\ saved[k][i].ran \in BOOLEAN /\ saved[k][i].enabled \in BOOLEAN
    BY <2>2, EntriesOf
  <2>4. PutBack(i, saved[k][i])
    BY <2>1, <2>2, BackIs DEF Proved, At
  <2>5. saved[k][i].ran => proc[i] \in {"ready", "stopping"}
    BY <2>1, <2>2, <2>3 DEF Proved, Ready, MarkerIsReady
  <2> QED
    BY <2>3, <2>4, <2>5 DEF PutBack
<1> HIDE DEF Inv
<1> QED
  BY <1>1, <1>2, <1>3, UpdateTypeCorrect, PTL DEF UpdateSpec, PutBackAsFound
=============================================================================
