------------------------- MODULE NonceGuardProofs -------------------------
(***************************************************************************)
(* Machine-checked proofs about NonceGuard, for every value of its         *)
(* constants: the inductive invariant IInv, the safety properties that     *)
(* follow from it, and the implementation of ReplayProtection.             *)
(***************************************************************************)
EXTENDS NonceGuard, FiniteSetTheorems, TLAPS

(* expire() only ever takes due pairs out of the index, whatever the       *)
(* instant it runs with.                                                   *)
LEMMA SweepTakesDue ==
    ASSUME NEW now, NEW S \in Sweeps(now)
    PROVE  /\ S \subseteq expirations
           /\ \A e \in S : e[1] <= now
BY DEF Sweeps, Due

(* A key whose promise has not run out at the sampled instant, or that has *)
(* an owner, survives the sweep of an admission; any other key it forgets  *)
(* was due at that instant.                                                *)
LEMMA SweepSparesProtected ==
    ASSUME IInv, NEW now \in 0..clock, NEW S \in Sweeps(now), NEW k \in Keys
    PROVE  /\ clock < until[k] => AfterSweep(S)[k] = entries[k]
           /\ Owned(k) => AfterSweep(S)[k] = entries[k]
           /\ AfterSweep(S)[k] # None => /\ AfterSweep(S)[k] = entries[k]
                                         /\ \A e \in S : e[2] # k
<1>1. S \subseteq expirations /\ \A e \in S : e[1] <= now
  BY SweepTakesDue
<1>2. AfterSweep(S)[k] = IF \E e \in S : e[2] = k THEN None ELSE entries[k]
  BY DEF AfterSweep
<1>3. clock \in Nat /\ until[k] \in Nat /\ now \in Nat /\ now <= clock
  BY GuardAssumption DEF IInv, TypeOK
<1>4. \A e \in S : e[2] = k => until[k] <= clock
  BY <1>1, <1>3 DEF IInv, PromiseIndexed
<1>5. Owned(k) => \A e \in S : e[2] # k
  BY <1>1 DEF Owned, IInv, PendingProtected
<1> QED
  BY <1>2, <1>3, <1>4, <1>5

(* The table after a sweep, and the index, still have their types and      *)
(* still agree.                                                            *)
LEMMA SweepTypes ==
    ASSUME IInv, NEW now \in 0..clock, NEW S \in Sweeps(now)
    PROVE  /\ AfterSweep(S) \in [Keys -> Generations \cup {None}]
           /\ expirations \ S \subseteq (0..MaxInstant) \X Keys
           /\ \A e \in expirations \ S : AfterSweep(S)[e[2]] = entries[e[2]]
<1>1. AfterSweep(S) \in [Keys -> Generations \cup {None}]
  BY DEF AfterSweep, IInv, TypeOK
<1>2. expirations \ S \subseteq (0..MaxInstant) \X Keys
  BY DEF IInv, TypeOK
<1>3. ASSUME NEW e \in expirations \ S
      PROVE  AfterSweep(S)[e[2]] = entries[e[2]]
  <2>1. e[2] \in Keys
    BY <1>2
  <2>2. \A f \in S : f[2] # e[2]
    BY SweepTakesDue, <1>3 DEF IInv, IndexConsistent
  <2> QED
    BY <2>1, <2>2 DEF AfterSweep
<1> QED
  BY <1>1, <1>2, <1>3
---------------------------------------------------------------------------
(* The initial store is empty and nobody calls.                            *)
LEMMA InitIInv == Init => IInv
<1> SUFFICES ASSUME Init PROVE IInv
  OBVIOUS
<1> USE GuardAssumption DEF Init
<1>1. TypeOK
  BY DEF TypeOK, Resting
<1>2. CallerShape /\ GenerationsUnique /\ PendingProtected
  BY DEF CallerShape, GenerationsUnique, PendingProtected, Asking, Holding
<1>3. IndexConsistent /\ RetentionHeld /\ PromiseIndexed
  BY DEF IndexConsistent, RetentionHeld, PromiseIndexed, Protected, Holding
<1> QED
  BY <1>1, <1>2, <1>3 DEF IInv

(* Time passing changes no handle, no entry and no promise.                *)
LEMMA TickIInv == IInv /\ Tick => IInv'
<1> SUFFICES ASSUME IInv, Tick PROVE IInv'
  OBVIOUS
<1> USE GuardAssumption DEF Tick, store, caller
<1>1. TypeOK'
  BY DEF IInv, TypeOK
<1>2. CallerShape'
  BY DEF IInv, TypeOK, CallerShape
<1>3. GenerationsUnique' /\ IndexConsistent'
  BY DEF IInv, GenerationsUnique, IndexConsistent
<1>4. PendingProtected'
  BY DEF IInv, PendingProtected, Current
<1>5. RetentionHeld'
  BY DEF IInv, TypeOK, RetentionHeld
<1>6. PromiseIndexed'
  <2>1. \A o \in Ops : call[o] \in Holding /\ o \notin orphaned => until[key[o]] <= clock + 1
    BY DEF IInv, TypeOK, CallerShape, PromiseIndexed
  <2> QED
    BY <2>1 DEF IInv, TypeOK, PromiseIndexed, Protected, Owned
<1> QED
  BY <1>1, <1>2, <1>3, <1>4, <1>5, <1>6 DEF IInv

(* clear() empties the store, withdraws every promise and orphans every    *)
(* live handle.                                                            *)
LEMMA ClearIInv == IInv /\ Clear => IInv'
<1> SUFFICES ASSUME IInv, Clear PROVE IInv'
  OBVIOUS
<1> USE GuardAssumption DEF Clear, caller
<1>1. TypeOK'
  BY DEF IInv, TypeOK
<1>2. CallerShape'
  BY DEF IInv, CallerShape
<1>3. GenerationsUnique' /\ IndexConsistent'
  BY DEF IInv, CallerShape, GenerationsUnique, IndexConsistent
<1>4. PendingProtected'
  BY DEF PendingProtected
<1>5. RetentionHeld'
  BY DEF IInv, TypeOK, RetentionHeld
<1>6. PromiseIndexed'
  BY DEF IInv, TypeOK, PromiseIndexed, Protected
<1> QED
  BY <1>1, <1>2, <1>3, <1>4, <1>5, <1>6 DEF IInv

(* A call samples the clock and touches nothing that is shared.            *)
LEMMA CallIInv ==
    ASSUME IInv, NEW o \in Ops, NEW k \in Keys, NEW api \in Asking,
           CallGuard(o, k, api)
    PROVE  IInv'
<1> USE GuardAssumption DEF CallGuard, store, Resting, Asking, Holding
<1>1. TypeOK'
  BY DEF IInv, TypeOK
<1>2. CallerShape'
  BY DEF IInv, TypeOK, CallerShape
<1>3. GenerationsUnique' /\ IndexConsistent'
  BY DEF IInv, TypeOK, GenerationsUnique, IndexConsistent
<1>4. PendingProtected'
  BY DEF IInv, TypeOK, PendingProtected, Current
<1>5. RetentionHeld'
  BY DEF IInv, RetentionHeld
<1>6. PromiseIndexed'
  <2>1. \A p \in Ops : call'[p] \in Holding => call[p] \in Holding /\ key'[p] = key[p]
    BY DEF IInv, TypeOK
  <2>2. \A p \in Ops : call[p] \in Holding => call'[p] \in Holding /\ key'[p] = key[p]
    BY DEF IInv, TypeOK
  <2> QED
    BY <2>1, <2>2 DEF IInv, PromiseIndexed, Protected, Owned
<1> QED
  BY <1>1, <1>2, <1>3, <1>4, <1>5, <1>6 DEF IInv
---------------------------------------------------------------------------
(* A rejected admission sweeps and returns: what is pending or promised    *)
(* stays in the table.                                                     *)
LEMMA RejectIInv ==
    ASSUME IInv, NEW o \in Ops, call[o] \in Asking,
           NEW answer \in {"replayed", "full"}, Reject(o, answer),
           NEW S \in Sweeps(stamp[o]),
           entries' = AfterSweep(S), expirations' = expirations \ S
    PROVE  IInv'
<1> USE GuardAssumption DEF Reject, Answer, Resting, Asking, Holding
<1>0. stamp[o] \in 0..clock
  BY DEF IInv, TypeOK, CallerShape
<1>a. /\ \A k \in Keys : clock < until[k] => entries'[k] = entries[k]
      /\ \A k \in Keys : Owned(k) => entries'[k] = entries[k]
      /\ \A k \in Keys : entries'[k] # None => /\ entries'[k] = entries[k]
                                               /\ \A e \in S : e[2] # k
  BY <1>0, SweepSparesProtected
<1>b. /\ entries' \in [Keys -> Generations \cup {None}]
      /\ expirations' \subseteq (0..MaxInstant) \X Keys
      /\ \A e \in expirations' : entries'[e[2]] = entries[e[2]]
  BY <1>0, SweepTypes
<1>c. \A p \in Ops : /\ call'[p] \in Holding <=> call[p] \in Holding
                     /\ call'[p] \in Holding => key'[p] = key[p]
  BY DEF IInv, TypeOK
<1>1. TypeOK'
  BY <1>b DEF IInv, TypeOK
<1>2. CallerShape'
  BY DEF IInv, TypeOK, CallerShape
<1>3. GenerationsUnique'
  BY <1>a, <1>c DEF IInv, TypeOK, CallerShape, GenerationsUnique
<1>4. PendingProtected'
  <2>1. ASSUME NEW p \in Ops, call'[p] \in Holding, p \notin orphaned'
        PROVE  Current(p)' /\ \A e \in expirations' : e[2] # key'[p]
    <3>1. /\ call[p] \in Holding /\ p \notin orphaned
          /\ key'[p] = key[p] /\ key[p] \in Keys /\ generation'[p] = generation[p]
      BY <2>1, <1>c DEF IInv, TypeOK, CallerShape
    <3>2. Owned(key[p])
      BY <3>1 DEF Owned
    <3> QED
      BY <3>1, <3>2, <1>a DEF IInv, PendingProtected, Current
  <2> QED
    BY <2>1 DEF PendingProtected
<1>5. IndexConsistent'
  BY <1>b DEF IInv, IndexConsistent
<1>6. RetentionHeld'
  BY <1>a DEF IInv, RetentionHeld
<1>7. PromiseIndexed'
  <2>1. \A e \in expirations' : e[1] = until'[e[2]]
    BY DEF IInv, PromiseIndexed
  <2>2. \A k \in Keys : Owned(k) => Owned(k)'
    BY <1>c DEF Owned
  <2>3. \A k \in Protected' : \/ Owned(k)'
                              \/ <<until'[k], k>> \in expirations'
                              \/ until'[k] = MaxInstant + 1
    BY <1>a, <2>2 DEF IInv, PromiseIndexed, Protected
  <2>4. \A p \in Ops : call'[p] \in Holding /\ p \notin orphaned' => until'[key'[p]] <= clock'
    BY <1>c DEF IInv, PromiseIndexed
  <2> QED
    BY <2>1, <2>3, <2>4 DEF PromiseIndexed
<1> QED
  BY <1>1, <1>2, <1>3, <1>4, <1>5, <1>6, <1>7 DEF IInv

(* A key that the sweep leaves unprotected has no owner and no promise     *)
(* outstanding: this is what makes an admission safe.                      *)
LEMMA AbsentIsFree ==
    ASSUME IInv, NEW o \in Ops, call[o] \in Asking,
           NEW S \in Sweeps(stamp[o]), NEW k \in Keys, AfterSweep(S)[k] = None
    PROVE  /\ until[k] <= clock
           /\ ~Owned(k)
           /\ \A e \in expirations \ S : e[2] # k
<1>1. stamp[o] \in 0..clock
  BY GuardAssumption DEF IInv, TypeOK, CallerShape
<1>2. /\ clock < until[k] => AfterSweep(S)[k] = entries[k]
      /\ Owned(k) => AfterSweep(S)[k] = entries[k]
  BY <1>1, SweepSparesProtected
<1>3. until[k] <= clock
  BY <1>2, GuardAssumption DEF IInv, TypeOK, RetentionHeld
<1>4. ~Owned(k)
  BY <1>2, GuardAssumption DEF IInv, TypeOK, CallerShape, PendingProtected, Owned, Current
<1>5. \A e \in expirations \ S : e[2] # k
  BY <1>1, SweepTypes DEF IInv, IndexConsistent
<1> QED
  BY <1>3, <1>4, <1>5

LEMMA AdmitIInv == ASSUME IInv, NEW o \in Ops, Admit(o) PROVE IInv'
<1> USE GuardAssumption DEF Answer, Resting, Asking, Holding
<1>1. PICK S \in Sweeps(stamp[o]), g \in Generations \ LiveGenerations :
         /\ AfterSweep(S)[key[o]] = None
         /\ Cardinality({k \in Keys : AfterSweep(S)[k] # None}) < Capacity
         /\ entries' = [AfterSweep(S) EXCEPT ![key[o]] = g]
         /\ expirations' = expirations \ S
         /\ generation' = [generation EXCEPT ![o] = g]
  BY DEF Admit, Insert
<1>2. /\ call[o] \in Asking
      /\ call' \in [Ops -> Resting \cup Asking \cup Holding]
      /\ call'[o] \in Holding
      /\ \A p \in Ops \ {o} : call'[p] = call[p]
      /\ stamp' = [stamp EXCEPT ![o] = 0]
      /\ UNCHANGED <<clock, key, retain, orphaned, until>>
  BY DEF Admit, Insert, IInv, TypeOK
<1>3. key[o] \in Keys /\ o \notin orphaned /\ generation[o] = None
  BY <1>2 DEF IInv, TypeOK, CallerShape
<1>4. stamp[o] \in 0..clock
  BY DEF IInv, TypeOK, CallerShape
<1>5. /\ until[key[o]] <= clock
      /\ ~Owned(key[o])
      /\ \A e \in expirations \ S : e[2] # key[o]
  BY <1>1, <1>2, <1>3, AbsentIsFree
<1>6. /\ AfterSweep(S) \in [Keys -> Generations \cup {None}]
      /\ expirations' \subseteq (0..MaxInstant) \X Keys
      /\ \A e \in expirations' : AfterSweep(S)[e[2]] = entries[e[2]]
  BY <1>1, <1>4, SweepTypes
<1>7. /\ \A k \in Keys : clock < until[k] => AfterSweep(S)[k] = entries[k]
      /\ \A k \in Keys : Owned(k) => AfterSweep(S)[k] = entries[k]
      /\ \A k \in Keys : AfterSweep(S)[k] # None => /\ AfterSweep(S)[k] = entries[k]
                                                    /\ \A e \in S : e[2] # k
  BY <1>4, SweepSparesProtected
<1>8. /\ entries'[key[o]] = g
      /\ \A k \in Keys \ {key[o]} : entries'[k] = AfterSweep(S)[k]
  BY <1>1, <1>3, <1>6
<1>9. /\ \A p \in Ops : generation[p] # g
      /\ \A k \in Keys : entries[k] # g
      /\ g # None /\ g \in Generations
  BY <1>1 DEF LiveGenerations
<1>10. generation'[o] = g /\ \A p \in Ops \ {o} : generation'[p] = generation[p]
  BY <1>1 DEF IInv, TypeOK
<1>a. TypeOK'
  BY <1>1, <1>2, <1>3, <1>6 DEF IInv, TypeOK
<1>b. CallerShape'
  <2>1. \A p \in Ops : /\ key'[p] # None <=> call'[p] \in Asking \cup Holding
                       /\ generation'[p] # None <=> call'[p] \in Holding
    BY <1>2, <1>3, <1>9, <1>10 DEF IInv, CallerShape
  <2>2. \A p \in Ops : stamp'[p] <= clock'
    BY <1>2 DEF IInv, TypeOK, CallerShape
  <2>3. \A p \in Ops : retain'[p] => call'[p] = "held"
    BY <1>2 DEF IInv, CallerShape
  <2>4. \A p \in orphaned' : call'[p] \in Holding
    BY <1>2, <1>3 DEF IInv, TypeOK, CallerShape
  <2> QED
    BY <2>1, <2>2, <2>3, <2>4 DEF CallerShape
<1>c. GenerationsUnique'
  <2>1. \A p, q \in Ops : call'[p] \in Holding /\ generation'[p] = generation'[q] => p = q
    BY <1>2, <1>9, <1>10 DEF IInv, GenerationsUnique
  <2>2. ASSUME NEW p \in Ops, NEW k \in Keys,
               call'[p] \in Holding, entries'[k] = generation'[p]
        PROVE  k = key'[p] /\ p \notin orphaned'
    <3>1. CASE p = o
      BY <3>1, <2>2, <1>2, <1>3, <1>7, <1>8, <1>9, <1>10
    <3>2. CASE p # o
      <4>1. call[p] \in Holding /\ generation'[p] = generation[p] /\ generation[p] # None
        BY <3>2, <2>2, <1>2, <1>10 DEF IInv, CallerShape
      <4>2. k # key[o]
        BY <4>1, <2>2, <1>8, <1>9
      <4>3. entries[k] = generation[p]
        BY <4>1, <4>2, <2>2, <1>7, <1>8
      <4> QED
        BY <4>1, <4>3, <1>2 DEF IInv, GenerationsUnique
    <3> QED
      BY <3>1, <3>2
  <2> QED
    BY <2>1, <2>2 DEF GenerationsUnique
<1>d. PendingProtected'
  <2>1. ASSUME NEW p \in Ops, call'[p] \in Holding, p \notin orphaned'
        PROVE  Current(p)' /\ \A e \in expirations' : e[2] # key'[p]
    <3>1. CASE p = o
      BY <3>1, <1>1, <1>2, <1>5, <1>8, <1>10 DEF Current
    <3>2. CASE p # o
      <4>1. call[p] \in Holding /\ p \notin orphaned /\ key[p] \in Keys
        BY <3>2, <2>1, <1>2 DEF IInv, TypeOK, CallerShape
      <4>2. Owned(key[p])
        BY <4>1 DEF Owned
      <4>3. key[p] # key[o]
        BY <4>2, <1>5
      <4> QED
        BY <3>2, <4>1, <4>2, <4>3, <1>1, <1>2, <1>7, <1>8, <1>10
           DEF IInv, PendingProtected, Current
    <3> QED
      BY <3>1, <3>2
  <2> QED
    BY <2>1 DEF PendingProtected
<1>e. IndexConsistent'
  <2>1. \A e \in expirations' : e[2] \in Keys /\ e[2] # key[o]
    BY <1>1, <1>5, <1>6
  <2> QED
    BY <2>1, <1>1, <1>6, <1>8 DEF IInv, IndexConsistent
<1>f. RetentionHeld'
  BY <1>2, <1>5, <1>7, <1>8, <1>9 DEF IInv, TypeOK, RetentionHeld
<1>g. PromiseIndexed'
  <2>1. \A e \in expirations' : e[1] = until'[e[2]]
    BY <1>1, <1>2 DEF IInv, PromiseIndexed
  <2>2. \A k \in Keys : Owned(k) => Owned(k)'
    BY <1>2 DEF Owned
  <2>3. ASSUME NEW k \in Protected'
        PROVE  \/ Owned(k)'
               \/ <<until'[k], k>> \in expirations'
               \/ until'[k] = MaxInstant + 1
    <3>1. CASE k = key[o]
      BY <3>1, <1>2, <1>3 DEF Owned
    <3>2. CASE k # key[o]
      BY <3>2, <2>2, <2>3, <1>1, <1>2, <1>7, <1>8 DEF IInv, PromiseIndexed, Protected
    <3> QED
      BY <3>1, <3>2
  <2>4. \A p \in Ops : call'[p] \in Holding /\ p \notin orphaned' => until'[key'[p]] <= clock'
    BY <1>2, <1>5 DEF IInv, PromiseIndexed
  <2> QED
    BY <2>1, <2>3, <2>4 DEF PromiseIndexed
<1> QED
  BY <1>a, <1>b, <1>c, <1>d, <1>e, <1>f, <1>g DEF IInv
---------------------------------------------------------------------------
(* What the end of a handle does to its caller and to nobody else.         *)
LEMMA EndHandleFacts ==
    ASSUME IInv, NEW o \in Ops, call[o] \in Holding, EndHandle(o)
    PROVE  /\ call'[o] = "idle" /\ key'[o] = None /\ generation'[o] = None
           /\ \A p \in Ops \ {o} : /\ call'[p] = call[p] /\ key'[p] = key[p]
                                   /\ generation'[p] = generation[p]
           /\ CallerShape'
           /\ call' \in [Ops -> Resting \cup Asking \cup Holding]
           /\ key' \in [Ops -> Keys \cup {None}]
           /\ generation' \in [Ops -> Generations \cup {None}]
           /\ retain' \in [Ops -> BOOLEAN]
           /\ key[o] \in Keys
<1> USE GuardAssumption DEF EndHandle, Resting, Asking, Holding
<1>1. CallerShape'
  BY DEF IInv, TypeOK, CallerShape
<1> QED
  BY <1>1 DEF IInv, TypeOK, CallerShape

(* An orphaned handle is never current, a pending one always is: Drop      *)
(* tells them apart by the generation alone.                               *)
LEMMA CurrentIsOwner ==
    ASSUME IInv, NEW o \in Ops, call[o] \in Holding
    PROVE  Current(o) <=> o \notin orphaned
BY DEF IInv, TypeOK, CallerShape, GenerationsUnique, PendingProtected, Current, Holding, Asking

(* Only one pending handle exists for a key.                               *)
LEMMA OneOwner ==
    ASSUME IInv, NEW o \in Ops, NEW p \in Ops,
           call[o] \in Holding, call[p] \in Holding,
           o \notin orphaned, p \notin orphaned, key[o] = key[p]
    PROVE  o = p
BY DEF IInv, GenerationsUnique, PendingProtected, Current

LEMMA DropReleasedIInv ==
    ASSUME IInv, NEW o \in Ops, call[o] \in Holding, DropReleased(o)
    PROVE  IInv'
<1> USE GuardAssumption DEF store
<1>1. /\ UNCHANGED <<until, clock, stamp>> /\ EndHandle(o)
      /\ orphaned' = orphaned \ {o}
      /\ expirations' = expirations
  BY DEF DropReleased, EndHandle, Forget, Superseded
<1>2. /\ call'[o] = "idle" /\ key'[o] = None /\ generation'[o] = None
      /\ \A p \in Ops \ {o} : /\ call'[p] = call[p] /\ key'[p] = key[p]
                              /\ generation'[p] = generation[p]
      /\ CallerShape'
      /\ call' \in [Ops -> Resting \cup Asking \cup Holding]
      /\ key' \in [Ops -> Keys \cup {None}]
      /\ generation' \in [Ops -> Generations \cup {None}]
      /\ retain' \in [Ops -> BOOLEAN]
      /\ key[o] \in Keys
  BY <1>1, EndHandleFacts
<1>3. call'[o] \notin Holding
  BY <1>2 DEF Holding
<1>4. \/ /\ o \notin orphaned
         /\ entries'[key[o]] = None
         /\ \A k \in Keys \ {key[o]} : entries'[k] = entries[k]
      \/ o \in orphaned /\ entries' = entries
  BY <1>2, CurrentIsOwner DEF DropReleased, Forget, Superseded, IInv, TypeOK
<1>5. \A k \in Keys : entries'[k] = entries[k] \/ entries'[k] = None
  BY <1>4
<1>6. ASSUME NEW p \in Ops, call'[p] \in Holding, p \notin orphaned'
      PROVE  /\ p # o /\ call[p] \in Holding /\ p \notin orphaned
             /\ key'[p] = key[p] /\ generation'[p] = generation[p]
             /\ key[p] \in Keys
             /\ entries'[key[p]] = entries[key[p]]
  <2>1. p # o /\ call[p] \in Holding /\ p \notin orphaned
    BY <1>1, <1>2, <1>3, <1>6
  <2>2. key'[p] = key[p] /\ generation'[p] = generation[p] /\ key[p] \in Keys
    BY <1>2, <2>1 DEF IInv, TypeOK, CallerShape
  <2>3. o \notin orphaned => key[p] # key[o]
    BY <2>1, OneOwner
  <2> QED
    BY <1>4, <2>1, <2>2, <2>3
<1>a. TypeOK'
  <2>1. entries' \in [Keys -> Generations \cup {None}]
    BY <1>2 DEF DropReleased, Forget, Superseded, IInv, TypeOK
  <2> QED
    BY <1>1, <1>2, <2>1 DEF IInv, TypeOK
<1>c. GenerationsUnique'
  <2>1. \A p, q \in Ops : call'[p] \in Holding /\ generation'[p] = generation'[q] => p = q
    BY <1>2, <1>3 DEF IInv, TypeOK, CallerShape, GenerationsUnique
  <2>2. ASSUME NEW p \in Ops, NEW k \in Keys,
               call'[p] \in Holding, entries'[k] = generation'[p]
        PROVE  k = key'[p] /\ p \notin orphaned'
    <3>1. p # o /\ call[p] \in Holding /\ generation'[p] = generation[p] /\ key'[p] = key[p]
      BY <2>2, <1>2, <1>3
    <3>2. entries[k] = generation[p]
      BY <3>1, <2>2, <1>5 DEF IInv, CallerShape
    <3> QED
      BY <3>1, <3>2, <1>1 DEF IInv, GenerationsUnique
  <2> QED
    BY <2>1, <2>2 DEF GenerationsUnique
<1>d. PendingProtected'
  BY <1>1, <1>6 DEF IInv, PendingProtected, Current
<1>e. IndexConsistent'
  <2>1. ASSUME NEW e \in expirations
        PROVE  entries'[e[2]] = entries[e[2]]
    <3>1. e[2] \in Keys
      BY DEF IInv, TypeOK
    <3>2. o \notin orphaned => e[2] # key[o]
      BY DEF IInv, PendingProtected
    <3> QED
      BY <1>4, <3>1, <3>2
  <2> QED
    BY <1>1, <2>1 DEF IInv, IndexConsistent
<1>f. RetentionHeld'
  <2>1. o \notin orphaned => ~(clock < until[key[o]])
    BY <1>2 DEF IInv, TypeOK, PromiseIndexed
  <2> QED
    BY <1>1, <1>4, <2>1 DEF IInv, RetentionHeld
<1>g. PromiseIndexed'
  <2>1. \A p \in Ops : call'[p] \in Holding /\ p \notin orphaned' => until'[key'[p]] <= clock'
    BY <1>1, <1>6 DEF IInv, PromiseIndexed
  <2>2. ASSUME NEW k \in Protected'
        PROVE  \/ Owned(k)'
               \/ <<until'[k], k>> \in expirations'
               \/ until'[k] = MaxInstant + 1
    <3>1. k \in Protected /\ (o \notin orphaned => k # key[o])
      BY <1>4, <1>5 DEF Protected
    <3>2. ASSUME Owned(k) PROVE Owned(k)'
      <4>1. PICK p \in Ops : call[p] \in Holding /\ p \notin orphaned /\ key[p] = k
        BY <3>2 DEF Owned
      <4>2. p # o
        BY <3>1, <4>1
      <4> QED
        BY <4>1, <4>2, <1>1, <1>2 DEF Owned
    <3> QED
      BY <3>1, <3>2, <1>1 DEF IInv, PromiseIndexed
  <2> QED
    BY <1>1, <2>1, <2>2 DEF IInv, PromiseIndexed
<1> QED
  BY <1>2, <1>a, <1>c, <1>d, <1>e, <1>f, <1>g DEF IInv
(* Ending a handle whose outcome is complete or unknown: the key stays and *)
(* its deadline is the promised one, or never comes.                       *)
LEMMA DropRetainedIInv ==
    ASSUME IInv, NEW o \in Ops, call[o] \in Holding, DropRetained(o)
    PROVE  IInv'
<1> USE GuardAssumption DEF store
<1>1. /\ UNCHANGED <<clock, stamp>> /\ EndHandle(o)
      /\ orphaned' = orphaned \ {o}
      /\ entries' = entries
  BY DEF DropRetained, EndHandle, Keep, Superseded
<1>2. /\ call'[o] = "idle" /\ key'[o] = None /\ generation'[o] = None
      /\ \A p \in Ops \ {o} : /\ call'[p] = call[p] /\ key'[p] = key[p]
                              /\ generation'[p] = generation[p]
      /\ CallerShape'
      /\ call' \in [Ops -> Resting \cup Asking \cup Holding]
      /\ key' \in [Ops -> Keys \cup {None}]
      /\ generation' \in [Ops -> Generations \cup {None}]
      /\ retain' \in [Ops -> BOOLEAN]
      /\ key[o] \in Keys
  BY <1>1, EndHandleFacts
<1>3. call'[o] \notin Holding
  BY <1>2 DEF Holding
<1>4. Current(o) <=> o \notin orphaned
  BY CurrentIsOwner
<1>5. \/ /\ o \notin orphaned
         /\ expirations' = expirations \cup
               {e \in {<<clock + Ttl, key[o]>>} : e[1] <= MaxInstant}
         /\ until' = [until EXCEPT ![key[o]] = Deadline(clock)]
         /\ entries[key[o]] = generation[o]
      \/ o \in orphaned /\ expirations' = expirations /\ until' = until
  BY <1>4 DEF DropRetained, Keep, Superseded, Current
<1>6. /\ Deadline(clock) \in 0..(MaxInstant + 1)
      /\ clock + Ttl <= MaxInstant => /\ Deadline(clock) = clock + Ttl
                                      /\ clock + Ttl \in 0..MaxInstant
      /\ ~(clock + Ttl <= MaxInstant) => Deadline(clock) = MaxInstant + 1
  BY DEF Deadline, IInv, TypeOK
<1>7. ASSUME NEW p \in Ops, call'[p] \in Holding, p \notin orphaned'
      PROVE  /\ p # o /\ call[p] \in Holding /\ p \notin orphaned
             /\ key'[p] = key[p] /\ generation'[p] = generation[p]
             /\ key[p] \in Keys
             /\ o \notin orphaned => key[p] # key[o]
  <2>1. p # o /\ call[p] \in Holding /\ p \notin orphaned
    BY <1>1, <1>2, <1>3, <1>7
  <2>2. key'[p] = key[p] /\ generation'[p] = generation[p] /\ key[p] \in Keys
    BY <1>2, <2>1 DEF IInv, TypeOK, CallerShape
  <2>3. o \notin orphaned => key[p] # key[o]
    BY <2>1, OneOwner
  <2> QED
    BY <2>1, <2>2, <2>3
<1>8. \A e \in expirations : e[2] \in Keys /\ (o \notin orphaned => e[2] # key[o])
  BY DEF IInv, TypeOK, PendingProtected
<1>9. ASSUME NEW e \in expirations' \ expirations
      PROVE  /\ o \notin orphaned
             /\ e = <<clock + Ttl, key[o]>>
             /\ clock + Ttl <= MaxInstant
             /\ entries[key[o]] = generation[o]
  BY <1>5
<1>a. TypeOK'
  <2>1. until' \in [Keys -> 0..(MaxInstant + 1)]
    BY <1>5, <1>6 DEF IInv, TypeOK
  <2>2. expirations' \subseteq (0..MaxInstant) \X Keys
    BY <1>2, <1>6, <1>9 DEF IInv, TypeOK
  <2> QED
    BY <1>1, <1>2, <2>1, <2>2 DEF IInv, TypeOK
<1>c. GenerationsUnique'
  <2>1. \A p, q \in Ops : call'[p] \in Holding /\ generation'[p] = generation'[q] => p = q
    BY <1>2, <1>3 DEF IInv, TypeOK, CallerShape, GenerationsUnique
  <2>2. ASSUME NEW p \in Ops, NEW k \in Keys,
               call'[p] \in Holding, entries'[k] = generation'[p]
        PROVE  k = key'[p] /\ p \notin orphaned'
    <3>1. p # o /\ call[p] \in Holding /\ generation'[p] = generation[p] /\ key'[p] = key[p]
      BY <2>2, <1>2, <1>3
    <3> QED
      BY <3>1, <2>2, <1>1 DEF IInv, GenerationsUnique
  <2> QED
    BY <2>1, <2>2 DEF GenerationsUnique
<1>d. PendingProtected'
  <2>1. ASSUME NEW p \in Ops, call'[p] \in Holding, p \notin orphaned'
        PROVE  Current(p)' /\ \A e \in expirations' : e[2] # key'[p]
    <3>1. Current(p)'
      BY <2>1, <1>1, <1>7 DEF IInv, PendingProtected, Current
    <3>2. ASSUME NEW e \in expirations' PROVE e[2] # key'[p]
      <4>1. CASE e \in expirations
        BY <4>1, <2>1, <1>7 DEF IInv, PendingProtected
      <4>2. CASE e \notin expirations
        BY <4>2, <2>1, <1>7, <1>9
      <4> QED
        BY <4>1, <4>2
    <3> QED
      BY <3>1, <3>2
  <2> QED
    BY <2>1 DEF PendingProtected
<1>e. IndexConsistent'
  <2>1. \A e \in expirations' \ expirations : entries'[e[2]] # None
    BY <1>1, <1>9 DEF IInv, CallerShape
  <2>2. \A e, f \in expirations' : e[2] = f[2] => e = f
    BY <1>8, <1>9 DEF IInv, IndexConsistent
  <2> QED
    BY <1>1, <2>1, <2>2 DEF IInv, IndexConsistent
<1>f. RetentionHeld'
  <2>1. \A k \in Keys : (o \notin orphaned => k # key[o]) => until'[k] = until[k]
    BY <1>5 DEF IInv, TypeOK
  <2>2. o \notin orphaned => entries'[key[o]] # None
    BY <1>1, <1>5 DEF IInv, CallerShape
  <2> QED
    BY <1>1, <2>1, <2>2 DEF IInv, RetentionHeld
<1>g. PromiseIndexed'
  <2>1. \A k \in Keys : (o \notin orphaned => k # key[o]) => until'[k] = until[k]
    BY <1>5 DEF IInv, TypeOK
  <2>2. o \notin orphaned => until'[key[o]] = Deadline(clock)
    BY <1>2, <1>5 DEF IInv, TypeOK
  <2>3. ASSUME NEW e \in expirations' PROVE e[1] = until'[e[2]]
    <3>1. CASE e \in expirations
      BY <3>1, <1>8, <2>1 DEF IInv, PromiseIndexed
    <3>2. CASE e \notin expirations
      BY <3>2, <1>6, <1>9, <2>2
    <3> QED
      BY <3>1, <3>2
  <2>4. \A p \in Ops : call'[p] \in Holding /\ p \notin orphaned' => until'[key'[p]] <= clock'
    BY <1>1, <1>7, <2>1 DEF IInv, PromiseIndexed
  <2>5. ASSUME NEW k \in Protected'
        PROVE  \/ Owned(k)'
               \/ <<until'[k], k>> \in expirations'
               \/ until'[k] = MaxInstant + 1
    <3>1. k \in Protected
      BY <1>1 DEF Protected
    <3>2. CASE o \notin orphaned /\ k = key[o]
      BY <3>2, <1>5, <1>6, <2>2
    <3>3. CASE ~(o \notin orphaned /\ k = key[o])
      <4>1. until'[k] = until[k]
        BY <3>1, <3>3, <2>1 DEF Protected
      <4>2. ASSUME Owned(k) PROVE Owned(k)'
        <5>1. PICK p \in Ops : call[p] \in Holding /\ p \notin orphaned /\ key[p] = k
          BY <4>2 DEF Owned
        <5>2. p # o
          BY <3>3, <5>1
        <5> QED
          BY <5>1, <5>2, <1>1, <1>2 DEF Owned
      <4>3. expirations \subseteq expirations'
        BY <1>5
      <4> QED
        BY <3>1, <4>1, <4>2, <4>3 DEF IInv, PromiseIndexed
    <3> QED
      BY <3>2, <3>3
  <2> QED
    BY <2>3, <2>4, <2>5 DEF PromiseIndexed
<1> QED
  BY <1>2, <1>a, <1>c, <1>d, <1>e, <1>f, <1>g DEF IInv
---------------------------------------------------------------------------
(* Setting the retain flag changes the handle alone.                       *)
LEMMA RetainOnDropIInv == ASSUME IInv, NEW o \in Ops, RetainOnDrop(o) PROVE IInv'
<1> USE GuardAssumption DEF RetainOnDrop, store
<1>1. TypeOK'
  BY DEF IInv, TypeOK
<1>2. CallerShape'
  BY DEF IInv, TypeOK, CallerShape
<1>3. GenerationsUnique' /\ IndexConsistent'
  BY DEF IInv, GenerationsUnique, IndexConsistent
<1>4. PendingProtected'
  BY DEF IInv, PendingProtected, Current
<1>5. RetentionHeld'
  BY DEF IInv, RetentionHeld
<1>6. PromiseIndexed'
  BY DEF IInv, PromiseIndexed, Protected, Owned
<1> QED
  BY <1>1, <1>2, <1>3, <1>4, <1>5, <1>6 DEF IInv

LEMMA StutterIInv == IInv /\ UNCHANGED vars => IInv'
<1> SUFFICES ASSUME IInv, UNCHANGED vars PROVE IInv'
  OBVIOUS
<1> USE DEF vars
<1>1. TypeOK' /\ CallerShape' /\ GenerationsUnique' /\ IndexConsistent' /\ RetentionHeld'
  BY DEF IInv, TypeOK, CallerShape, GenerationsUnique, IndexConsistent, RetentionHeld
<1>2. PendingProtected'
  BY DEF IInv, PendingProtected, Current
<1>3. PromiseIndexed'
  BY DEF IInv, PromiseIndexed, Protected, Owned
<1> QED
  BY <1>1, <1>2, <1>3 DEF IInv

(* Every step of the guard preserves the inductive invariant.              *)
LEMMA NextIInv == IInv /\ [Next]_vars => IInv'
<1> SUFFICES ASSUME IInv, [Next]_vars PROVE IInv'
  OBVIOUS
<1>1. CASE Tick
  BY <1>1, TickIInv
<1>2. CASE Clear
  BY <1>2, ClearIInv
<1>3. ASSUME NEW o \in Ops, CallerStep(o) PROVE IInv'
  <2>1. ASSUME NEW k \in Keys, CallReserve(o, k) \/ CallCheckAndRecord(o, k) PROVE IInv'
    <3>1. \E api \in Asking : CallGuard(o, k, api)
      BY <2>1 DEF CallReserve, CallCheckAndRecord, Asking
    <3> QED
      BY <3>1, CallIInv
  <2>2. CASE Admit(o)
    BY <2>2, AdmitIInv
  <2>3. CASE ReplayDetected(o)
    <3>1. PICK S \in Sweeps(stamp[o]) : /\ entries' = AfterSweep(S)
                                        /\ expirations' = expirations \ S
      BY <2>3 DEF ReplayDetected
    <3> QED
      BY <2>3, <3>1, RejectIInv DEF ReplayDetected
  <2>4. CASE CapacityExceeded(o)
    <3>1. PICK S \in Sweeps(stamp[o]) : /\ entries' = AfterSweep(S)
                                        /\ expirations' = expirations \ S
      BY <2>4 DEF CapacityExceeded
    <3> QED
      BY <2>4, <3>1, RejectIInv DEF CapacityExceeded
  <2>5. CASE RetainOnDrop(o)
    BY <2>5, RetainOnDropIInv
  <2>6. CASE Release(o) \/ Drop(o) \/ Record(o)
    <3>1. call[o] \in Holding /\ (DropReleased(o) \/ DropRetained(o))
      BY <2>6 DEF Release, Drop, Record, Holding
    <3> QED
      BY <3>1, DropReleasedIInv, DropRetainedIInv
  <2> QED
    BY <1>3, <2>1, <2>2, <2>3, <2>4, <2>5, <2>6 DEF CallerStep
<1>4. CASE UNCHANGED vars
  BY <1>4, StutterIInv
<1> QED
  BY <1>1, <1>2, <1>3, <1>4 DEF Next

(* The inductive invariant holds of every behaviour of the guard.          *)
THEOREM InvariantHolds == Spec => []IInv
<1> QED
  BY InitIInv, NextIInv, PTL DEF Spec

(* Type correctness, for any keys, callers, capacity, TTL and sweep limit. *)
THEOREM TypeCorrect == Spec => []TypeOK
<1>1. IInv => TypeOK
  BY DEF IInv
<1> QED
  BY <1>1, InvariantHolds, PTL

(* No pending reservation is ever expired, evicted or taken over, and the  *)
(* table and its deadline index never disagree (Drop, expire, clear).      *)
THEOREM PendingSafe == Spec => [](PendingProtected /\ IndexConsistent)
<1>1. IInv => PendingProtected /\ IndexConsistent
  BY DEF IInv
<1> QED
  BY <1>1, InvariantHolds, PTL

(* An authorization that ended completed or uncertain stays in the table   *)
(* until its TTL has run out, however stale the instants of the sweeps.    *)
THEOREM RetentionSafe == Spec => []RetentionHeld
<1>1. IInv => RetentionHeld
  BY DEF IInv
<1> QED
  BY <1>1, InvariantHolds, PTL
---------------------------------------------------------------------------
(* The table never outgrows max_capacity.                                  *)

Remaining(S) == {k \in Keys : AfterSweep(S)[k] # None}

LEMMA ProtectedFinite ==
    /\ IsFiniteSet(Protected)
    /\ Cardinality(Protected) \in Nat
    /\ \A T \in SUBSET Protected : /\ IsFiniteSet(T)
                                   /\ Cardinality(T) \in Nat
                                   /\ Cardinality(T) <= Cardinality(Protected)
                                   /\ Cardinality(T) = Cardinality(Protected) => T = Protected
<1>1. IsFiniteSet(Protected)
  BY FS_Subset, GuardAssumption DEF Protected
<1> QED
  BY <1>1, FS_Subset, FS_CardinalityType

LEMMA RemainingProtected ==
    ASSUME NEW S PROVE Remaining(S) \subseteq Protected
BY DEF Remaining, Protected, AfterSweep

(* Admission is the only step that adds a key, and it needs room.          *)
LEMMA NextCapacity == IInv /\ CapacityBound /\ [Next]_vars => CapacityBound'
<1> SUFFICES ASSUME IInv, CapacityBound, [Next]_vars PROVE CapacityBound'
  OBVIOUS
<1>1. ASSUME Protected' \subseteq Protected PROVE CapacityBound'
  BY <1>1, ProtectedFinite, GuardAssumption DEF CapacityBound
<1>2. ASSUME entries' = entries PROVE CapacityBound'
  BY <1>1, <1>2 DEF Protected
<1>3. ASSUME NEW S, entries' = AfterSweep(S) PROVE CapacityBound'
  BY <1>1, <1>3, RemainingProtected DEF Remaining, Protected
<1>4. ASSUME NEW o \in Ops, Admit(o) PROVE CapacityBound'
  <2>1. PICK S, g : /\ Cardinality(Remaining(S)) < Capacity
                    /\ entries' = [AfterSweep(S) EXCEPT ![key[o]] = g]
    BY <1>4 DEF Admit, Insert, Remaining
  <2>2. Protected' \subseteq Remaining(S) \cup {key[o]}
    BY <2>1 DEF Protected, Remaining, AfterSweep
  <2>3. IsFiniteSet(Remaining(S)) /\ Cardinality(Remaining(S)) \in Nat
    BY RemainingProtected, ProtectedFinite
  <2>4. /\ IsFiniteSet(Remaining(S) \cup {key[o]})
        /\ Cardinality(Remaining(S) \cup {key[o]}) \in Nat
        /\ Cardinality(Remaining(S) \cup {key[o]}) <= Cardinality(Remaining(S)) + 1
    <3>1. /\ IsFiniteSet(Remaining(S) \cup {key[o]})
          /\ Cardinality(Remaining(S) \cup {key[o]}) =
                IF key[o] \in Remaining(S) THEN Cardinality(Remaining(S))
                ELSE Cardinality(Remaining(S)) + 1
      BY <2>3, FS_AddElement, Zenon
    <3> QED
      BY <2>3, <3>1
  <2>5. /\ Cardinality(Protected') \in Nat
        /\ Cardinality(Protected') <= Cardinality(Remaining(S) \cup {key[o]})
    <3>1. Protected' \in SUBSET (Remaining(S) \cup {key[o]})
      BY <2>2
    <3>2. /\ IsFiniteSet(Protected')
          /\ Cardinality(Protected') <= Cardinality(Remaining(S) \cup {key[o]})
      BY <2>4, <3>1, FS_Subset
    <3> QED
      BY <3>2, FS_CardinalityType
  <2> QED
    BY <2>1, <2>3, <2>4, <2>5, GuardAssumption DEF CapacityBound
<1>5. CASE Tick \/ UNCHANGED vars
  BY <1>2, <1>5 DEF Tick, store, vars
<1>6. CASE Clear
  BY <1>1, <1>6 DEF Clear, Protected
<1>7. ASSUME NEW o \in Ops, CallerStep(o) PROVE CapacityBound'
  <2>1. CASE \/ \E k \in Keys : CallReserve(o, k) \/ CallCheckAndRecord(o, k)
             \/ RetainOnDrop(o)
    BY <2>1, <1>2 DEF CallReserve, CallCheckAndRecord, CallGuard, RetainOnDrop, store
  <2>2. CASE Admit(o)
    BY <2>2, <1>4
  <2>3. CASE ReplayDetected(o) \/ CapacityExceeded(o)
    BY <2>3, <1>3 DEF ReplayDetected, CapacityExceeded
  <2>4. CASE Release(o) \/ Drop(o) \/ Record(o)
    <3>1. entries' = entries \/ entries' = [entries EXCEPT ![key[o]] = None]
      BY <2>4 DEF Release, Drop, Record, DropReleased, DropRetained, Forget, Keep,
                  Superseded, store
    <3> QED
      BY <3>1, <1>1, <1>2 DEF Protected, IInv, TypeOK
  <2> QED
    BY <1>7, <2>1, <2>2, <2>3, <2>4 DEF CallerStep
<1> QED
  BY <1>5, <1>6, <1>7 DEF Next

(* Admission fails at capacity rather than letting the table grow.         *)
THEOREM CapacitySafe == Spec => []CapacityBound
<1>1. Init => CapacityBound
  <2> SUFFICES ASSUME Init PROVE CapacityBound
    OBVIOUS
  <2>1. Protected = {}
    BY DEF Init, Protected
  <2> QED
    BY <2>1, FS_EmptySet, GuardAssumption DEF CapacityBound
<1> QED
  BY <1>1, InvariantHolds, NextCapacity, PTL DEF Spec

(* Table and index stay in step, and the table never outgrows its          *)
(* capacity.                                                               *)
THEOREM TableIsSound == Spec => []TableSound
<1>1. IInv => IndexConsistent
  BY DEF IInv
<1> QED
  BY <1>1, InvariantHolds, CapacitySafe, PTL DEF TableSound
---------------------------------------------------------------------------
(* Action properties.                                                      *)

(* A step of one caller leaves every other caller where it was.            *)
LEMMA OneCallerMoves ==
    ASSUME IInv, NEW o \in Ops, NEW p \in Ops, CallerStep(p), call'[o] # call[o]
    PROVE  o = p
BY DEF CallerStep, CallReserve, CallCheckAndRecord, CallGuard, Admit, Insert, ReplayDetected,
       CapacityExceeded, Reject, Answer, RetainOnDrop, Release, Drop, Record,
       DropReleased, DropRetained, EndHandle, IInv, TypeOK

(* A sweep that finds a due key takes at least one.                        *)
LEMMA SweepTakesSome ==
    ASSUME NEW now, NEW S \in Sweeps(now), Due(now) # {}
    PROVE  S # {}
<1>1. CASE Cardinality(Due(now)) <= SweepLimit
  BY <1>1 DEF Sweeps
<1>2. CASE ~(Cardinality(Due(now)) <= SweepLimit)
  BY <1>2, FS_EmptySet, GuardAssumption DEF Sweeps
<1> QED
  BY <1>1, <1>2

(* "full" is answered only when nothing in the table could be reclaimed at *)
(* the sampled instant.                                                    *)
LEMMA FullStep ==
    ASSUME IInv, CapacityBound, NEW o \in Ops, CapacityExceeded(o), NEW k \in Protected
    PROVE  Owned(k) \/ until[k] > stamp[o]
<1>1. PICK S \in Sweeps(stamp[o]) : Cardinality(Remaining(S)) >= Capacity
  BY DEF CapacityExceeded, Remaining
<1>2. Remaining(S) = Protected
  <2>1. Remaining(S) \in SUBSET Protected
    BY RemainingProtected
  <2>2. Cardinality(Remaining(S)) = Cardinality(Protected)
    BY <1>1, <2>1, ProtectedFinite, GuardAssumption DEF CapacityBound
  <2> QED
    BY <2>1, <2>2, ProtectedFinite
<1>3. S = {}
  <2>1. ASSUME NEW e \in S PROVE FALSE
    <3>1. e \in expirations /\ e[2] \in Keys
      BY SweepTakesDue DEF IInv, TypeOK
    <3>2. e[2] \in Protected
      BY <3>1 DEF IInv, IndexConsistent, Protected
    <3>3. e[2] \notin Remaining(S)
      BY <3>1 DEF Remaining, AfterSweep
    <3> QED
      BY <3>2, <3>3, <1>2
  <2> QED
    BY <2>1
<1>4. Due(stamp[o]) = {}
  BY <1>3, SweepTakesSome
<1>5. k \in Keys /\ until[k] \in 0..(MaxInstant + 1) /\ stamp[o] \in 0..MaxInstant
  BY DEF Protected, IInv, TypeOK
<1>6. CASE <<until[k], k>> \in expirations
  BY <1>4, <1>5, <1>6, GuardAssumption DEF Due
<1>7. CASE until[k] = MaxInstant + 1
  BY <1>5, <1>7, GuardAssumption
<1> QED
  BY <1>6, <1>7 DEF IInv, PromiseIndexed

(* A caller is told "full" only when every key of the table is pending or  *)
(* unexpired at the instant it sampled.                                    *)
THEOREM FullIsHonest == Spec => FullOnlyWhenProtected
<1>1. IInv /\ CapacityBound /\ [Next]_vars =>
         [\A o \in Ops : call[o] \in Asking /\ call'[o] = "full" =>
             \A k \in Protected : Owned(k) \/ until[k] > stamp[o]]_vars
  <2> SUFFICES ASSUME IInv, CapacityBound, Next,
                      NEW o \in Ops, call[o] \in Asking, call'[o] = "full"
               PROVE  \A k \in Protected : Owned(k) \/ until[k] > stamp[o]
    OBVIOUS
  <2>1. call'[o] # call[o]
    BY DEF Asking
  <2>2. CallerStep(o)
    <3>1. PICK p \in Ops : CallerStep(p)
      BY <2>1 DEF Next, Tick, Clear, caller
    <3> QED
      BY <2>1, <3>1, OneCallerMoves
  <2>3. CapacityExceeded(o)
    BY <2>2 DEF CallerStep, CallReserve, CallCheckAndRecord, CallGuard, Admit, Insert,
                ReplayDetected, Reject, Answer, RetainOnDrop, Release, Drop, Record,
                Asking, IInv, TypeOK
  <2> QED
    BY <2>3, FullStep
<1> QED
  BY <1>1, InvariantHolds, CapacitySafe, PTL DEF Spec, FullOnlyWhenProtected

(* "replay" is answered only for a pending or unexpired key, or behind a   *)
(* backlog larger than one sweep.                                          *)
LEMMA ReplayStep ==
    ASSUME IInv, NEW o \in Ops, ReplayDetected(o)
    PROVE  \/ Owned(key[o])
           \/ until[key[o]] > stamp[o]
           \/ Cardinality(Due(stamp[o])) > SweepLimit
<1> SUFFICES ASSUME ~Owned(key[o]), ~(until[key[o]] > stamp[o])
             PROVE  Cardinality(Due(stamp[o])) > SweepLimit
  OBVIOUS
<1>1. PICK S \in Sweeps(stamp[o]) : AfterSweep(S)[key[o]] # None
  BY DEF ReplayDetected
<1>2. key[o] \in Keys /\ stamp[o] \in 0..clock
  BY GuardAssumption DEF ReplayDetected, IInv, TypeOK, CallerShape
<1>3. entries[key[o]] # None /\ \A e \in S : e[2] # key[o]
  BY <1>1, <1>2, SweepSparesProtected
<1>4. <<until[key[o]], key[o]>> \in Due(stamp[o]) \ S
  <2>1. until[key[o]] <= stamp[o] /\ until[key[o]] # MaxInstant + 1
    BY <1>2, GuardAssumption DEF IInv, TypeOK
  <2>2. <<until[key[o]], key[o]>> \in expirations
    BY <1>2, <1>3, <2>1 DEF IInv, PromiseIndexed, Protected
  <2> QED
    BY <1>3, <2>1, <2>2 DEF Due
<1>5. ~(Cardinality(Due(stamp[o])) <= SweepLimit)
  BY <1>4 DEF Sweeps
<1>6. Cardinality(Due(stamp[o])) \in Nat
  <2>1. IsFiniteSet((0..MaxInstant) \X Keys)
    <3>1. 0 \in Int /\ MaxInstant \in Int /\ IsFiniteSet(Keys)
      BY GuardAssumption
    <3>2. IsFiniteSet(0..MaxInstant)
      BY <3>1, FS_Interval
    <3> QED
      BY <3>1, <3>2, FS_Product
  <2>2. Due(stamp[o]) \in SUBSET ((0..MaxInstant) \X Keys)
    BY DEF Due, IInv, TypeOK
  <2> QED
    <3>1. IsFiniteSet(Due(stamp[o]))
      BY <2>1, <2>2, FS_Subset
    <3> QED
      BY <3>1, FS_CardinalityType
<1> QED
  BY <1>5, <1>6, GuardAssumption

(* A caller is told "replay" only for cause: an expired authorization is   *)
(* admitted again at once unless more of them are overdue than one sweep   *)
(* reclaims.                                                               *)
THEOREM ReplayIsHonest == Spec => ReplayOnlyForCause
<1>1. IInv /\ [Next]_vars =>
         [\A o \in Ops : call[o] \in Asking /\ call'[o] = "replayed" =>
             \/ Owned(key[o])
             \/ until[key[o]] > stamp[o]
             \/ Cardinality(Due(stamp[o])) > SweepLimit]_vars
  <2> SUFFICES ASSUME IInv, Next,
                      NEW o \in Ops, call[o] \in Asking, call'[o] = "replayed"
               PROVE  \/ Owned(key[o])
                      \/ until[key[o]] > stamp[o]
                      \/ Cardinality(Due(stamp[o])) > SweepLimit
    OBVIOUS
  <2>1. call'[o] # call[o]
    BY DEF Asking
  <2>2. CallerStep(o)
    <3>1. PICK p \in Ops : CallerStep(p)
      BY <2>1 DEF Next, Tick, Clear, caller
    <3> QED
      BY <2>1, <3>1, OneCallerMoves
  <2>3. ReplayDetected(o)
    BY <2>2 DEF CallerStep, CallReserve, CallCheckAndRecord, CallGuard, Admit, Insert,
                CapacityExceeded, Reject, Answer, RetainOnDrop, Release, Drop, Record,
                Asking, IInv, TypeOK
  <2> QED
    BY <2>3, ReplayStep
<1> QED
  BY <1>1, InvariantHolds, PTL DEF Spec, ReplayOnlyForCause

(* The guard never turns a caller away without a cause.                    *)
THEOREM RefusalsHonest == Spec => RefusedForCause
BY FullIsHonest, ReplayIsHonest, PTL DEF RefusedForCause

(* Whatever ends a handle that predates clear() leaves the store alone.    *)
THEOREM OrphansAreHarmless == Spec => OrphanHarmless
<1>1. IInv /\ [Next]_vars => [\A o \in orphaned : call'[o] = "idle" => UNCHANGED store]_vars
  <2> SUFFICES ASSUME IInv, Next, NEW o \in orphaned, call'[o] = "idle"
               PROVE  UNCHANGED store
    OBVIOUS
  <2>1. o \in Ops /\ call[o] \in Holding /\ call'[o] # call[o]
    BY DEF IInv, TypeOK, CallerShape, Holding
  <2>2. CallerStep(o)
    <3>1. PICK p \in Ops : CallerStep(p)
      BY <2>1 DEF Next, Tick, Clear, caller
    <3> QED
      BY <2>1, <3>1, OneCallerMoves
  <2>3. DropReleased(o) \/ DropRetained(o)
    BY <2>1, <2>2 DEF CallerStep, CallReserve, CallCheckAndRecord, CallGuard, Admit, Insert,
                      ReplayDetected, CapacityExceeded, RetainOnDrop, Release, Drop,
                      Record, Holding, Asking, Resting
  <2> QED
    BY <2>1, <2>3, CurrentIsOwner DEF DropReleased, DropRetained, Forget, Keep, Superseded
<1> QED
  BY <1>1, InvariantHolds, PTL DEF Spec, OrphanHarmless
---------------------------------------------------------------------------
(* The guard implements ReplayProtection.                                  *)

LEMMA InitPromise == Init => Promise!Init
BY DEF Init, Promise!Init, HeldKeys, Holding

(* Only Admit, the end of a handle and clear() change who holds what.      *)
LEMMA HeldUnchanged ==
    ASSUME IInv, NEW o \in Ops, orphaned' = orphaned,
           \A p \in Ops : /\ call'[p] \in Holding <=> call[p] \in Holding
                          /\ call[p] \in Holding => key'[p] = key[p]
    PROVE  HeldKeys' = HeldKeys
BY DEF HeldKeys

(* An admission is the abstract Reserve of a key nobody is promised.       *)
LEMMA AdmitPromise ==
    ASSUME IInv, NEW o \in Ops, Admit(o)
    PROVE  Promise!Reserve(o, key[o]) /\ key[o] \in Keys
<1> USE GuardAssumption DEF Resting, Asking, Holding
<1>1. PICK S \in Sweeps(stamp[o]) : AfterSweep(S)[key[o]] = None
  BY DEF Admit, Insert
<1>2. /\ call[o] \in Asking
      /\ call'[o] \in Holding
      /\ \A p \in Ops \ {o} : call'[p] = call[p]
      /\ UNCHANGED <<clock, key, orphaned, until>>
  BY DEF Admit, Insert, Answer, IInv, TypeOK
<1>3. key[o] \in Keys /\ o \notin orphaned
  BY <1>2 DEF IInv, TypeOK, CallerShape
<1>4. until[key[o]] <= clock /\ ~Owned(key[o])
  BY <1>1, <1>2, <1>3, AbsentIsFree
<1>5. HeldKeys[o] = None
  BY <1>2 DEF HeldKeys
<1>6. \A p \in Ops : HeldKeys[p] # key[o]
  BY <1>3, <1>4 DEF HeldKeys, Owned
<1>7. HeldKeys' = [HeldKeys EXCEPT ![o] = key[o]]
  BY <1>2, <1>3 DEF HeldKeys
<1> QED
  BY <1>2, <1>3, <1>4, <1>5, <1>6, <1>7 DEF Promise!Reserve, Promise!Unprotected

(* The end of a handle is the abstract Release or Retain, or nothing at    *)
(* all when clear() came first.                                            *)
LEMMA EndPromise ==
    ASSUME IInv, NEW o \in Ops, call[o] \in Holding,
           DropReleased(o) \/ DropRetained(o)
    PROVE  [Promise!Next]_(Promise!vars)
<1>1. /\ EndHandle(o)
      /\ orphaned' = orphaned \ {o}
      /\ clock' = clock
  BY DEF DropReleased, DropRetained, EndHandle
<1>2. /\ call'[o] = "idle"
      /\ \A p \in Ops \ {o} : call'[p] = call[p] /\ key'[p] = key[p]
      /\ key[o] \in Keys
  BY <1>1, EndHandleFacts
<1>3. HeldKeys' = [HeldKeys EXCEPT ![o] = None]
  BY <1>1, <1>2 DEF HeldKeys, Holding
<1>4. CASE o \in orphaned
  <2>1. HeldKeys' = HeldKeys
    BY <1>3, <1>4 DEF HeldKeys
  <2>2. until' = until
    BY <1>4 DEF DropReleased, DropRetained
  <2> QED
    BY <1>1, <2>1, <2>2 DEF Promise!vars
<1>5. CASE o \notin orphaned
  <2>1. HeldKeys[o] = key[o] /\ HeldKeys[o] # None
    BY <1>2, <1>5, GuardAssumption DEF HeldKeys
  <2>2. ASSUME DropReleased(o) PROVE Promise!Release(o)
    BY <1>1, <1>3, <2>1, <2>2 DEF DropReleased, Promise!Release
  <2>3. ASSUME DropRetained(o) PROVE Promise!Retain(o)
    BY <1>1, <1>3, <1>5, <2>1, <2>3 DEF DropRetained, Promise!Retain,
                                        Deadline, Promise!Deadline
  <2> QED
    BY <2>2, <2>3 DEF Promise!Next
<1> QED
  BY <1>4, <1>5

LEMMA NextPromise == IInv /\ [Next]_vars => [Promise!Next]_(Promise!vars)
<1> SUFFICES ASSUME IInv, [Next]_vars PROVE [Promise!Next]_(Promise!vars)
  OBVIOUS
<1>1. CASE Tick
  BY <1>1 DEF Tick, caller, HeldKeys, Promise!Next, Promise!Tick
<1>2. CASE Clear
  <2>1. HeldKeys' = [o \in Ops |-> None]
    BY <1>2 DEF Clear, caller, HeldKeys
  <2> QED
    BY <1>2, <2>1 DEF Clear, Promise!Next, Promise!Reset
<1>3. CASE UNCHANGED vars
  BY <1>3 DEF vars, HeldKeys, Promise!vars
<1>4. ASSUME NEW o \in Ops, CallerStep(o) PROVE [Promise!Next]_(Promise!vars)
  <2>1. CASE Admit(o)
    BY <2>1, AdmitPromise DEF Promise!Next
  <2>2. CASE Release(o) \/ Drop(o) \/ Record(o)
    <3>1. call[o] \in Holding /\ (DropReleased(o) \/ DropRetained(o))
      BY <2>2 DEF Release, Drop, Record, Holding
    <3> QED
      BY <3>1, EndPromise
  <2>3. CASE \/ \E k \in Keys : CallReserve(o, k) \/ CallCheckAndRecord(o, k)
             \/ ReplayDetected(o) \/ CapacityExceeded(o) \/ RetainOnDrop(o)
    <3>1. /\ \A p \in Ops : /\ call'[p] \in Holding <=> call[p] \in Holding
                            /\ call[p] \in Holding => key'[p] = key[p]
          /\ UNCHANGED <<clock, orphaned, until>>
      BY <2>3 DEF CallReserve, CallCheckAndRecord, CallGuard, ReplayDetected,
                  CapacityExceeded, Reject, Answer, RetainOnDrop, Resting, Asking,
                  Holding, IInv, TypeOK
    <3>2. HeldKeys' = HeldKeys
      BY <3>1, HeldUnchanged
    <3> QED
      BY <3>1, <3>2 DEF Promise!vars
  <2> QED
    BY <1>4, <2>1, <2>2, <2>3 DEF CallerStep
<1> QED
  BY <1>1, <1>2, <1>3, <1>4 DEF Next

(* Every behaviour of the guard is one that ReplayProtection allows: a key *)
(* is held by one operation at a time and stays unobtainable for its TTL   *)
(* after a completed or uncertain one, unless clear() is called.           *)
THEOREM GuardImplementsPromise == Spec => ImplementsReplayProtection
<1> QED
  BY InitPromise, InvariantHolds, NextPromise, PTL
     DEF Spec, ImplementsReplayProtection, Promise!Spec
===========================================================================
