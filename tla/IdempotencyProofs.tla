------------------------- MODULE IdempotencyProofs -------------------------
(***************************************************************************)
(* Machine-checked proofs about Idempotency, for every value of its        *)
(* constants: the inductive invariant IInv, and the three properties of    *)
(* the cache, its type apart, that follow from it.                         *)
(***************************************************************************)
EXTENDS Idempotency, FiniteSetTheorems, TLAPS

(* The three kinds of entry differ, and each has its type.                 *)
LEMMA EntryTypes ==
    /\ Absent \in Entry /\ Absent.kind = "absent"
    /\ InProgress \in Entry /\ InProgress.kind = "in_progress"
    /\ InProgress = [kind |-> "in_progress", age |-> 0, response |-> None]
    /\ \A v \in Responses : /\ Completed(v) \in Entry /\ Completed(v).kind = "completed"
                            /\ Completed(v).age = 0 /\ Completed(v).response = v
BY IdempotencyAssumption DEF Absent, InProgress, Completed, Entry

(* Ageing keeps ages in range, never makes anything younger, and treats    *)
(* equal ages alike.                                                       *)
LEMMA OlderIsOlder ==
    ASSUME NEW n \in 0..Horizon
    PROVE  Older(n) \in 0..Horizon /\ n <= Older(n)
BY IdempotencyAssumption DEF Older

(* The clean-up at the limit keeps the types, every fresh entry, and adds  *)
(* nothing.                                                                *)
LEMMA CleanUp ==
    ASSUME TypeOK
    PROVE  /\ MadeRoom \in [Keys -> Entry]
           /\ \A k \in Keys : /\ MadeRoom[k] \in {entries[k], Absent}
                              /\ Fresh(entries[k]) => MadeRoom[k] = entries[k]
BY EntryTypes DEF MadeRoom, TypeOK

(* A lease that has not outlived the timeout makes its entry fresh.        *)
LEMMA LeaseIsFresh ==
    ASSUME IInv, NEW k \in Keys, k \notin overran, NEW c \in Executors(k)
    PROVE  Fresh(entries[k])
<1>1. /\ held[c] < InProgressTimeout
      /\ entries[k] = [kind |-> "in_progress", age |-> held[c], response |-> None]
  BY DEF IInv, LeaseHeld
<1>2. entries[k].kind = "in_progress" /\ entries[k].age < InProgressTimeout
  BY <1>1
<1> QED
  BY <1>2 DEF Fresh

---------------------------------------------------------------------------
(* What each operation does to the invariant.                              *)

LEMMA InitSafe == Init => IInv
<1> SUFFICES ASSUME Init PROVE IInv
  OBVIOUS
<1>1. TypeOK
  BY EntryTypes, IdempotencyAssumption DEF Init, TypeOK
<1>2. \A k \in Keys : Executors(k) = {}
  BY IdempotencyAssumption DEF Init, Executors
<1>3. ResponseKept
  BY IdempotencyAssumption, EntryTypes DEF Init, ResponseKept
<1> QED
  BY <1>1, <1>2, <1>3 DEF IInv, OneExecutor, LeaseHeld

LEMMA AcquireSafe ==
    ASSUME IInv, NEW c \in Callers, NEW k \in Keys, Acquire(c, k)
    PROVE  IInv'
<1> USE DEF IInv
<1>1. /\ entries' = [MadeRoom EXCEPT ![k] = InProgress]
      /\ work' = [work EXCEPT ![c] = k] /\ held' = [held EXCEPT ![c] = 0]
      /\ UNCHANGED <<got, last>> /\ ~Fresh(entries[k]) /\ work[c] = None
  BY DEF Acquire
<1>2. /\ entries'[k] = InProgress
      /\ \A j \in Keys \ {k} : entries'[j] = MadeRoom[j]
  BY <1>1, CleanUp
<1>3. overran \subseteq overran' /\ overran' \subseteq Keys
  BY DEF Acquire, NoteOverruns, TypeOK
<1>4. TypeOK'
  <2>1. entries' \in [Keys -> Entry]
    BY <1>1, CleanUp, EntryTypes
  <2>2. work' \in [Callers -> Keys \cup {None}] /\ held' \in [Callers -> 0..Horizon]
    BY <1>1, IdempotencyAssumption DEF TypeOK
  <2> QED
    BY <1>1, <1>3, <2>1, <2>2 DEF TypeOK
<1>5. ASSUME NEW j \in Keys \ overran'
      PROVE  /\ \A d \in Executors(j)' : /\ held'[d] < InProgressTimeout
                                         /\ entries'[j] = [kind |-> "in_progress",
                                                age |-> held'[d], response |-> None]
             /\ \A d, e \in Executors(j)' : d = e
  <2>1. j \notin overran /\ j \in Keys
    BY <1>3, <1>5
  <2>2. \A d \in Callers : work'[d] = j => held'[d] < InProgressTimeout
    <3>1. \A d \in Callers : held'[d] \in Nat
      BY <1>4 DEF TypeOK
    <3> QED
      BY <1>5, <3>1, IdempotencyAssumption DEF Acquire, NoteOverruns
  <2>3. CASE j = k
    <3>1. Executors(k) = {}
      BY <1>1, <2>1, <2>3, LeaseIsFresh
    <3>2. Executors(j)' = {c}
      BY <1>1, <2>3, <3>1 DEF Executors, TypeOK
    <3>3. held'[c] = 0
      BY <1>1 DEF TypeOK
    <3> QED
      BY <1>2, <2>2, <2>3, <3>2, <3>3, EntryTypes DEF Executors
  <2>4. CASE j # k
    <3>1. Executors(j)' = Executors(j) /\ c \notin Executors(j)
      BY <1>1, <2>4, IdempotencyAssumption DEF Executors, TypeOK
    <3>2. \A d \in Executors(j) : held'[d] = held[d]
      BY <1>1, <3>1 DEF Executors, TypeOK
    <3>3. \A d \in Executors(j) : Fresh(entries[j])
      BY <2>1, LeaseIsFresh
    <3>4. \A d \in Executors(j) : entries'[j] = entries[j]
      BY <1>2, <2>1, <2>4, <3>3, CleanUp
    <3> QED
      BY <2>1, <3>1, <3>2, <3>4 DEF LeaseHeld, OneExecutor
  <2> QED
    BY <2>3, <2>4
<1>6. ASSUME NEW j \in Keys
      PROVE  /\ last'[j].age < Ttl => entries'[j].kind = "completed"
             /\ entries'[j].kind = "completed" => /\ entries'[j].age = last'[j].age
                                                  /\ entries'[j].response = last'[j].response
  <2>1. CASE j = k
    <3>1. ~(last[j].age < Ttl)
      BY <1>1, <2>1 DEF ResponseKept, Fresh
    <3> QED
      BY <1>1, <1>2, <2>1, <3>1, EntryTypes
  <2>2. CASE j # k
    <3>1. last[j].age < Ttl => Fresh(entries[j])
      BY DEF ResponseKept, Fresh
    <3>2. entries'[j] \in {entries[j], Absent} /\ (Fresh(entries[j]) => entries'[j] = entries[j])
      BY <1>2, <2>2, CleanUp
    <3> QED
      BY <1>1, <3>1, <3>2, EntryTypes DEF ResponseKept
  <2> QED
    BY <2>1, <2>2
<1> QED
  BY <1>4, <1>5, <1>6 DEF LeaseHeld, OneExecutor, ResponseKept

(* Ending an execution leaves the other leases alone, and a key without    *)
(* overrun had no other.                                                   *)
LEMMA StopLeaves ==
    ASSUME IInv, NEW c \in Callers, work[c] # None, Stop(c)
    PROVE  /\ work[c] \in Keys
           /\ work' \in [Callers -> Keys \cup {None}] /\ held' \in [Callers -> 0..Horizon]
           /\ \A k \in Keys : Executors(k)' = Executors(k) \ {c}
           /\ \A d \in Callers \ {c} : held'[d] = held[d]
           /\ work[c] \notin overran =>
                 \A k \in Keys : k = work[c] => Executors(k)' = {}
<1>1. work[c] \in Keys
  BY DEF IInv, TypeOK
<1>2. work' \in [Callers -> Keys \cup {None}] /\ held' \in [Callers -> 0..Horizon]
  BY IdempotencyAssumption DEF Stop, IInv, TypeOK
<1>3. \A k \in Keys : Executors(k)' = Executors(k) \ {c}
  BY IdempotencyAssumption DEF Stop, Executors, IInv, TypeOK
<1>4. \A d \in Callers \ {c} : held'[d] = held[d]
  BY DEF Stop, IInv, TypeOK
<1>5. ASSUME work[c] \notin overran
      PROVE  \A k \in Keys : k = work[c] => Executors(k)' = {}
  <2>1. c \in Executors(work[c])
    BY DEF Executors
  <2>2. \A d \in Executors(work[c]) : d = c
    BY <1>1, <1>5, <2>1 DEF IInv, OneExecutor
  <2> QED
    BY <1>1, <1>3, <2>2
<1> QED
  BY <1>1, <1>2, <1>3, <1>4, <1>5

LEMMA CompleteSafe ==
    ASSUME IInv, NEW c \in Callers, NEW v \in Responses, Complete(c, v)
    PROVE  IInv'
<1> USE DEF IInv
<1>1. /\ entries' = [entries EXCEPT ![work[c]] = Completed(v)]
      /\ last' = [last EXCEPT ![work[c]] = [age |-> 0, response |-> v]]
      /\ UNCHANGED <<got, overran>> /\ work[c] # None /\ Stop(c)
  BY DEF Complete
<1> DEFINE k == work[c]
<1>2. k \in Keys
  BY <1>1, StopLeaves
<1>3. TypeOK'
  <2>1. entries' \in [Keys -> Entry]
    BY <1>1, <1>2, EntryTypes DEF TypeOK
  <2>2. last' \in [Keys -> [age : 0..Horizon, response : Responses \cup {None}]]
    BY <1>1, <1>2, IdempotencyAssumption DEF TypeOK
  <2> QED
    BY <1>1, <2>1, <2>2, StopLeaves DEF TypeOK
<1>4. \A j \in Keys \ {k} : entries'[j] = entries[j] /\ last'[j] = last[j]
  BY <1>1, <1>2 DEF TypeOK
<1>5. entries'[k] = Completed(v) /\ last'[k] = [age |-> 0, response |-> v]
  BY <1>1, <1>2 DEF TypeOK
<1>6. ResponseKept'
  BY <1>4, <1>5, EntryTypes DEF ResponseKept
<1>7. LeaseHeld' /\ OneExecutor'
  BY <1>1, <1>4, StopLeaves DEF LeaseHeld, OneExecutor, Executors
<1> QED
  BY <1>3, <1>6, <1>7

LEMMA ReleaseSafe ==
    ASSUME IInv, NEW c \in Callers, Release(c) \/ Vanish(c)
    PROVE  IInv'
<1> USE DEF IInv
<1> DEFINE k == work[c]
<1>1. UNCHANGED <<got, last, overran>> /\ work[c] # None /\ Stop(c)
  BY DEF Release, Vanish
<1>2. k \in Keys
  BY <1>1, StopLeaves
<1>3. /\ entries' \in [Keys -> Entry]
      /\ \A j \in Keys \ {k} : entries'[j] = entries[j]
      /\ entries'[k] = entries[k] \/ (entries'[k] = Absent /\ entries[k].kind = "in_progress")
  <2>1. CASE Release(c)
    BY <2>1, <1>2, EntryTypes DEF Release, TypeOK
  <2>2. CASE Vanish(c)
    BY <2>2 DEF Vanish, TypeOK
  <2> QED
    BY <2>1, <2>2
<1>4. TypeOK'
  BY <1>1, <1>3, StopLeaves DEF TypeOK
<1>5. ResponseKept'
  BY <1>1, <1>3, EntryTypes DEF ResponseKept
<1>6. LeaseHeld' /\ OneExecutor'
  <2> SUFFICES ASSUME NEW j \in Keys, j \notin overran
               PROVE  /\ \A d \in Executors(j)' :
                            /\ held'[d] < InProgressTimeout
                            /\ entries'[j] = [kind |-> "in_progress", age |-> held'[d],
                                              response |-> None]
                      /\ \A d, e \in Executors(j)' : d = e
    BY <1>1 DEF LeaseHeld, OneExecutor
  <2>1. CASE j = k
    BY <1>1, <2>1, StopLeaves
  <2>2. CASE j # k
    <3>1. Executors(j)' = Executors(j) \ {c} /\ entries'[j] = entries[j]
      BY <1>1, <1>3, <2>2, StopLeaves
    <3>2. \A d \in Executors(j)' : held'[d] = held[d]
      BY <1>1, <3>1, StopLeaves DEF Executors
    <3> QED
      BY <3>1, <3>2 DEF LeaseHeld, OneExecutor
  <2> QED
    BY <2>1, <2>2
<1> QED
  BY <1>4, <1>5, <1>6

LEMMA TickSafe ==
    ASSUME IInv, Tick
    PROVE  IInv'
<1> USE DEF IInv
<1> USE IdempotencyAssumption
<1>1. UNCHANGED <<work, got>> /\ overran \subseteq overran' /\ overran' \subseteq Keys
  BY DEF Tick, NoteOverruns, TypeOK
<1>2. ASSUME NEW k \in Keys
      PROVE  /\ entries'[k] \in Entry
             /\ entries'[k].kind = entries[k].kind
             /\ entries'[k].response = entries[k].response
             /\ entries[k].kind # "absent" =>
                   entries'[k] = [entries[k] EXCEPT !.age = Older(entries[k].age)]
  <2>1. entries[k] \in Entry
    BY DEF TypeOK
  <2>2. CASE entries[k] = Absent
    BY <2>1, <2>2, EntryTypes DEF Tick
  <2>3. CASE entries[k] # Absent
    <3>1. entries[k].age \in 0..Horizon /\ entries[k].kind # "absent"
      BY <2>1, <2>3 DEF Entry
    <3>2. entries'[k] = [entries[k] EXCEPT !.age = Older(entries[k].age)]
      BY <3>1 DEF Tick
    <3>3. Older(entries[k].age) \in 0..Horizon
      BY <3>1, OlderIsOlder
    <3> QED
      BY <2>1, <2>3, <3>2, <3>3 DEF Entry
  <2> QED
    BY <2>2, <2>3
<1>3. ASSUME NEW k \in Keys
      PROVE  /\ last'[k].age = Older(last[k].age) /\ last'[k].response = last[k].response
             /\ last'[k] \in [age : 0..Horizon, response : Responses \cup {None}]
             /\ last[k].age <= last'[k].age
             /\ last[k].age \in Nat /\ last'[k].age \in Nat
  <2>1. last[k] \in [age : 0..Horizon, response : Responses \cup {None}]
    BY DEF TypeOK
  <2>2. last'[k] = [last[k] EXCEPT !.age = Older(last[k].age)]
    BY DEF Tick
  <2>3. Older(last[k].age) \in 0..Horizon /\ last[k].age <= Older(last[k].age)
    BY <2>1, OlderIsOlder
  <2> QED
    BY <2>1, <2>2, <2>3
<1>4. ASSUME NEW c \in Callers
      PROVE  /\ held'[c] \in 0..Horizon
             /\ work[c] # None => held'[c] = Older(held[c])
  BY OlderIsOlder DEF Tick, TypeOK
<1>5. TypeOK'
  <2>1. entries' \in [Keys -> Entry]
    BY <1>2 DEF Tick
  <2>2. last' \in [Keys -> [age : 0..Horizon, response : Responses \cup {None}]]
    BY <1>3 DEF Tick
  <2>3. held' \in [Callers -> 0..Horizon]
    BY <1>4 DEF Tick
  <2> QED
    BY <1>1, <2>1, <2>2, <2>3 DEF TypeOK
<1>6. ResponseKept'
  <2> SUFFICES ASSUME NEW k \in Keys
               PROVE  /\ last'[k].age < Ttl => entries'[k].kind = "completed"
                      /\ entries'[k].kind = "completed" =>
                            /\ entries'[k].age = last'[k].age
                            /\ entries'[k].response = last'[k].response
    BY DEF ResponseKept
  <2>1. last'[k].age < Ttl => entries'[k].kind = "completed"
    <3>1. last'[k].age < Ttl => last[k].age < Ttl
      BY <1>3
    <3> QED
      BY <1>2, <3>1 DEF ResponseKept
  <2>2. ASSUME entries'[k].kind = "completed"
        PROVE  entries'[k].age = last'[k].age /\ entries'[k].response = last'[k].response
    <3>1. entries[k].kind = "completed" /\ entries[k] \in Entry
      BY <1>2, <2>2 DEF TypeOK
    <3>2. entries[k] \in [kind : {"completed"}, age : 0..Horizon, response : Responses]
      BY <3>1 DEF Entry, Absent
    <3>3. entries'[k] = [entries[k] EXCEPT !.age = Older(entries[k].age)]
      BY <1>2, <3>1
    <3> QED
      BY <1>3, <3>1, <3>2, <3>3 DEF ResponseKept
  <2> QED
    BY <2>1, <2>2
<1>7. \A k \in Keys : Executors(k)' = Executors(k)
  BY <1>1 DEF Executors
<1>8. OneExecutor'
  BY <1>1, <1>7 DEF OneExecutor
<1>9. LeaseHeld'
  <2> SUFFICES ASSUME NEW k \in Keys, k \notin overran', NEW c \in Executors(k)
               PROVE  /\ held'[c] < InProgressTimeout
                      /\ entries'[k] = [kind |-> "in_progress", age |-> held'[c],
                                        response |-> None]
    BY <1>7 DEF LeaseHeld
  <2>1. c \in Callers /\ work[c] = k /\ work'[c] = k /\ k # None
    BY <1>1 DEF Executors
  <2>2. held'[c] \in Nat /\ held'[c] = Older(held[c])
    BY <1>4, <2>1
  <2>3. held'[c] < InProgressTimeout
    BY <2>1, <2>2 DEF Tick, NoteOverruns
  <2>4. entries[k] = [kind |-> "in_progress", age |-> held[c], response |-> None]
    BY <1>1 DEF LeaseHeld
  <2>5. entries[k].kind # "absent"
    BY <2>4
  <2>6. entries'[k] = [entries[k] EXCEPT !.age = Older(entries[k].age)]
    BY <1>2, <2>5
  <2> QED
    BY <2>2, <2>3, <2>4, <2>6
<1> QED
  BY <1>5, <1>6, <1>8, <1>9

(* The inductive invariant is preserved by every step.                     *)
LEMMA StepSafe ==
    ASSUME IInv, [Next]_vars
    PROVE  IInv'
<1>1. ASSUME NEW c \in Callers, NEW k \in Keys, AnswerInProgress(c, k)
      PROVE  IInv'
  <2>1. UNCHANGED <<entries, work, held, last, overran>>
        /\ got' \in [Callers -> Responses \cup {None}]
    BY <1>1 DEF AnswerInProgress, history, IInv, TypeOK
  <2> QED
    BY <2>1 DEF IInv, TypeOK, OneExecutor, LeaseHeld, ResponseKept, Executors
<1>2. ASSUME NEW c \in Callers, NEW k \in Keys, AnswerCached(c, k)
      PROVE  IInv'
  <2>1. entries[k].response \in Responses
    BY <1>2, IdempotencyAssumption DEF AnswerCached, IInv, TypeOK, Entry, Absent
  <2>2. UNCHANGED <<entries, work, held, last, overran>>
        /\ got' \in [Callers -> Responses \cup {None}]
    BY <1>2, <2>1 DEF AnswerCached, history, IInv, TypeOK
  <2> QED
    BY <2>2 DEF IInv, TypeOK, OneExecutor, LeaseHeld, ResponseKept, Executors
<1>3. ASSUME NEW c \in Callers, NEW k \in Keys, Acquire(c, k)
      PROVE  IInv'
  BY <1>3, AcquireSafe
<1>4. ASSUME NEW c \in Callers, NEW v \in Responses, Complete(c, v)
      PROVE  IInv'
  BY <1>4, CompleteSafe
<1>5. ASSUME NEW c \in Callers, Release(c) \/ Vanish(c)
      PROVE  IInv'
  BY <1>5, ReleaseSafe
<1>6. CASE Tick
  BY <1>6, TickSafe
<1>7. CASE UNCHANGED vars
  BY <1>7 DEF vars, history, IInv, TypeOK, OneExecutor, LeaseHeld, ResponseKept, Executors
<1> QED
  BY <1>1, <1>2, <1>3, <1>4, <1>5, <1>6, <1>7 DEF Next

(* IInv holds in every reachable state of the cache.                       *)
THEOREM Invariance == Spec => []IInv
<1>1. Init => IInv
  BY InitSafe
<1>2. IInv /\ [Next]_vars => IInv'
  BY StepSafe
<1> QED
  BY <1>1, <1>2, PTL DEF Spec

(* The table has its type: an entry that is not completed carries no       *)
(* response, so that acquire never hands out a stale one.                  *)
THEOREM TypeCorrect == Spec => []TypeOK
BY Invariance, PTL DEF IInv

(* acquire lets a second caller execute for a key only after a lease for   *)
(* it has outlived in_progress_timeout.                                    *)
THEOREM OneExecutorSafe == Spec => []OneExecutor
BY Invariance, PTL DEF IInv

---------------------------------------------------------------------------
(* The action properties.                                                  *)

LEMMA AcquisitionIsDue ==
    ASSUME IInv, [Next]_vars, NEW c \in Callers, work[c] = None, work'[c] # None
    PROVE  work'[c] \in Keys /\ last[work'[c]].age >= Ttl
<1>1. PICK k \in Keys : Acquire(c, k)
  BY DEF Next, vars, AnswerInProgress, AnswerCached, Acquire, Complete, Release, Vanish,
         Stop, Tick, IInv, TypeOK
<1>2. work'[c] = k /\ ~Fresh(entries[k])
  BY <1>1 DEF Acquire, IInv, TypeOK
<1>3. last[k].age \in Nat
  BY DEF IInv, TypeOK
<1> QED
  BY <1>2, <1>3, IdempotencyAssumption DEF IInv, ResponseKept, Fresh

LEMMA AnswerIsLast ==
    ASSUME IInv, [Next]_vars, NEW c \in Callers, got'[c] # got[c], got'[c] # None
    PROVE  \E k \in Keys : last[k].age < Ttl /\ got'[c] = last[k].response
<1>1. PICK d \in Callers, k \in Keys : AnswerInProgress(d, k) \/ AnswerCached(d, k)
  BY DEF Next, vars, Acquire, Complete, Release, Vanish, Tick
<1>2. c = d /\ AnswerCached(c, k) /\ got'[c] = entries[k].response
  BY <1>1 DEF AnswerInProgress, AnswerCached, IInv, TypeOK
<1> QED
  BY <1>2 DEF AnswerCached, Fresh, IInv, ResponseKept

(* Neither a late release nor the clean-up makes the cache forget a        *)
(* completed request, or answer with anything but its response.            *)
THEOREM CompletedOnceSafe == Spec => CompletedOnce
<1> DEFINE A == \A c \in Callers :
          /\ work[c] = None /\ work'[c] # None => last[work'[c]].age >= Ttl
          /\ got'[c] # got[c] /\ got'[c] # None =>
                \E k \in Keys : last[k].age < Ttl /\ got'[c] = last[k].response
<1>1. IInv /\ [Next]_vars => A
  BY AcquisitionIsDue, AnswerIsLast
<1>2. IInv /\ [Next]_vars => [A]_vars
  BY <1>1
<1> QED
  BY <1>2, Invariance, PTL DEF Spec, CompletedOnce

LEMMA OvershootStep ==
    ASSUME IInv, [Next]_vars, NEW k \in Keys, entries'[k] = InProgress,
           entries[k] # InProgress, Cardinality(Tracked') > MaxEntries
    PROVE  \A j \in Tracked' : Fresh(entries[j]) \/ j = k
<1>1. PICK c \in Callers : Acquire(c, k)
  <2>1. ~UNCHANGED vars
    BY DEF vars
  <2>2. ~Tick
    <3> SUFFICES ASSUME Tick PROVE FALSE
      OBVIOUS
    <3>1. CASE entries[k].kind = "absent"
      BY <3>1, EntryTypes DEF Tick
    <3>2. CASE entries[k].kind # "absent"
      <4>1. entries'[k] = [entries[k] EXCEPT !.age = Older(entries[k].age)]
        BY <3>2 DEF Tick
      <4>2. entries[k] \in [kind : {"in_progress"}, age : 0..Horizon, response : {None}]
                           \cup [kind : {"completed"}, age : 0..Horizon, response : Responses]
        BY <3>2, EntryTypes DEF IInv, TypeOK, Entry
      <4>3. entries[k].age \in 0..Horizon /\ Older(entries[k].age) = 0
        BY <4>1, <4>2 DEF InProgress
      <4>4. entries[k].age = 0
        BY <4>3, OlderIsOlder
      <4> QED
        BY <4>1, <4>2, <4>3, <4>4 DEF InProgress
    <3> QED
      BY <3>1, <3>2
  <2>3. \A c \in Callers, j \in Keys : ~(AnswerInProgress(c, j) \/ AnswerCached(c, j))
    BY DEF AnswerInProgress, AnswerCached
  <2>4. \A c \in Callers, v \in Responses : ~Complete(c, v)
    BY EntryTypes DEF Complete, IInv, TypeOK
  <2>5. \A c \in Callers : ~(Release(c) \/ Vanish(c))
    BY EntryTypes DEF Release, Vanish, IInv, TypeOK
  <2>6. PICK c \in Callers, j \in Keys : Acquire(c, j)
    BY <2>1, <2>2, <2>3, <2>4, <2>5 DEF Next
  <2>7. j = k
    BY <2>6, CleanUp, EntryTypes DEF Acquire, IInv
  <2> QED
    BY <2>6, <2>7
<1>2. entries' = [MadeRoom EXCEPT ![k] = InProgress]
  BY <1>1 DEF Acquire
<1>3. \A j \in Keys \ {k} : entries'[j] = MadeRoom[j]
  BY <1>2, CleanUp DEF IInv
<1>4. CASE Cardinality(Tracked) >= MaxEntries
  BY <1>3, <1>4, EntryTypes DEF MadeRoom, Tracked
<1>5. CASE ~(Cardinality(Tracked) >= MaxEntries)
  <2>1. IsFiniteSet(Tracked)
    BY IdempotencyAssumption, FS_Subset DEF Tracked
  <2>2. Tracked' \subseteq Tracked \cup {k}
    BY <1>3, <1>5 DEF MadeRoom, Tracked
  <2>3. IsFiniteSet(Tracked \cup {k}) /\ Cardinality(Tracked \cup {k}) <= Cardinality(Tracked) + 1
    <3>1. IsFiniteSet(Tracked \cup {k})
      BY <2>1, FS_AddElement
    <3>2. Cardinality(Tracked \cup {k}) = IF k \in Tracked THEN Cardinality(Tracked)
                                          ELSE Cardinality(Tracked) + 1
      BY <2>1, FS_AddElement
    <3>3. Cardinality(Tracked) \in Nat
      BY <2>1, FS_CardinalityType
    <3> QED
      BY <3>1, <3>2, <3>3
  <2>4. IsFiniteSet(Tracked') /\ Cardinality(Tracked') <= Cardinality(Tracked \cup {k})
    BY <2>2, <2>3, FS_Subset
  <2>5. Cardinality(Tracked) \in Nat /\ Cardinality(Tracked') \in Nat
        /\ Cardinality(Tracked \cup {k}) \in Nat
    BY <2>1, <2>3, <2>4, FS_CardinalityType
  <2> QED
    BY <1>5, <2>3, <2>4, <2>5, IdempotencyAssumption
<1> QED
  BY <1>4, <1>5

(* An acquisition exceeds max_entries only with fresh entries.             *)
THEOREM OvershootSafe == Spec => OvershootOnlyFresh
<1> DEFINE A == \A k \in Keys :
          /\ entries'[k] = InProgress /\ entries[k] # InProgress
          /\ Cardinality(Tracked') > MaxEntries
          => \A j \in Tracked' : Fresh(entries[j]) \/ j = k
<1>1. IInv /\ [Next]_vars => A
  BY OvershootStep
<1>2. IInv /\ [Next]_vars => [A]_vars
  BY <1>1
<1> QED
  BY <1>2, Invariance, PTL DEF Spec, OvershootOnlyFresh
===========================================================================
