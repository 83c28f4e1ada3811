----------------------- MODULE CircuitBreakerProofs -----------------------
(***************************************************************************)
(* Machine-checked proofs about CircuitBreaker, for every value of its     *)
(* constants and any number of callers: the inductive invariant IInv, the  *)
(* exactness of the cool-down, and that transitions are earned.  Recovers  *)
(* is a liveness property and is only model-checked.                       *)
(***************************************************************************)
EXTENDS CircuitBreaker, TLAPS

(* A bounded counter stays in range, and counts below its bound.           *)
LEMMA UpToCounts ==
    ASSUME NEW limit \in Nat, NEW n \in 0..limit
    PROVE  /\ UpTo(limit, n) \in 0..limit
           /\ n < limit => UpTo(limit, n) = n + 1
           /\ n = limit => UpTo(limit, n) = limit
BY DEF UpTo

(* The history stays a sequence of outcomes of bounded length.             *)
LEMMA NotedType ==
    ASSUME NEW s \in Seq(Outcomes), Len(s) <= HistoryLength, NEW o \in Outcomes
    PROVE  Noted(s, o) \in Seq(Outcomes) /\ Len(Noted(s, o)) <= HistoryLength
<1>1. Append(s, o) \in Seq(Outcomes) /\ Len(Append(s, o)) = Len(s) + 1 /\ Len(s) \in Nat
  OBVIOUS
<1>2. Tail(Append(s, o)) \in Seq(Outcomes) /\ Len(Tail(Append(s, o))) = Len(s)
  BY <1>1
<1> QED
  BY <1>1, <1>2, BreakerAssumption DEF Noted

(* One more outcome of a kind lengthens the streak of that kind.           *)
LEMMA NotedEnds ==
    ASSUME NEW s \in Seq(Outcomes), Len(s) <= HistoryLength, NEW o \in Outcomes,
           NEW n \in Nat, Ends(s, n, o), NEW m \in Nat, m <= n + 1, m <= HistoryLength
    PROVE  Ends(Noted(s, o), m, o)
<1> DEFINE t == Append(s, o)
<1>1. /\ t \in Seq(Outcomes) /\ Len(t) = Len(s) + 1 /\ Len(s) \in Nat
      /\ t[Len(t)] = o /\ \A i \in 1..Len(s) : t[i] = s[i]
  OBVIOUS
<1>2. n <= Len(s) /\ \A i \in (Len(s) - n + 1)..Len(s) : s[i] = o
  BY DEF Ends
<1>3. \A i \in (Len(t) - m + 1)..Len(t) : t[i] = o
  <2> SUFFICES ASSUME NEW i \in (Len(t) - m + 1)..Len(t) PROVE t[i] = o
    OBVIOUS
  <2>1. i \in Int /\ (i = Len(t) \/ i \in (Len(s) - n + 1)..Len(s))
    BY <1>1, <1>2
  <2> QED
    BY <1>1, <1>2, <2>1
<1>4. CASE Len(s) < HistoryLength
  BY <1>1, <1>2, <1>3, <1>4 DEF Noted, Ends
<1>5. CASE ~(Len(s) < HistoryLength)
  <2>1. Noted(s, o) = Tail(t) /\ Len(s) = HistoryLength
    BY <1>1, <1>5, BreakerAssumption DEF Noted
  <2>2. Len(Tail(t)) = Len(s) /\ \A i \in 1..Len(s) : Tail(t)[i] = t[i + 1]
    BY <1>1
  <2>3. \A i \in (Len(s) - m + 1)..Len(s) : Tail(t)[i] = o
    <3> SUFFICES ASSUME NEW i \in (Len(s) - m + 1)..Len(s) PROVE Tail(t)[i] = o
      OBVIOUS
    <3>1. i \in 1..Len(s) /\ i + 1 \in (Len(t) - m + 1)..Len(t)
      BY <1>1, <2>1
    <3> QED
      BY <1>3, <2>2, <3>1
  <2> QED
    BY <2>1, <2>2, <2>3 DEF Ends
<1> QED
  BY <1>4, <1>5

LEMMA EmptyStreak == \A s \in Seq(Outcomes), o \in Outcomes : Ends(s, 0, o)
BY DEF Ends

(* A step of one caller keeps the callers' type.                           *)
LEMMA GoesType ==
    ASSUME TypeOK, NEW c \in Callers, NEW p,
           NEW q \in {"idle", "calling", "refused", "answered", "failed"}, Goes(c, p, q)
    PROVE  call' \in [Callers -> {"idle", "calling", "refused", "answered", "failed"}]
BY DEF TypeOK, Goes

---------------------------------------------------------------------------
(* What each transition and operation does to the invariant.               *)

LEMMA InitSafe == Init => IInv
BY BreakerAssumption, EmptyStreak
   DEF Init, IInv, TypeOK, CoolDownTold, StreaksTold, States, Outcomes, Ends

LEMMA ToHalfOpenSafe ==
    ASSUME IInv, CooledDown, ToHalfOpen, UNCHANGED healthy,
           call' \in [Callers -> {"idle", "calling", "refused", "answered", "failed"}]
    PROVE  IInv'
<1>1. outcomes' \in Seq(Outcomes) /\ Len(outcomes') <= HistoryLength
  BY NotedType DEF IInv, TypeOK, ToHalfOpen, Note, Outcomes
<1>2. TypeOK'
  BY <1>1, BreakerAssumption DEF IInv, TypeOK, ToHalfOpen, States, counters
<1>3. CoolDownTold'
  BY BreakerAssumption DEF IInv, TypeOK, ToHalfOpen, CoolDownTold, CooledDown
<1>4. StreaksTold'
  BY <1>1, EmptyStreak DEF ToHalfOpen, StreaksTold, Outcomes
<1> QED
  BY <1>2, <1>3, <1>4 DEF IInv

LEMMA RecordSuccessSafe ==
    ASSUME IInv, NEW c \in Callers, RecordSuccess(c)
    PROVE  /\ IInv'
           /\ state' = "closed" /\ state # "closed" =>
                 Ends(outcomes', SuccessThreshold, "success")
<1>1. call' \in [Callers -> {"idle", "calling", "refused", "answered", "failed"}]
  BY GoesType DEF IInv, RecordSuccess
<1>2. outcomes' = Noted(outcomes, "success") /\ outcomes' \in Seq(Outcomes)
      /\ Len(outcomes') <= HistoryLength
  BY NotedType DEF IInv, TypeOK, RecordSuccess, Note, Outcomes
<1>3. UNCHANGED <<healthy, since_trip, total_rejected, total_trips>> /\ consecutive_failures' = 0
  BY DEF RecordSuccess, counters
<1>4. CASE state # "half_open"
  <2>1. UNCHANGED <<state, consecutive_successes, elapsed>>
    BY <1>4 DEF RecordSuccess
  <2>2. TypeOK'
    BY <1>1, <1>2, <1>3, <1>4, <2>1, BreakerAssumption DEF IInv, TypeOK
  <2>3. CoolDownTold'
    BY <1>3, <2>1 DEF IInv, CoolDownTold
  <2>4. StreaksTold'
    BY <1>2, <1>3, <1>4, <2>1, EmptyStreak DEF IInv, StreaksTold, Outcomes
  <2> QED
    BY <2>1, <2>2, <2>3, <2>4 DEF IInv
<1>5. CASE state = "half_open" /\ consecutive_successes + 1 >= SuccessThreshold
  <2>1. state' = "closed" /\ consecutive_successes' = 0 /\ elapsed' = 0
    BY <1>5 DEF RecordSuccess
  <2>2. TypeOK'
    BY <1>1, <1>2, <1>3, <2>1, BreakerAssumption DEF IInv, TypeOK, States
  <2>3. CoolDownTold'
    BY <1>3, <1>5, <2>1 DEF IInv, CoolDownTold
  <2>4. StreaksTold'
    BY <1>2, <1>3, <2>1, EmptyStreak DEF StreaksTold, Outcomes
  <2>5. Ends(outcomes', SuccessThreshold, "success")
    BY <1>2, <1>5, NotedEnds, BreakerAssumption DEF IInv, TypeOK, StreaksTold, Outcomes
  <2> QED
    BY <2>2, <2>3, <2>4, <2>5 DEF IInv
<1>6. CASE state = "half_open" /\ ~(consecutive_successes + 1 >= SuccessThreshold)
  <2>1. UNCHANGED <<state, elapsed>> /\ consecutive_successes' = consecutive_successes + 1
    BY <1>6 DEF RecordSuccess
  <2>2. consecutive_successes \in Nat /\ consecutive_successes + 1 < SuccessThreshold
    BY <1>6, BreakerAssumption DEF IInv, TypeOK
  <2>3. TypeOK'
    BY <1>1, <1>2, <1>3, <1>6, <2>1, <2>2, BreakerAssumption DEF IInv, TypeOK
  <2>4. CoolDownTold'
    BY <1>3, <2>1 DEF IInv, CoolDownTold
  <2>5. Ends(outcomes', consecutive_successes', "success")
    BY <1>2, <1>6, <2>1, <2>2, NotedEnds, BreakerAssumption
       DEF IInv, TypeOK, StreaksTold, Outcomes
  <2>6. StreaksTold'
    BY <1>6, <2>1, <2>2, <2>5 DEF StreaksTold
  <2> QED
    BY <1>6, <2>1, <2>3, <2>4, <2>6 DEF IInv
<1> QED
  BY <1>4, <1>5, <1>6

LEMMA RecordFailureSafe ==
    ASSUME IInv, NEW c \in Callers, RecordFailure(c)
    PROVE  /\ IInv'
           /\ state = "closed" /\ state' = "open" =>
                 Ends(outcomes', FailureThreshold, "failure")
           /\ state # "closed" => state' # "closed"
<1>1. call' \in [Callers -> {"idle", "calling", "refused", "answered", "failed"}]
  BY GoesType DEF IInv, RecordFailure
<1>2. outcomes' = Noted(outcomes, "failure") /\ outcomes' \in Seq(Outcomes)
      /\ Len(outcomes') <= HistoryLength
  BY NotedType DEF IInv, TypeOK, RecordFailure, Note, Outcomes
<1>3. /\ UNCHANGED <<healthy, total_rejected>> /\ consecutive_successes' = 0
      /\ consecutive_failures' = UpTo(CountLimit, consecutive_failures)
      /\ consecutive_failures' \in 0..CountLimit /\ consecutive_failures \in Nat
  BY UpToCounts, BreakerAssumption DEF RecordFailure, IInv, TypeOK
<1>4. CASE Trip /\ (state = "half_open"
                    \/ (state = "closed" /\ consecutive_failures + 1 >= FailureThreshold))
  <2>1. state' = "open" /\ elapsed' = 0 /\ since_trip' = 0 /\ total_trips' \in 0..CountLimit
    BY <1>4, UpToCounts, BreakerAssumption DEF Trip, IInv, TypeOK
  <2>2. TypeOK'
    BY <1>1, <1>2, <1>3, <2>1, BreakerAssumption DEF IInv, TypeOK, States
  <2>3. CoolDownTold' /\ StreaksTold'
    BY <1>3, <2>1 DEF CoolDownTold, StreaksTold
  <2>4. state = "closed" => Ends(outcomes', FailureThreshold, "failure")
    BY <1>2, <1>3, <1>4, NotedEnds, BreakerAssumption DEF IInv, TypeOK, StreaksTold, Outcomes
  <2> QED
    BY <2>1, <2>2, <2>3, <2>4 DEF IInv
<1>5. CASE /\ UNCHANGED <<state, elapsed, total_trips, since_trip>>
           /\ \/ state = "open"
              \/ state = "closed" /\ consecutive_failures + 1 < FailureThreshold
  <2>1. state = "closed" => /\ consecutive_failures' = consecutive_failures + 1
                            /\ consecutive_failures' < FailureThreshold
    <3>1. consecutive_failures \in 0..CountLimit
      BY DEF IInv, TypeOK
    <3>2. state = "closed" => consecutive_failures < CountLimit
                              /\ consecutive_failures + 1 < FailureThreshold
      BY <1>3, <1>5, BreakerAssumption
    <3> QED
      BY <1>3, <3>1, <3>2, UpToCounts, BreakerAssumption
  <2>2. TypeOK'
    BY <1>1, <1>2, <1>3, <1>5, <2>1, BreakerAssumption DEF IInv, TypeOK
  <2>3. CoolDownTold'
    BY <1>5 DEF IInv, CoolDownTold
  <2>4. state = "closed" => Ends(outcomes', consecutive_failures', "failure")
    BY <1>2, <1>3, <2>1, NotedEnds, BreakerAssumption DEF IInv, TypeOK, StreaksTold, Outcomes
  <2>5. StreaksTold'
    BY <1>3, <1>5, <2>4 DEF StreaksTold
  <2> QED
    BY <1>5, <2>2, <2>3, <2>5 DEF IInv
<1>6. \/ Trip /\ (state = "half_open"
                  \/ (state = "closed" /\ consecutive_failures + 1 >= FailureThreshold))
      \/ /\ UNCHANGED <<state, elapsed, total_trips, since_trip>>
         /\ \/ state = "open"
            \/ state = "closed" /\ consecutive_failures + 1 < FailureThreshold
  BY DEF RecordFailure
<1> QED
  BY <1>4, <1>5, <1>6

(* Everything else leaves the breaker's counters and history as they are.  *)
LEMMA QuietSafe ==
    ASSUME IInv, UNCHANGED <<state, consecutive_failures, consecutive_successes, elapsed,
                             total_trips, since_trip, outcomes>>,
           total_rejected' \in 0..CountLimit, healthy' \in BOOLEAN,
           call' \in [Callers -> {"idle", "calling", "refused", "answered", "failed"}]
    PROVE  IInv'
BY DEF IInv, TypeOK, CoolDownTold, StreaksTold

LEMMA TickSafe ==
    ASSUME IInv, Tick
    PROVE  IInv'
<1>1. elapsed' \in 0..RecoveryTimeout /\ since_trip' \in 0..RecoveryTimeout
  BY UpToCounts, BreakerAssumption DEF Tick, IInv, TypeOK
<1>2. TypeOK'
  BY <1>1 DEF Tick, IInv, TypeOK, counters
<1>3. CoolDownTold'
  BY UpToCounts, BreakerAssumption DEF Tick, IInv, TypeOK, CoolDownTold
<1>4. StreaksTold'
  BY DEF Tick, IInv, StreaksTold
<1> QED
  BY <1>2, <1>3, <1>4 DEF IInv

(* The inductive invariant is preserved by every step.                     *)
LEMMA StepSafe ==
    ASSUME IInv, [Next]_vars
    PROVE  IInv'
<1>1. ASSUME NEW c \in Callers, Admit(c)
      PROVE  IInv'
  <2>1. call' \in [Callers -> {"idle", "calling", "refused", "answered", "failed"}]
    BY <1>1, GoesType DEF Admit, IInv
  <2>2. CASE UNCHANGED <<inner, since_trip, outcomes>>
    BY <1>1, <2>1, <2>2, QuietSafe DEF Admit, inner, counters, IInv, TypeOK
  <2>3. CASE CooledDown /\ ToHalfOpen
    BY <1>1, <2>1, <2>3, ToHalfOpenSafe DEF Admit
  <2> QED
    BY <1>1, <2>2, <2>3 DEF Admit
<1>2. ASSUME NEW c \in Callers, Reject(c)
      PROVE  IInv'
  <2>1. call' \in [Callers -> {"idle", "calling", "refused", "answered", "failed"}]
    BY <1>2, GoesType DEF Reject, IInv
  <2>2. total_rejected' \in 0..CountLimit
    BY <1>2, UpToCounts, BreakerAssumption DEF Reject, IInv, TypeOK
  <2> QED
    BY <1>2, <2>1, <2>2, QuietSafe DEF Reject, IInv, TypeOK
<1>3. ASSUME NEW c \in Callers, Answer(c) \/ Drop(c) \/ Return(c)
      PROVE  IInv'
  <2>1. call' \in [Callers -> {"idle", "calling", "refused", "answered", "failed"}]
    BY <1>3, GoesType DEF Answer, Drop, Return, IInv
  <2> QED
    BY <1>3, <2>1, QuietSafe DEF Answer, Drop, Return, inner, counters, IInv, TypeOK
<1>4. CASE Observe
  BY <1>4, ToHalfOpenSafe DEF Observe, IInv, TypeOK
<1>5. CASE Health
  BY <1>5, QuietSafe DEF Health, inner, counters, IInv, TypeOK
<1>6. CASE UNCHANGED vars
  BY <1>6, QuietSafe DEF vars, inner, counters, IInv, TypeOK
<1> QED
  BY <1>1, <1>2, <1>3, <1>4, <1>5, <1>6, TickSafe, RecordSuccessSafe, RecordFailureSafe
     DEF Next, Ask, Record

(* IInv holds in every reachable state of the breaker.                     *)
THEOREM Invariance == Spec => []IInv
<1>1. IInv /\ [Next]_vars => IInv'
  BY StepSafe
<1> QED
  BY <1>1, InitSafe, PTL DEF Spec

(* Successes are counted only in a trial, and a closed circuit has not     *)
(* recorded failure_threshold failures in a row.                           *)
THEOREM TypeCorrect == Spec => []TypeOK
BY Invariance, PTL DEF IInv

---------------------------------------------------------------------------
(* The action properties.                                                  *)

(* can_execute refuses exactly while the last trip is younger than the     *)
(* recovery timeout, whatever is recorded in between.                      *)
THEOREM CoolDownSafe == Spec => CoolDownExact
<1> DEFINE A == \A c \in Callers : call[c] = "idle" =>
          /\ call'[c] = "calling" => since_trip >= RecoveryTimeout
          /\ call'[c] = "refused" => since_trip < RecoveryTimeout
<1>1. ASSUME IInv, [Next]_vars PROVE [A]_vars
  <2> SUFFICES ASSUME NEW c \in Callers, call[c] = "idle",
                      call'[c] = "calling" \/ call'[c] = "refused"
               PROVE  /\ call'[c] = "calling" => since_trip >= RecoveryTimeout
                      /\ call'[c] = "refused" => since_trip < RecoveryTimeout
    OBVIOUS
  <2>1. Admit(c) \/ Reject(c)
    BY <1>1 DEF Next, vars, Ask, Record, Admit, Reject, Answer, Drop, RecordSuccess,
                RecordFailure, Return, Observe, Health, Tick, Goes, IInv, TypeOK
  <2>2. since_trip \in Nat /\ elapsed \in Nat
    BY <1>1, BreakerAssumption DEF IInv, TypeOK
  <2>3. CASE Admit(c)
    <3>1. call'[c] = "calling"
      BY <1>1, <2>3 DEF Admit, Goes, IInv, TypeOK
    <3>2. since_trip >= RecoveryTimeout
      BY <1>1, <2>2, <2>3, BreakerAssumption DEF Admit, CooledDown, IInv, CoolDownTold
    <3> QED
      BY <3>1, <3>2
  <2>4. CASE Reject(c)
    <3>1. call'[c] = "refused"
      BY <1>1, <2>4 DEF Reject, Goes, IInv, TypeOK
    <3>2. since_trip < RecoveryTimeout
      BY <1>1, <2>2, <2>4, BreakerAssumption DEF Reject, CooledDown, IInv, CoolDownTold
    <3> QED
      BY <3>1, <3>2
  <2> QED
    BY <2>1, <2>3, <2>4
<1> QED
  BY <1>1, Invariance, PTL DEF Spec, CoolDownExact

(* The circuit opens and closes only on the outcomes that were recorded    *)
(* last, as many as the configuration asks for.                            *)
THEOREM TransitionsEarnedSafe == Spec => TransitionsEarned
<1> DEFINE A == /\ state = "closed" /\ state' = "open" =>
                      Ends(outcomes', FailureThreshold, "failure")
                /\ state # "closed" /\ state' = "closed" =>
                      Ends(outcomes', SuccessThreshold, "success")
<1>1. ASSUME IInv, [Next]_vars PROVE [A]_vars
  <2>1. ASSUME NEW c \in Callers, Record(c) PROVE A
    <3>1. CASE RecordSuccess(c)
      <4>1. state = "closed" => state' = "closed"
        BY <3>1 DEF RecordSuccess
      <4> QED
        BY <1>1, <3>1, <4>1, RecordSuccessSafe
    <3>2. CASE RecordFailure(c)
      BY <1>1, <3>2, RecordFailureSafe
    <3> QED
      BY <2>1, <3>1, <3>2 DEF Record
  <2>2. ASSUME NEW c \in Callers, Ask(c) \/ Answer(c) \/ Drop(c) \/ Return(c) PROVE A
    BY <2>2 DEF Ask, Admit, Reject, Answer, Drop, Return, inner, ToHalfOpen, CooledDown
  <2>3. CASE Observe \/ Health \/ Tick
    BY <2>3 DEF Observe, Health, Tick, inner, ToHalfOpen, CooledDown
  <2> QED
    BY <1>1, <2>1, <2>2, <2>3 DEF Next
<1> QED
  BY <1>1, Invariance, PTL DEF Spec, TransitionsEarned
===========================================================================
