-------------------------- MODULE CircuitBreaker --------------------------
(***************************************************************************)
(* The circuit breaker of kite-x402-axum/src/circuit_breaker.rs with the   *)
(* callers it is written for: each asks can_execute, calls the             *)
(* facilitator, and records the outcome when it comes.                     *)
(*                                                                         *)
(* Every method is one section of the mutex.  Nothing ties an outcome to   *)
(* the state its call was admitted in: calls outlive transitions, and      *)
(* their outcomes are recorded in whatever state they find.  A caller may  *)
(* also be dropped during its call, and then records nothing.              *)
(***************************************************************************)
EXTENDS Integers, Sequences

CONSTANTS Callers,
          FailureThreshold,  \* failure_threshold
          SuccessThreshold,  \* half_open_success_threshold
          RecoveryTimeout,   \* recovery_timeout, in ticks
          CountLimit,        \* bound: where the model's counters stop
          HistoryLength      \* bound: recorded outcomes the history keeps

ASSUME BreakerAssumption ==
    /\ FailureThreshold \in Nat /\ SuccessThreshold \in Nat
    /\ RecoveryTimeout \in Nat
    /\ CountLimit \in Nat /\ FailureThreshold <= CountLimit /\ SuccessThreshold <= CountLimit
    /\ HistoryLength \in Nat /\ FailureThreshold <= HistoryLength
    /\ SuccessThreshold <= HistoryLength

VARIABLES state,                  \* Inner.state
          consecutive_failures,
          consecutive_successes,
          elapsed,                \* ticks since last_state_change, up to RecoveryTimeout
          total_rejected,
          total_trips,
          call,                   \* where each caller is
          healthy,                \* whether the facilitator answers calls now
          since_trip,             \* history: ticks since the last trip, likewise
          outcomes                \* history: what was recorded last, oldest first,
                                  \* with a mark where the circuit went half-open

counters == <<total_rejected, total_trips>>
inner    == <<state, consecutive_failures, consecutive_successes, elapsed, counters>>
vars     == <<inner, call, healthy, since_trip, outcomes>>

States == {"closed", "open", "half_open"}
Outcomes == {"success", "failure", "half_open"}

(* Counting stops at a bound beyond which no comparison changes.           *)
UpTo(limit, n) == IF n < limit THEN n + 1 ELSE n

Init ==
    /\ state = "closed"
    /\ consecutive_failures = 0
    /\ consecutive_successes = 0
    /\ elapsed = 0
    /\ total_rejected = 0
    /\ total_trips = 0
    /\ call = [c \in Callers |-> "idle"]
    /\ healthy = TRUE
    /\ since_trip = RecoveryTimeout
    /\ outcomes = <<>>

Goes(c, p, q) == call[c] = p /\ call' = [call EXCEPT ![c] = q]

Noted(s, o) == IF Len(s) < HistoryLength THEN Append(s, o) ELSE Tail(Append(s, o))
Note(o) == outcomes' = Noted(outcomes, o)

CooledDown == state = "open" /\ elapsed >= RecoveryTimeout

---------------------------------------------------------------------------
(* Transitions, each with the counters it resets and the instant it notes. *)

ToHalfOpen ==
    /\ state' = "half_open"
    /\ consecutive_successes' = 0
    /\ elapsed' = 0
    /\ Note("half_open")
    /\ UNCHANGED <<consecutive_failures, counters, since_trip>>

Trip ==
    /\ state' = "open"
    /\ total_trips' = UpTo(CountLimit, total_trips)
    /\ elapsed' = 0
    /\ since_trip' = 0

---------------------------------------------------------------------------
(* can_execute.                                                            *)

Admit(c) ==
    /\ Goes(c, "idle", "calling")
    /\ \/ state # "open" /\ UNCHANGED <<inner, since_trip, outcomes>>
       \/ CooledDown /\ ToHalfOpen
    /\ UNCHANGED healthy

(* Faulty: every refusal starts the cool-down over.                        *)
RejectExtending(c) ==
    /\ state = "open" /\ ~CooledDown
    /\ Goes(c, "idle", "refused")
    /\ total_rejected' = UpTo(CountLimit, total_rejected)
    /\ elapsed' = 0
    /\ UNCHANGED <<state, consecutive_failures, consecutive_successes, total_trips,
                   healthy, since_trip, outcomes>>

Reject(c) ==
    /\ state = "open" /\ ~CooledDown
    /\ Goes(c, "idle", "refused")
    /\ total_rejected' = UpTo(CountLimit, total_rejected)
    /\ UNCHANGED <<state, consecutive_failures, consecutive_successes, elapsed, total_trips,
                   healthy, since_trip, outcomes>>

(* state(), which anyone may ask and which also moves on to half-open.     *)
Observe ==
    /\ CooledDown
    /\ ToHalfOpen
    /\ UNCHANGED <<call, healthy>>

---------------------------------------------------------------------------
(* record_success and record_failure.                                      *)

(* Faulty: a success outside a trial leaves the streak of failures.        *)
RecordSuccessUnbroken(c) ==
    /\ Goes(c, "answered", "idle")
    /\ Note("success")
    /\ IF state = "half_open"
       THEN /\ consecutive_failures' = 0
            /\ IF consecutive_successes + 1 >= SuccessThreshold
               THEN state' = "closed" /\ consecutive_successes' = 0 /\ elapsed' = 0
               ELSE /\ consecutive_successes' = consecutive_successes + 1
                    /\ UNCHANGED <<state, elapsed>>
       ELSE UNCHANGED <<state, consecutive_failures, consecutive_successes, elapsed>>
    /\ UNCHANGED <<counters, healthy, since_trip>>

RecordSuccess(c) ==
    /\ Goes(c, "answered", "idle")
    /\ consecutive_failures' = 0
    /\ Note("success")
    /\ IF state = "half_open"
       THEN IF consecutive_successes + 1 >= SuccessThreshold
            THEN state' = "closed" /\ consecutive_successes' = 0 /\ elapsed' = 0
            ELSE /\ consecutive_successes' = consecutive_successes + 1
                 /\ UNCHANGED <<state, elapsed>>
       ELSE UNCHANGED <<state, consecutive_successes, elapsed>>
    /\ UNCHANGED <<counters, healthy, since_trip>>

(* Faulty: a failure that comes while the circuit is open starts the       *)
(* cool-down over.                                                         *)
RecordFailureExtending(c) ==
    /\ Goes(c, "failed", "idle")
    /\ consecutive_failures' = UpTo(CountLimit, consecutive_failures)
    /\ consecutive_successes' = 0
    /\ Note("failure")
    /\ IF \/ state = "closed" /\ consecutive_failures + 1 >= FailureThreshold
          \/ state = "half_open"
       THEN Trip
       ELSE elapsed' = 0 /\ UNCHANGED <<state, total_trips, since_trip>>
    /\ UNCHANGED <<total_rejected, healthy>>

RecordFailure(c) ==
    /\ Goes(c, "failed", "idle")
    /\ consecutive_failures' = UpTo(CountLimit, consecutive_failures)
    /\ consecutive_successes' = 0
    /\ Note("failure")
    /\ \/ /\ \/ state = "closed" /\ consecutive_failures + 1 >= FailureThreshold
             \/ state = "half_open"
          /\ Trip
       \/ /\ \/ state = "closed" /\ consecutive_failures + 1 < FailureThreshold
             \/ state = "open"
          /\ UNCHANGED <<state, elapsed, total_trips, since_trip>>
    /\ UNCHANGED <<total_rejected, healthy>>

---------------------------------------------------------------------------
(* The callers, the facilitator and the clock.                             *)

Answer(c) ==
    /\ Goes(c, "calling", IF healthy THEN "answered" ELSE "failed")
    /\ UNCHANGED <<inner, healthy, since_trip, outcomes>>

Drop(c) ==
    /\ Goes(c, "calling", "idle")
    /\ UNCHANGED <<inner, healthy, since_trip, outcomes>>

Return(c) ==
    /\ Goes(c, "refused", "idle")
    /\ UNCHANGED <<inner, healthy, since_trip, outcomes>>

Health ==
    /\ healthy' = ~healthy
    /\ UNCHANGED <<inner, call, since_trip, outcomes>>

Tick ==
    /\ elapsed' = UpTo(RecoveryTimeout, elapsed)
    /\ since_trip' = UpTo(RecoveryTimeout, since_trip)
    /\ UNCHANGED <<state, consecutive_failures, consecutive_successes, counters,
                   call, healthy, outcomes>>

Record(c) == RecordSuccess(c) \/ RecordFailure(c)
Ask(c) == Admit(c) \/ Reject(c)

Next == \/ Observe \/ Health \/ Tick
        \/ \E c \in Callers : Ask(c) \/ Answer(c) \/ Drop(c) \/ Record(c) \/ Return(c)

Spec == Init /\ [][Next]_vars

(* Time passes, callers keep asking and record what they were answered,    *)
(* and not every call is dropped before its answer.                        *)
Fairness == /\ WF_vars(Tick)
            /\ \A c \in Callers : /\ WF_vars(Ask(c)) /\ WF_vars(Record(c)) /\ WF_vars(Return(c))
                                  /\ SF_vars(Answer(c))

FairSpec == Spec /\ Fairness

---------------------------------------------------------------------------
(* Properties.                                                             *)

(* Successes are counted only during a trial, and a closed circuit has not *)
(* seen enough failures to open.                                           *)
TypeOK ==
    /\ state \in States
    /\ consecutive_failures \in 0..CountLimit
    /\ consecutive_successes \in 0..CountLimit
    /\ state # "half_open" => consecutive_successes = 0
    /\ state = "closed" => consecutive_failures = 0 \/ consecutive_failures < FailureThreshold
    /\ elapsed \in 0..RecoveryTimeout
    /\ since_trip \in 0..RecoveryTimeout
    /\ total_rejected \in 0..CountLimit
    /\ total_trips \in 0..CountLimit
    /\ call \in [Callers -> {"idle", "calling", "refused", "answered", "failed"}]
    /\ healthy \in BOOLEAN
    /\ outcomes \in Seq(Outcomes) /\ Len(outcomes) <= HistoryLength

(* can_execute refuses a call exactly while the last trip is younger than  *)
(* recovery_timeout, whatever outcomes of earlier calls are recorded       *)
(* meanwhile: a late failure neither shortens nor extends the cool-down.   *)
CoolDownExact ==
    [][\A c \in Callers : call[c] = "idle" =>
          /\ call'[c] = "calling" => since_trip >= RecoveryTimeout
          /\ call'[c] = "refused" => since_trip < RecoveryTimeout]_vars

Ends(s, n, o) == n <= Len(s) /\ \A i \in (Len(s) - n + 1)..Len(s) : s[i] = o

(* The circuit opens from closed only when the last failure_threshold      *)
(* outcomes recorded are failures, and closes only when the last           *)
(* half_open_success_threshold are successes, all recorded since it went   *)
(* half-open.                                                              *)
TransitionsEarned ==
    [][/\ state = "closed" /\ state' = "open" => Ends(outcomes', FailureThreshold, "failure")
       /\ state # "closed" /\ state' = "closed" =>
             Ends(outcomes', SuccessThreshold, "success")]_vars

(* "graceful recovery probing": once the facilitator answers for good, the *)
(* circuit closes for good, whatever late failures are still recorded.     *)
Recovers == <>[]healthy => <>[](state = "closed")

---------------------------------------------------------------------------
(* The inductive invariant behind them.                                    *)

(* The instant of the last state change is that of the last trip while the *)
(* circuit is open, and otherwise the cool-down is over.                   *)
CoolDownTold == IF state = "open" THEN elapsed = since_trip
                                  ELSE since_trip = RecoveryTimeout

(* The counters are what was recorded last.                                *)
StreaksTold ==
    /\ state = "closed" => Ends(outcomes, consecutive_failures, "failure")
    /\ state = "half_open" => Ends(outcomes, consecutive_successes, "success")
    /\ consecutive_successes = 0 \/ consecutive_successes < SuccessThreshold

IInv == TypeOK /\ CoolDownTold /\ StreaksTold
===========================================================================
