----------------------------- MODULE Expiration -----------------------------
(***************************************************************************)
(* The expiration guard, expiration.rs, on one authorization that a buyer  *)
(* presents again and again while the server's clock runs.  Where the      *)
(* payment gate cannot read a bound of the authorization's window, it does *)
(* not ask the guard.                                                      *)
(***************************************************************************)
EXTENDS Naturals

CONSTANTS MaxSeconds,  \* the last second of a u64
          Drifts,      \* values of max_drift_seconds, one per behaviour
          Minimums,    \* values of min_remaining_validity_seconds
          Unread       \* a bound of the window that is absent or does not parse

Seconds == 0..MaxSeconds

ASSUME ExpirationAssumption ==
    /\ MaxSeconds \in Nat
    /\ Drifts \subseteq Seconds /\ Minimums \subseteq Seconds
    /\ Unread \notin Nat

VARIABLES drift, minimum,        \* ExpirationGuardConfig
          valid_after,
          valid_before,
          now,
          verdict,               \* of the last check
          checked                \* history: when that was

expiring == <<drift, minimum, valid_after, valid_before, now, verdict, checked>>

GuardVerdicts == {"none", "skipped", "inverted", "not_yet", "ok", "insufficient", "expired"}

saturating_add(a, b) == IF a + b > MaxSeconds THEN MaxSeconds ELSE a + b
saturating_sub(a, b) == IF a < b THEN 0 ELSE a - b

(* Faulty: tolerates drift at the end of the window too.                   *)
validateTolerant(after, before, time) ==
    CASE after > before -> "inverted"
      [] after <= before /\ after > saturating_add(time, drift) -> "not_yet"
      [] after <= before /\ before < saturating_sub(time, drift) -> "expired"
      [] OTHER -> IF saturating_sub(saturating_add(before, drift), time) < minimum
                  THEN "insufficient" ELSE "ok"

validate(after, before, time) ==
    IF after > before THEN "inverted"
    ELSE IF after > saturating_add(time, drift) THEN "not_yet"
    ELSE IF before < saturating_sub(time, drift) THEN "expired"
    ELSE IF time > before THEN "expired"
    ELSE IF saturating_sub(before, time) < minimum THEN "insufficient"
    ELSE "ok"

ExpirationInit ==
    /\ drift \in Drifts /\ minimum \in Minimums
    /\ valid_after \in Seconds \cup {Unread}
    /\ valid_before \in Seconds \cup {Unread}
    /\ now \in Seconds
    /\ verdict = "none" /\ checked = now

Tick ==
    /\ now < MaxSeconds
    /\ now' = now + 1
    /\ UNCHANGED <<drift, minimum, valid_after, valid_before, verdict, checked>>

(* validate_now, where the gate calls it.                                  *)
Check ==
    /\ verdict' = IF Unread \in {valid_after, valid_before} THEN "skipped"
                  ELSE validate(valid_after, valid_before, now)
    /\ checked' = now
    /\ UNCHANGED <<drift, minimum, valid_after, valid_before, now>>

ExpirationNext == Tick \/ Check

ExpirationSpec == ExpirationInit /\ [][ExpirationNext]_expiring

---------------------------------------------------------------------------
(* Properties.                                                             *)

(* The verdict is the one unbounded integers give: an accepted             *)
(* authorization is valid for the minimum from the check on, whatever      *)
(* drift is tolerated; only its start is tolerated early; and nothing is   *)
(* refused that meets both, not even next to the last second of a u64.     *)
VerdictExact ==
    verdict \notin {"none", "skipped"} =>
        /\ verdict = "ok" <=> /\ valid_after <= valid_before
                              /\ valid_after <= checked + drift
                              /\ checked + minimum <= valid_before
        /\ verdict = "not_yet" <=> /\ valid_after <= valid_before
                                   /\ checked + drift < valid_after
        /\ verdict = "expired" <=> /\ valid_after <= valid_before
                                   /\ valid_before < checked

Stage == [not_yet |-> 1, ok |-> 2, insufficient |-> 3, expired |-> 4]

(* As the clock runs, the verdict on one authorization only moves on: what *)
(* was accepted or too late once is never early again, and what is expired *)
(* stays so.                                                               *)
VerdictAdvances ==
    verdict \in DOMAIN Stage => /\ verdict' \in DOMAIN Stage
                                /\ Stage[verdict] <= Stage[verdict']

(* Both of the above, of every step.                                       *)
WindowRespected == [][VerdictExact' /\ VerdictAdvances]_expiring
=============================================================================
