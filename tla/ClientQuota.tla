---------------------------- MODULE ClientQuota ----------------------------
(***************************************************************************)
(* What the service's rate limiter promises each client: a bucket of its   *)
(* own that refills at a steady pace and is never forgotten.  There is no  *)
(* cache, no expiry and no capacity here.  Credit is counted in instants   *)
(* of refill, so one instant restores one unit; a request costs Cost.      *)
(*                                                                         *)
(* A request is judged at the instant its caller sampled, at most MaxLag   *)
(* before the current one.  A bucket that is full at every instant a       *)
(* caller can still hold has no history left: its state is Rested.         *)
(***************************************************************************)
EXTENDS Integers

CONSTANTS Clients, Cost, Burst, MaxLag, MaxInstant, Rested

VARIABLES clock, quota

vars == <<clock, quota>>

Smaller(a, b) == IF a <= b THEN a ELSE b
Larger(a, b)  == IF a >= b THEN a ELSE b

Rest(q, now) == IF q # Rested /\ q.credit + (now - MaxLag - q.since) >= Burst
                THEN Rested ELSE q

Init == /\ clock = 0
        /\ quota = [c \in Clients |-> Rested]

Tick == /\ clock < MaxInstant
        /\ clock' = clock + 1
        /\ quota' = [c \in Clients |-> Rest(quota[c], clock + 1)]

(* An instant older than the bucket's own counts as the bucket's.          *)
JudgedAt(c, s) == IF quota[c] = Rested THEN s ELSE Larger(s, quota[c].since)

Credit(c, s) == IF quota[c] = Rested THEN Burst
                ELSE Smaller(Burst, quota[c].credit + (JudgedAt(c, s) - quota[c].since))

Judge(c, s, left) ==
    /\ quota' = [quota EXCEPT ![c] = [credit |-> left, since |-> JudgedAt(c, s)]]
    /\ UNCHANGED clock

Recent == {s \in 0..clock : clock - s <= MaxLag}

Grant(c) == \E s \in Recent : Credit(c, s) >= Cost /\ Judge(c, s, Credit(c, s) - Cost)

Deny(c) == \E s \in Recent : Credit(c, s) < Cost /\ Judge(c, s, Credit(c, s))

Next == Tick \/ \E c \in Clients : Grant(c) \/ Deny(c)

Spec == Init /\ [][Next]_vars
===========================================================================
