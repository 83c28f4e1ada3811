---------------------------- MODULE ServiceProofs ----------------------------
(* The invariants of Service, for any number of connections, permits and   *)
(* requests.  Each relates a counter to the number of requests in a set of *)
(* places, so all of them rest on what one move does to such a number.     *)
EXTENDS Service, TLAPS, FiniteSetTheorems

Places == {"away", "entered", "routed", "probing", "scraping",
           "replying", "leaving"} \cup Metered

(* How many requests are in one of the places P.                           *)
Here(P)  == {r \in Requests : at[r] \in P}
HowMany(P) == Cardinality(Here(P))

Inside   == Places \ {"away"}
Awaited  == Places \ {"away", "entered", "leaving"}  \* counted in, not out
Undecided == {"gated", "verifying"}                  \* no verdict counted yet
Unsettled == {"handling", "settling"}                \* verified, not settled

(* Every request that may still be told about has its place in a sum.      *)
CountsKept ==
    /\ permits + HowMany(Metered) = MaxConcurrent
    /\ active = HowMany(Inside)
    /\ total = outcomes["success"] + outcomes["challenge"] + outcomes["server_error"]
                  + silent + HowMany(Awaited)
    /\ metrics["settled"] + metrics["unsettled"] + HowMany(Unsettled) <= metrics["verified"]
    /\ metrics["verified"] + metrics["rejected"] + HowMany(Undecided) <= metrics["requests"]

(* Where the counters are numbers.                                         *)
CountersOK ==
    /\ at \in [Requests -> Places]
    /\ status \in [Requests -> Statuses \cup {None}]
    /\ permits \in Int /\ active \in Int /\ total \in Nat /\ silent \in Nat
    /\ outcomes \in [Statuses \ {"client_error"} -> Nat]
    /\ metrics \in [{"requests", "challenges", "verified", "rejected", "settled", "unsettled"}
                        -> Nat]

(* A request on its way out of the metered part, or replying, has a status *)
(* to be counted under.                                                    *)
Told == \A r \in Requests : at[r] \in {"served", "replying"} => status[r] \in Statuses

IInv == CountersOK /\ Told /\ CountsKept

---------------------------------------------------------------------------
(* Counting.                                                               *)

LEMMA HereFinite ==
    ASSUME NEW P
    PROVE  IsFiniteSet(Here(P)) /\ HowMany(P) \in Nat
<1>1. Here(P) \in SUBSET Requests
  BY DEF Here
<1> QED
  BY <1>1, ServiceAssumption, FS_Subset, FS_CardinalityType DEF HowMany

(* A move takes a request out of one place and into another.               *)
LEMMA MoveCounts ==
    ASSUME CountersOK, NEW r \in Requests, NEW q, GoTo(r, q), NEW P
    PROVE  HowMany(P)' = HowMany(P) - (IF at[r] \in P THEN 1 ELSE 0)
                                    + (IF q \in P THEN 1 ELSE 0)
<1> DEFINE rest == Here(P) \ {r}
<1>1. at' = [at EXCEPT ![r] = q] /\ at \in [Requests -> Places]
  BY DEF GoTo, CountersOK
<1>2. Here(P)' = IF q \in P THEN rest \cup {r} ELSE rest
  BY <1>1 DEF Here
<1>3. IsFiniteSet(Here(P)) /\ HowMany(P) \in Nat
  BY HereFinite
<1>4. /\ IsFiniteSet(rest)
      /\ Cardinality(rest) = HowMany(P) - (IF at[r] \in P THEN 1 ELSE 0)
  <2>1. r \in Here(P) <=> at[r] \in P
    BY DEF Here
  <2> QED
    BY <2>1, <1>3, FS_RemoveElement DEF HowMany
<1>5. Cardinality(rest \cup {r}) = Cardinality(rest) + 1
  BY <1>4, FS_AddElement
<1>6. Cardinality(rest) \in Int
  BY <1>3, <1>4
<1> HIDE DEF rest
<1> QED
  BY <1>2, <1>3, <1>4, <1>5, <1>6 DEF HowMany

(* A step that moves nobody leaves every number.                           *)
LEMMA StayCounts ==
    ASSUME UNCHANGED at, NEW P
    PROVE  HowMany(P)' = HowMany(P)
BY DEF HowMany, Here

(* What a place adds to the number of requests in P.                       *)
One(p, P) == IF p \in P THEN 1 ELSE 0

(* What a move does to the five numbers.                                   *)
LEMMA MoveFacts ==
    ASSUME CountersOK, NEW r \in Requests, NEW p, NEW q, at[r] = p, GoTo(r, q)
    PROVE  /\ HowMany(Metered)' = HowMany(Metered) - One(p, Metered) + One(q, Metered)
           /\ HowMany(Inside)' = HowMany(Inside) - One(p, Inside) + One(q, Inside)
           /\ HowMany(Awaited)' = HowMany(Awaited) - One(p, Awaited) + One(q, Awaited)
           /\ HowMany(Unsettled)' = HowMany(Unsettled) - One(p, Unsettled) + One(q, Unsettled)
           /\ HowMany(Undecided)' = HowMany(Undecided) - One(p, Undecided) + One(q, Undecided)
BY MoveCounts DEF One

LEMMA HowManyNat ==
    /\ HowMany(Metered) \in Nat /\ HowMany(Inside) \in Nat /\ HowMany(Awaited) \in Nat
    /\ HowMany(Unsettled) \in Nat /\ HowMany(Undecided) \in Nat
BY HereFinite

---------------------------------------------------------------------------
(* Every step keeps the invariant.                                         *)

LEMMA InitIInv == Init => IInv
<1> SUFFICES ASSUME Init PROVE IInv
  OBVIOUS
<1>1. CountersOK
  BY ServiceAssumption DEF Init, CountersOK, Places, Metered, Statuses, Loads
<1>2. Told
  BY DEF Init, Told
<1>3. ASSUME NEW P, "away" \notin P PROVE HowMany(P) = 0
  <2>1. Here(P) = {}
    BY <1>3 DEF Init, Here
  <2> QED
    BY <2>1, FS_EmptySet DEF HowMany
<1>4. /\ HowMany(Metered) = 0 /\ HowMany(Inside) = 0 /\ HowMany(Awaited) = 0
      /\ HowMany(Unsettled) = 0 /\ HowMany(Undecided) = 0
  BY <1>3 DEF Metered, Inside, Awaited, Unsettled, Undecided, Places
<1>5. CountsKept
  BY <1>4, ServiceAssumption DEF Init, CountsKept, Statuses, Loads
<1> QED
  BY <1>1, <1>2, <1>5 DEF IInv
(* A step keeps the counters numbers, and a request that is about to be    *)
(* counted has a status.                                                   *)
LEMMA TypesStep ==
    ASSUME CountersOK, Told, [Next]_vars PROVE CountersOK' /\ Told'
<1> USE DEF CountersOK, Told, Places, Metered, Statuses
<1>1. ASSUME NEW r \in Requests, Enter(r) PROVE CountersOK' /\ Told'
  BY <1>1 DEF Enter, Move, GoTo, service
<1>2. ASSUME NEW r \in Requests, CountRequest(r) PROVE CountersOK' /\ Told'
  BY <1>2 DEF CountRequest, Move, GoTo, service
<1>3. ASSUME NEW r \in Requests, AnswerFree(r) PROVE CountersOK' /\ Told'
  BY <1>3 DEF AnswerFree, Respond, Move, GoTo, service
<1>4. ASSUME NEW r \in Requests, Probe(r) PROVE CountersOK' /\ Told'
  BY <1>4 DEF Probe, Move, GoTo, service
<1>5. ASSUME NEW r \in Requests, AnswerReadiness(r) PROVE CountersOK' /\ Told'
  BY <1>5 DEF AnswerReadiness, Respond, Move, GoTo, service
<1>6. ASSUME NEW r \in Requests, Scrape(r) PROVE CountersOK' /\ Told'
  BY <1>6 DEF Scrape, Move, GoTo, service
<1>7. ASSUME NEW r \in Requests, Report(r) PROVE CountersOK' /\ Told'
  BY <1>7 DEF Report, Respond, Move, GoTo, service
<1>8. ASSUME NEW r \in Requests, Acquire(r) PROVE CountersOK' /\ Told'
  BY <1>8 DEF Acquire, Move, GoTo, service
<1>9. ASSUME NEW r \in Requests, Busy(r) PROVE CountersOK' /\ Told'
  BY <1>9 DEF Busy, Respond, Move, GoTo, service
<1>10. ASSUME NEW r \in Requests, LimitRate(r) PROVE CountersOK' /\ Told'
  BY <1>10 DEF LimitRate, Respond, Move, GoTo, service
<1>11. ASSUME NEW r \in Requests, RecordRequest(r) PROVE CountersOK' /\ Told'
  BY <1>11 DEF RecordRequest, Move, GoTo, service, Count
<1>12. ASSUME NEW r \in Requests, AnswerUncounted(r) PROVE CountersOK' /\ Told'
  BY <1>12 DEF AnswerUncounted, Respond, Move, GoTo, service
<1>13. ASSUME NEW r \in Requests, Refuse(r) PROVE CountersOK' /\ Told'
  BY <1>13 DEF Refuse, Move, GoTo, service
<1>14. ASSUME NEW r \in Requests, RecordChallenge(r) PROVE CountersOK' /\ Told'
  BY <1>14 DEF RecordChallenge, Respond, Move, GoTo, service, Count
<1>15. ASSUME NEW r \in Requests, Verify(r) PROVE CountersOK' /\ Told'
  BY <1>15 DEF Verify, Move, GoTo, service
<1>16. ASSUME NEW r \in Requests, RecordRejection(r) PROVE CountersOK' /\ Told'
  BY <1>16 DEF RecordRejection, Move, GoTo, service, Count
<1>17. ASSUME NEW r \in Requests, RecordVerification(r) PROVE CountersOK' /\ Told'
  BY <1>17 DEF RecordVerification, Move, GoTo, service, Count
<1>18. ASSUME NEW r \in Requests, HandlerFails(r) PROVE CountersOK' /\ Told'
  BY <1>18 DEF HandlerFails, Respond, Move, GoTo, service
<1>19. ASSUME NEW r \in Requests, HandlerSucceeds(r) PROVE CountersOK' /\ Told'
  BY <1>19 DEF HandlerSucceeds, Move, GoTo, service
<1>20. ASSUME NEW r \in Requests, RecordSettlement(r) PROVE CountersOK' /\ Told'
  BY <1>20 DEF RecordSettlement, Respond, Move, GoTo, service, Count
<1>21. ASSUME NEW r \in Requests, DropPermit(r) PROVE CountersOK' /\ Told'
  BY <1>21 DEF DropPermit, Move, GoTo, service
<1>22. ASSUME NEW r \in Requests, RecordOutcome(r) PROVE CountersOK' /\ Told'
  BY <1>22 DEF RecordOutcome, Move, GoTo, service
<1>23. ASSUME NEW r \in Requests, DropGuard(r) PROVE CountersOK' /\ Told'
  BY <1>23 DEF DropGuard, Move, GoTo, service
<1>24. ASSUME NEW r \in Requests, Load(r) PROVE CountersOK' /\ Told'
  BY <1>24 DEF Load, service
<1>25. ASSUME NEW r \in Requests, Cancel(r) PROVE CountersOK' /\ Told'
  BY <1>25 DEF Cancel, Waiting, GoTo
<1>26. CASE UNCHANGED vars
  BY <1>26 DEF vars, service
<1> QED
  BY <1>1, <1>2, <1>3, <1>4, <1>5, <1>6, <1>7, <1>8, <1>9, <1>10, <1>11, <1>12, <1>13, <1>14, <1>15, <1>16, <1>17, <1>18, <1>19, <1>20, <1>21, <1>22, <1>23, <1>24, <1>25, <1>26
     DEF Next, Idle, Free, Gate

(* A step keeps the sums: what it adds to a counter it takes from, or adds *)
(* to, the number of requests that are still to be told about.             *)
LEMMA CountsStep ==
    ASSUME CountersOK, Told, CountsKept, [Next]_vars PROVE CountsKept'
<1> USE HowManyNat DEF CountersOK, CountsKept, Statuses
<1>1. ASSUME NEW r \in Requests, Enter(r) PROVE CountsKept'
  <2>1. at[r] = "away" /\ GoTo(r, "entered")
    BY <1>1 DEF Enter, Move
  <2>2. /\ HowMany(Metered)' = HowMany(Metered) /\ HowMany(Inside)' = HowMany(Inside) + 1
        /\ HowMany(Awaited)' = HowMany(Awaited) /\ HowMany(Unsettled)' = HowMany(Unsettled)
        /\ HowMany(Undecided)' = HowMany(Undecided)
    BY <2>1, MoveFacts DEF One, Metered, Inside, Awaited, Unsettled, Undecided, Places
  <2> QED
    BY <1>1, <2>2 DEF Enter, service
<1>2. ASSUME NEW r \in Requests, CountRequest(r) PROVE CountsKept'
  <2>1. at[r] = "entered" /\ GoTo(r, "routed")
    BY <1>2 DEF CountRequest, Move
  <2>2. /\ HowMany(Metered)' = HowMany(Metered) /\ HowMany(Inside)' = HowMany(Inside)
        /\ HowMany(Awaited)' = HowMany(Awaited) + 1 /\ HowMany(Unsettled)' = HowMany(Unsettled)
        /\ HowMany(Undecided)' = HowMany(Undecided)
    BY <2>1, MoveFacts DEF One, Metered, Inside, Awaited, Unsettled, Undecided, Places
  <2> QED
    BY <1>2, <2>2 DEF CountRequest, service
<1>3. ASSUME NEW r \in Requests, AnswerFree(r) PROVE CountsKept'
  <2>1. at[r] = "routed" /\ GoTo(r, "replying")
    BY <1>3 DEF AnswerFree, Move, Respond
  <2>2. /\ HowMany(Metered)' = HowMany(Metered) /\ HowMany(Inside)' = HowMany(Inside)
        /\ HowMany(Awaited)' = HowMany(Awaited) /\ HowMany(Unsettled)' = HowMany(Unsettled)
        /\ HowMany(Undecided)' = HowMany(Undecided)
    BY <2>1, MoveFacts DEF One, Metered, Inside, Awaited, Unsettled, Undecided, Places
  <2> QED
    BY <1>3, <2>2 DEF AnswerFree, service
<1>4. ASSUME NEW r \in Requests, Probe(r) PROVE CountsKept'
  <2>1. at[r] = "routed" /\ GoTo(r, "probing")
    BY <1>4 DEF Probe, Move
  <2>2. /\ HowMany(Metered)' = HowMany(Metered) /\ HowMany(Inside)' = HowMany(Inside)
        /\ HowMany(Awaited)' = HowMany(Awaited) /\ HowMany(Unsettled)' = HowMany(Unsettled)
        /\ HowMany(Undecided)' = HowMany(Undecided)
    BY <2>1, MoveFacts DEF One, Metered, Inside, Awaited, Unsettled, Undecided, Places
  <2> QED
    BY <1>4, <2>2 DEF Probe, service
<1>5. ASSUME NEW r \in Requests, AnswerReadiness(r) PROVE CountsKept'
  <2>1. at[r] = "probing" /\ GoTo(r, "replying")
    BY <1>5 DEF AnswerReadiness, Move, Respond
  <2>2. /\ HowMany(Metered)' = HowMany(Metered) /\ HowMany(Inside)' = HowMany(Inside)
        /\ HowMany(Awaited)' = HowMany(Awaited) /\ HowMany(Unsettled)' = HowMany(Unsettled)
        /\ HowMany(Undecided)' = HowMany(Undecided)
    BY <2>1, MoveFacts DEF One, Metered, Inside, Awaited, Unsettled, Undecided, Places
  <2> QED
    BY <1>5, <2>2 DEF AnswerReadiness, service
<1>6. ASSUME NEW r \in Requests, Scrape(r) PROVE CountsKept'
  <2>1. at[r] = "routed" /\ GoTo(r, "scraping")
    BY <1>6 DEF Scrape, Move
  <2>2. /\ HowMany(Metered)' = HowMany(Metered) /\ HowMany(Inside)' = HowMany(Inside)
        /\ HowMany(Awaited)' = HowMany(Awaited) /\ HowMany(Unsettled)' = HowMany(Unsettled)
        /\ HowMany(Undecided)' = HowMany(Undecided)
    BY <2>1, MoveFacts DEF One, Metered, Inside, Awaited, Unsettled, Undecided, Places
  <2> QED
    BY <1>6, <2>2 DEF Scrape, service
<1>7. ASSUME NEW r \in Requests, Report(r) PROVE CountsKept'
  <2>1. at[r] = "scraping" /\ GoTo(r, "replying")
    BY <1>7 DEF Report, Move, Respond
  <2>2. /\ HowMany(Metered)' = HowMany(Metered) /\ HowMany(Inside)' = HowMany(Inside)
        /\ HowMany(Awaited)' = HowMany(Awaited) /\ HowMany(Unsettled)' = HowMany(Unsettled)
        /\ HowMany(Undecided)' = HowMany(Undecided)
    BY <2>1, MoveFacts DEF One, Metered, Inside, Awaited, Unsettled, Undecided, Places
  <2> QED
    BY <1>7, <2>2 DEF Report, service
<1>8. ASSUME NEW r \in Requests, Acquire(r) PROVE CountsKept'
  <2>1. at[r] = "routed" /\ GoTo(r, "admitted")
    BY <1>8 DEF Acquire, Move
  <2>2. /\ HowMany(Metered)' = HowMany(Metered) + 1 /\ HowMany(Inside)' = HowMany(Inside)
        /\ HowMany(Awaited)' = HowMany(Awaited) /\ HowMany(Unsettled)' = HowMany(Unsettled)
        /\ HowMany(Undecided)' = HowMany(Undecided)
    BY <2>1, MoveFacts DEF One, Metered, Inside, Awaited, Unsettled, Undecided, Places
  <2> QED
    BY <1>8, <2>2 DEF Acquire, service
<1>9. ASSUME NEW r \in Requests, Busy(r) PROVE CountsKept'
  <2>1. at[r] = "routed" /\ GoTo(r, "replying")
    BY <1>9 DEF Busy, Move, Respond
  <2>2. /\ HowMany(Metered)' = HowMany(Metered) /\ HowMany(Inside)' = HowMany(Inside)
        /\ HowMany(Awaited)' = HowMany(Awaited) /\ HowMany(Unsettled)' = HowMany(Unsettled)
        /\ HowMany(Undecided)' = HowMany(Undecided)
    BY <2>1, MoveFacts DEF One, Metered, Inside, Awaited, Unsettled, Undecided, Places
  <2> QED
    BY <1>9, <2>2 DEF Busy, service
<1>10. ASSUME NEW r \in Requests, LimitRate(r) PROVE CountsKept'
  <2>1. at[r] = "admitted" /\ GoTo(r, "served")
    BY <1>10 DEF LimitRate, Move, Respond
  <2>2. /\ HowMany(Metered)' = HowMany(Metered) /\ HowMany(Inside)' = HowMany(Inside)
        /\ HowMany(Awaited)' = HowMany(Awaited) /\ HowMany(Unsettled)' = HowMany(Unsettled)
        /\ HowMany(Undecided)' = HowMany(Undecided)
    BY <2>1, MoveFacts DEF One, Metered, Inside, Awaited, Unsettled, Undecided, Places
  <2> QED
    BY <1>10, <2>2 DEF LimitRate, service
<1>11. ASSUME NEW r \in Requests, RecordRequest(r) PROVE CountsKept'
  <2>1. at[r] = "admitted" /\ GoTo(r, "gated")
    BY <1>11 DEF RecordRequest, Move
  <2>2. /\ HowMany(Metered)' = HowMany(Metered) /\ HowMany(Inside)' = HowMany(Inside)
        /\ HowMany(Awaited)' = HowMany(Awaited) /\ HowMany(Unsettled)' = HowMany(Unsettled)
        /\ HowMany(Undecided)' = HowMany(Undecided) + 1
    BY <2>1, MoveFacts DEF One, Metered, Inside, Awaited, Unsettled, Undecided, Places
  <2> QED
    BY <1>11, <2>2 DEF RecordRequest, service, Count
<1>12. ASSUME NEW r \in Requests, AnswerUncounted(r) PROVE CountsKept'
  <2>1. at[r] = "gated" /\ GoTo(r, "served")
    BY <1>12 DEF AnswerUncounted, Move, Respond
  <2>2. /\ HowMany(Metered)' = HowMany(Metered) /\ HowMany(Inside)' = HowMany(Inside)
        /\ HowMany(Awaited)' = HowMany(Awaited) /\ HowMany(Unsettled)' = HowMany(Unsettled)
        /\ HowMany(Undecided)' = HowMany(Undecided) - 1
    BY <2>1, MoveFacts DEF One, Metered, Inside, Awaited, Unsettled, Undecided, Places
  <2> QED
    BY <1>12, <2>2 DEF AnswerUncounted, service
<1>13. ASSUME NEW r \in Requests, Refuse(r) PROVE CountsKept'
  <2>1. at[r] = "gated" /\ GoTo(r, "challenging")
    BY <1>13 DEF Refuse, Move
  <2>2. /\ HowMany(Metered)' = HowMany(Metered) /\ HowMany(Inside)' = HowMany(Inside)
        /\ HowMany(Awaited)' = HowMany(Awaited) /\ HowMany(Unsettled)' = HowMany(Unsettled)
        /\ HowMany(Undecided)' = HowMany(Undecided) - 1
    BY <2>1, MoveFacts DEF One, Metered, Inside, Awaited, Unsettled, Undecided, Places
  <2> QED
    BY <1>13, <2>2 DEF Refuse, service
<1>14. ASSUME NEW r \in Requests, RecordChallenge(r) PROVE CountsKept'
  <2>1. at[r] = "challenging" /\ GoTo(r, "served")
    BY <1>14 DEF RecordChallenge, Move, Respond
  <2>2. /\ HowMany(Metered)' = HowMany(Metered) /\ HowMany(Inside)' = HowMany(Inside)
        /\ HowMany(Awaited)' = HowMany(Awaited) /\ HowMany(Unsettled)' = HowMany(Unsettled)
        /\ HowMany(Undecided)' = HowMany(Undecided)
    BY <2>1, MoveFacts DEF One, Metered, Inside, Awaited, Unsettled, Undecided, Places
  <2> QED
    BY <1>14, <2>2 DEF RecordChallenge, service, Count
<1>15. ASSUME NEW r \in Requests, Verify(r) PROVE CountsKept'
  <2>1. at[r] = "gated" /\ GoTo(r, "verifying")
    BY <1>15 DEF Verify, Move
  <2>2. /\ HowMany(Metered)' = HowMany(Metered) /\ HowMany(Inside)' = HowMany(Inside)
        /\ HowMany(Awaited)' = HowMany(Awaited) /\ HowMany(Unsettled)' = HowMany(Unsettled)
        /\ HowMany(Undecided)' = HowMany(Undecided)
    BY <2>1, MoveFacts DEF One, Metered, Inside, Awaited, Unsettled, Undecided, Places
  <2> QED
    BY <1>15, <2>2 DEF Verify, service
<1>16. ASSUME NEW r \in Requests, RecordRejection(r) PROVE CountsKept'
  <2>1. at[r] = "verifying" /\ GoTo(r, "challenging")
    BY <1>16 DEF RecordRejection, Move
  <2>2. /\ HowMany(Metered)' = HowMany(Metered) /\ HowMany(Inside)' = HowMany(Inside)
        /\ HowMany(Awaited)' = HowMany(Awaited) /\ HowMany(Unsettled)' = HowMany(Unsettled)
        /\ HowMany(Undecided)' = HowMany(Undecided) - 1
    BY <2>1, MoveFacts DEF One, Metered, Inside, Awaited, Unsettled, Undecided, Places
  <2> QED
    BY <1>16, <2>2 DEF RecordRejection, service, Count
<1>17. ASSUME NEW r \in Requests, RecordVerification(r) PROVE CountsKept'
  <2>1. at[r] = "verifying" /\ GoTo(r, "handling")
    BY <1>17 DEF RecordVerification, Move
  <2>2. /\ HowMany(Metered)' = HowMany(Metered) /\ HowMany(Inside)' = HowMany(Inside)
        /\ HowMany(Awaited)' = HowMany(Awaited) /\ HowMany(Unsettled)' = HowMany(Unsettled) + 1
        /\ HowMany(Undecided)' = HowMany(Undecided) - 1
    BY <2>1, MoveFacts DEF One, Metered, Inside, Awaited, Unsettled, Undecided, Places
  <2> QED
    BY <1>17, <2>2 DEF RecordVerification, service, Count
<1>18. ASSUME NEW r \in Requests, HandlerFails(r) PROVE CountsKept'
  <2>1. at[r] = "handling" /\ GoTo(r, "served")
    BY <1>18 DEF HandlerFails, Move, Respond
  <2>2. /\ HowMany(Metered)' = HowMany(Metered) /\ HowMany(Inside)' = HowMany(Inside)
        /\ HowMany(Awaited)' = HowMany(Awaited) /\ HowMany(Unsettled)' = HowMany(Unsettled) - 1
        /\ HowMany(Undecided)' = HowMany(Undecided)
    BY <2>1, MoveFacts DEF One, Metered, Inside, Awaited, Unsettled, Undecided, Places
  <2> QED
    BY <1>18, <2>2 DEF HandlerFails, service
<1>19. ASSUME NEW r \in Requests, HandlerSucceeds(r) PROVE CountsKept'
  <2>1. at[r] = "handling" /\ GoTo(r, "settling")
    BY <1>19 DEF HandlerSucceeds, Move
  <2>2. /\ HowMany(Metered)' = HowMany(Metered) /\ HowMany(Inside)' = HowMany(Inside)
        /\ HowMany(Awaited)' = HowMany(Awaited) /\ HowMany(Unsettled)' = HowMany(Unsettled)
        /\ HowMany(Undecided)' = HowMany(Undecided)
    BY <2>1, MoveFacts DEF One, Metered, Inside, Awaited, Unsettled, Undecided, Places
  <2> QED
    BY <1>19, <2>2 DEF HandlerSucceeds, service
<1>20. ASSUME NEW r \in Requests, RecordSettlement(r) PROVE CountsKept'
  <2>1. at[r] = "settling" /\ GoTo(r, "served")
    BY <1>20 DEF RecordSettlement, Move, Respond
  <2>2. /\ HowMany(Metered)' = HowMany(Metered) /\ HowMany(Inside)' = HowMany(Inside)
        /\ HowMany(Awaited)' = HowMany(Awaited) /\ HowMany(Unsettled)' = HowMany(Unsettled) - 1
        /\ HowMany(Undecided)' = HowMany(Undecided)
    BY <2>1, MoveFacts DEF One, Metered, Inside, Awaited, Unsettled, Undecided, Places
  <2> QED
    BY <1>20, <2>2 DEF RecordSettlement, service, Count
<1>21. ASSUME NEW r \in Requests, DropPermit(r) PROVE CountsKept'
  <2>1. at[r] = "served" /\ GoTo(r, "replying")
    BY <1>21 DEF DropPermit, Move
  <2>2. /\ HowMany(Metered)' = HowMany(Metered) - 1 /\ HowMany(Inside)' = HowMany(Inside)
        /\ HowMany(Awaited)' = HowMany(Awaited) /\ HowMany(Unsettled)' = HowMany(Unsettled)
        /\ HowMany(Undecided)' = HowMany(Undecided)
    BY <2>1, MoveFacts DEF One, Metered, Inside, Awaited, Unsettled, Undecided, Places
  <2> QED
    BY <1>21, <2>2 DEF DropPermit, service
<1>22. ASSUME NEW r \in Requests, RecordOutcome(r) PROVE CountsKept'
  <2>1. at[r] = "replying" /\ GoTo(r, "leaving")
    BY <1>22 DEF RecordOutcome, Move
  <2>2. /\ HowMany(Metered)' = HowMany(Metered) /\ HowMany(Inside)' = HowMany(Inside)
        /\ HowMany(Awaited)' = HowMany(Awaited) - 1 /\ HowMany(Unsettled)' = HowMany(Unsettled)
        /\ HowMany(Undecided)' = HowMany(Undecided)
    BY <2>1, MoveFacts DEF One, Metered, Inside, Awaited, Unsettled, Undecided, Places
  <2> QED
    BY <1>22, <2>2 DEF RecordOutcome, service, Told, Move
<1>23. ASSUME NEW r \in Requests, DropGuard(r) PROVE CountsKept'
  <2>1. at[r] = "leaving" /\ GoTo(r, "away")
    BY <1>23 DEF DropGuard, Move
  <2>2. /\ HowMany(Metered)' = HowMany(Metered) /\ HowMany(Inside)' = HowMany(Inside) - 1
        /\ HowMany(Awaited)' = HowMany(Awaited) /\ HowMany(Unsettled)' = HowMany(Unsettled)
        /\ HowMany(Undecided)' = HowMany(Undecided)
    BY <2>1, MoveFacts DEF One, Metered, Inside, Awaited, Unsettled, Undecided, Places
  <2> QED
    BY <1>23, <2>2 DEF DropGuard, service
<1>24. ASSUME NEW r \in Requests, Load(r) PROVE CountsKept'
  BY <1>24, StayCounts DEF Load, service
<1>25. ASSUME NEW r \in Requests, Cancel(r) PROVE CountsKept'
  <2>1. at[r] \in Waiting /\ GoTo(r, "leaving")
    BY <1>25 DEF Cancel
  <2>2. CASE at[r] = "probing"
    <3>1. /\ HowMany(Metered)' = HowMany(Metered) /\ HowMany(Inside)' = HowMany(Inside)
          /\ HowMany(Awaited)' = HowMany(Awaited) - 1 /\ HowMany(Unsettled)' = HowMany(Unsettled)
          /\ HowMany(Undecided)' = HowMany(Undecided)
      BY <2>1, <2>2, MoveFacts DEF One, Metered, Inside, Awaited, Unsettled, Undecided, Places
    <3> QED
      BY <1>25, <2>2, <3>1 DEF Cancel, Metered
  <2>3. CASE at[r] = "verifying"
    <3>1. /\ HowMany(Metered)' = HowMany(Metered) - 1 /\ HowMany(Inside)' = HowMany(Inside)
          /\ HowMany(Awaited)' = HowMany(Awaited) - 1 /\ HowMany(Unsettled)' = HowMany(Unsettled)
          /\ HowMany(Undecided)' = HowMany(Undecided) - 1
      BY <2>1, <2>3, MoveFacts DEF One, Metered, Inside, Awaited, Unsettled, Undecided, Places
    <3> QED
      BY <1>25, <2>3, <3>1 DEF Cancel, Metered
  <2>4. CASE at[r] = "handling"
    <3>1. /\ HowMany(Metered)' = HowMany(Metered) - 1 /\ HowMany(Inside)' = HowMany(Inside)
          /\ HowMany(Awaited)' = HowMany(Awaited) - 1 /\ HowMany(Unsettled)' = HowMany(Unsettled) - 1
          /\ HowMany(Undecided)' = HowMany(Undecided)
      BY <2>1, <2>4, MoveFacts DEF One, Metered, Inside, Awaited, Unsettled, Undecided, Places
    <3> QED
      BY <1>25, <2>4, <3>1 DEF Cancel, Metered
  <2>5. CASE at[r] = "settling"
    <3>1. /\ HowMany(Metered)' = HowMany(Metered) - 1 /\ HowMany(Inside)' = HowMany(Inside)
          /\ HowMany(Awaited)' = HowMany(Awaited) - 1 /\ HowMany(Unsettled)' = HowMany(Unsettled) - 1
          /\ HowMany(Undecided)' = HowMany(Undecided)
      BY <2>1, <2>5, MoveFacts DEF One, Metered, Inside, Awaited, Unsettled, Undecided, Places
    <3> QED
      BY <1>25, <2>5, <3>1 DEF Cancel, Metered
  <2> QED
    BY <2>1, <2>2, <2>3, <2>4, <2>5 DEF Waiting
<1>26. CASE UNCHANGED vars
  BY <1>26, StayCounts DEF vars, service
<1> QED
  BY <1>1, <1>2, <1>3, <1>4, <1>5, <1>6, <1>7, <1>8, <1>9, <1>10, <1>11, <1>12, <1>13, <1>14, <1>15, <1>16, <1>17, <1>18, <1>19, <1>20, <1>21, <1>22, <1>23, <1>24, <1>25, <1>26
     DEF Next, Idle, Free, Gate


(* Each counter equals the requests it has counted or holds (main.rs,      *)
(* http_request_logger and concurrency_limiter).                           *)
THEOREM InvariantHolds == Spec => []IInv
<1>1. Init => IInv
  BY InitIInv
<1>2. IInv /\ [Next]_vars => IInv'
  BY TypesStep, CountsStep DEF IInv
<1> QED
  BY <1>1, <1>2, PTL DEF Spec

---------------------------------------------------------------------------
(* The properties.                                                         *)

(* concurrency_limiter: the permits are with the semaphore or below it,    *)
(* whatever number of requests was dropped at an await.                    *)
THEOREM SlotsSafe == Spec => []SlotsConserved
<1>1. IInv => SlotsConserved
  BY DEF IInv, CountsKept, SlotsConserved, HowMany, Here
<1> QED
  BY <1>1, InvariantHolds, PTL

(* http_request_logger: the gauge and the request counters are exact.      *)
THEOREM CountsSafe == Spec => []CountsExact
<1>1. ASSUME IInv PROVE CountsExact
  <2>1. at \in [Requests -> Places]
    BY <1>1 DEF IInv, CountersOK
  <2>2. Here(Inside) = {r \in Requests : at[r] # "away"}
    BY <2>1 DEF Here, Inside
  <2>3. Here(Awaited) = {r \in Requests : at[r] \notin {"away", "entered", "leaving"}}
    BY <2>1 DEF Here, Awaited
  <2> QED
    BY <1>1, <2>2, <2>3 DEF IInv, CountsKept, CountsExact, GaugeExact, RequestsAddUp, HowMany
<1> QED
  BY <1>1, InvariantHolds, PTL

(* PaymentMetrics: at every instant no more is settled than was verified,  *)
(* and no more verified or rejected than was requested.                    *)
THEOREM MetricsSafe == Spec => []MetricsOrdered
<1>1. IInv => MetricsOrdered
  BY HowManyNat DEF IInv, CountsKept, CountersOK, MetricsOrdered, InOrder
<1> QED
  BY <1>1, InvariantHolds, PTL
=============================================================================
