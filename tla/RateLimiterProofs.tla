------------------------- MODULE RateLimiterProofs -------------------------
(***************************************************************************)
(* Theorems about RateLimiter: the inductive invariant IInv, the bound of  *)
(* the cache, honest refusals, and, for an idle timeout that outlasts the  *)
(* wait for the mutex (Patient), that no quota is reset early and that the *)
(* limiter implements ClientQuota.                                         *)
(***************************************************************************)
EXTENDS RateLimiter, FiniteSetTheorems, TLAPS

---------------------------------------------------------------------------
(* The arithmetic of delays.                                               *)

LEMMA WholeSecondsFacts ==
    ASSUME NEW d \in Nat
    PROVE  /\ WholeSeconds(d) \in Nat
           /\ WholeSeconds(d) >= d
  BY RateAssumption DEF WholeSeconds

LEMMA ExpiryFacts ==
    ASSUME NEW n \in 0..Burst, NEW t \in 0..MaxInstant
    PROVE  /\ Expiry(n, t) \in 0..Never
           /\ Expiry(n, t) # Never => /\ Expiry(n, t) \in 0..MaxInstant
                                      /\ Expiry(n, t) >= t + IdleTimeout
                                      /\ Expiry(n, t) >= t + (Burst - n)
  <1>1. WholeSeconds(Burst - n) \in Nat /\ WholeSeconds(Burst - n) >= Burst - n
    <2>1. Burst - n \in Nat
      BY RateAssumption
    <2>2. QED
      BY <2>1, WholeSecondsFacts
  <1>2. QED
    BY <1>1, RateAssumption DEF Expiry, Larger, Never

LEMMA WaitFacts ==
    ASSUME NEW n \in 0..Burst, n < Cost
    PROVE  Wait(n) \in Nat /\ Wait(n) > 0 /\ n + Wait(n) >= Cost
  <1>1. WholeSeconds(Cost - n) \in Nat /\ WholeSeconds(Cost - n) >= Cost - n
    <2>1. Cost - n \in Nat
      BY RateAssumption
    <2>2. QED
      BY <2>1, WholeSecondsFacts
  <1>2. QED
    BY <1>1, RateAssumption DEF Wait, Larger

---------------------------------------------------------------------------
(* The sweep and the index.                                                *)

LEMMA SweepDue ==
    ASSUME NEW now, NEW S \in Sweeps(now)
    PROVE  S \subseteq expirations /\ \A e \in S : e[1] <= now
  BY DEF Sweeps, Due

(* A bucket is kept as it was, or was due and is gone with its deadline.   *)
LEMMA KeptFacts ==
    ASSUME TypeOK, IndexExact, NEW now, NEW S \in Sweeps(now)
    PROVE  /\ Kept(S) \in [Clients -> BucketType \cup {None}]
           /\ \A c \in Clients : \/ Kept(S)[c] = buckets[c]
                                 \/ /\ Kept(S)[c] = None
                                    /\ buckets[c] # None
                                    /\ buckets[c].expires # Never
                                    /\ buckets[c].expires <= now
           /\ expirations \ S = IndexOf(Kept(S))
  <1>1. Kept(S) \in [Clients -> BucketType \cup {None}]
    BY DEF TypeOK, Kept
  <1>2. \A e \in expirations : /\ e[2] \in Clients
                               /\ buckets[e[2]] # None
                               /\ buckets[e[2]].expires # Never
                               /\ e = <<buckets[e[2]].expires, e[2]>>
    BY DEF IndexExact, IndexOf
  <1>3. \A c \in Clients : \/ Kept(S)[c] = buckets[c]
                           \/ /\ Kept(S)[c] = None
                              /\ buckets[c] # None
                              /\ buckets[c].expires # Never
                              /\ buckets[c].expires <= now
                              /\ <<buckets[c].expires, c>> \in S
    <2>1. SUFFICES ASSUME NEW c \in Clients, NEW e \in S, e[2] = c
                   PROVE  /\ Kept(S)[c] = None
                          /\ buckets[c] # None
                          /\ buckets[c].expires # Never
                          /\ buckets[c].expires <= now
                          /\ <<buckets[c].expires, c>> \in S
      BY DEF Kept
    <2>2. e \in expirations /\ e[1] <= now
      BY SweepDue
    <2>3. e = <<buckets[c].expires, c>> /\ buckets[c] # None /\ buckets[c].expires # Never
      BY <1>2, <2>1, <2>2
    <2>4. QED
      BY <2>1, <2>2, <2>3 DEF Kept
  <1>4. \A e \in expirations : e \notin S => Kept(S)[e[2]] = buckets[e[2]]
    BY <1>2, <1>3, SweepDue
  <1>5. expirations \ S \subseteq IndexOf(Kept(S))
    BY <1>2, <1>4 DEF IndexOf
  <1>6. IndexOf(Kept(S)) \subseteq expirations \ S
    <2>1. SUFFICES ASSUME NEW c \in Clients, Kept(S)[c] # None, Kept(S)[c].expires # Never
                   PROVE  <<Kept(S)[c].expires, c>> \in expirations \ S
      BY DEF IndexOf
    <2>2. Kept(S)[c] = buckets[c] /\ <<buckets[c].expires, c>> \in expirations
      BY <1>3, <2>1 DEF IndexExact, IndexOf
    <2>3. \A e \in S : e[2] # c
      BY <2>1 DEF Kept
    <2>4. QED
      BY <2>2, <2>3
  <1>7. QED
    BY <1>1, <1>3, <1>5, <1>6

(* Storing a bucket and moving its deadline keeps the index exact.         *)
LEMMA MovedIndex ==
    ASSUME NEW f \in [Clients -> BucketType \cup {None}],
           NEW c \in Clients, NEW b \in BucketType
    PROVE  IndexOf([f EXCEPT ![c] = b]) =
              {e \in IndexOf(f) : f[c] = None \/ e # <<f[c].expires, c>>}
                 \cup {e \in {<<b.expires, c>>} : e[1] # Never}
  <1> DEFINE g == [f EXCEPT ![c] = b]
  <1>1. g[c] = b /\ b # None /\ \A d \in Clients \ {c} : g[d] = f[d]
    BY RateAssumption
  <1>2. \A e \in IndexOf(f) : e[2] = c => f[c] # None /\ e = <<f[c].expires, c>>
    BY DEF IndexOf
  <1>3. ASSUME NEW e \in IndexOf(g)
        PROVE  e \in {x \in IndexOf(f) : f[c] = None \/ x # <<f[c].expires, c>>}
                        \cup {x \in {<<b.expires, c>>} : x[1] # Never}
    <2>1. PICK d \in Clients : g[d] # None /\ g[d].expires # Never /\ e = <<g[d].expires, d>>
      BY <1>3 DEF IndexOf
    <2>2. CASE d = c
      BY <1>1, <2>1, <2>2
    <2>3. CASE d # c
      <3>1. e \in IndexOf(f) /\ e[2] # c
        BY <1>1, <2>1, <2>3 DEF IndexOf
      <3>2. QED
        BY <3>1
    <2>4. QED
      BY <2>2, <2>3
  <1>4. ASSUME NEW e \in IndexOf(f), f[c] = None \/ e # <<f[c].expires, c>>
        PROVE  e \in IndexOf(g)
    <2>1. PICK d \in Clients : f[d] # None /\ f[d].expires # Never /\ e = <<f[d].expires, d>>
      BY <1>4 DEF IndexOf
    <2>2. d # c
      BY <1>4, <2>1
    <2>3. QED
      BY <1>1, <2>1, <2>2 DEF IndexOf
  <1>5. b.expires # Never => <<b.expires, c>> \in IndexOf(g)
    BY <1>1 DEF IndexOf
  <1> DEFINE moved == {e \in IndexOf(f) : f[c] = None \/ e # <<f[c].expires, c>>}
                        \cup {e \in {<<b.expires, c>>} : e[1] # Never}
  <1>6. IndexOf(g) \subseteq moved
    BY <1>3
  <1>7. ASSUME NEW e \in moved PROVE e \in IndexOf(g)
    <2>1. CASE e \in IndexOf(f)
      <3>1. CASE f[c] = None \/ e # <<f[c].expires, c>>
        BY <1>4, <2>1, <3>1
      <3>2. CASE ~(f[c] = None \/ e # <<f[c].expires, c>>)
        BY <1>5, <1>7, <3>2
      <3>3. QED
        BY <3>1, <3>2
    <2>2. CASE e \notin IndexOf(f)
      BY <1>5, <1>7, <2>2
    <2>3. QED
      BY <2>1, <2>2
  <1>8. QED
    BY <1>6, <1>7

---------------------------------------------------------------------------
(* The judgement of a request.                                             *)

(* The bucket a request is judged by, and the instant it is judged at.     *)
B(o, S) == Bucket(Kept(S), client[o], stamp[o])
T(o, S) == JudgedAt(B(o, S), stamp[o])

LEMMA JudgedFacts ==
    ASSUME IInv, NEW o \in Ops, call[o] = "asking", NEW S \in Sweeps(stamp[o])
    PROVE  /\ client[o] \in Clients
           /\ stamp[o] \in 0..clock
           /\ B(o, S) \in BucketType
           /\ T(o, S) \in 0..clock
           /\ T(o, S) >= stamp[o] /\ T(o, S) >= B(o, S).last
           /\ Kept(S)[client[o]] # None => B(o, S) = buckets[client[o]]
           /\ Kept(S)[client[o]] = None =>
                 B(o, S).tokens = Burst /\ B(o, S).last = stamp[o] /\ T(o, S) = stamp[o]
           /\ Refilled(B(o, S), T(o, S)) \in 0..Burst
           /\ Refilled(B(o, S), T(o, S)) <= B(o, S).tokens + (T(o, S) - B(o, S).last)
           /\ \/ Refilled(B(o, S), T(o, S)) = Burst
              \/ Refilled(B(o, S), T(o, S)) = B(o, S).tokens + (T(o, S) - B(o, S).last)
  <1>1. client[o] \in Clients /\ stamp[o] \in 0..clock /\ clock \in 0..MaxInstant
    <2>1. /\ clock \in 0..MaxInstant /\ stamp[o] \in 0..MaxInstant
          /\ client[o] \in Clients \cup {None}
      BY DEF IInv, TypeOK
    <2>2. client[o] # None /\ stamp[o] <= clock
      BY DEF IInv, RequestShape
    <2>3. QED
      BY <2>1, <2>2, RateAssumption
  <1>2. /\ Kept(S) \in [Clients -> BucketType \cup {None}]
        /\ Kept(S)[client[o]] # None => Kept(S)[client[o]] = buckets[client[o]]
    BY <1>1, KeptFacts DEF IInv
  <1>3. CASE Kept(S)[client[o]] = None
    <2>1. B(o, S) = [tokens |-> Burst, last |-> stamp[o], expires |-> Never]
      BY <1>3 DEF B, Bucket
    <2>2. B(o, S) \in BucketType /\ T(o, S) = stamp[o]
      BY <1>1, <2>1, RateAssumption DEF BucketType, T, JudgedAt, Larger, Never
    <2>3. Refilled(B(o, S), T(o, S)) = Burst
      BY <1>1, <2>1, <2>2, RateAssumption DEF Refilled, Smaller, Larger
    <2>4. QED
      BY <1>1, <1>3, <2>1, <2>2, <2>3, RateAssumption
  <1>4. CASE Kept(S)[client[o]] # None
    <2>1. B(o, S) = buckets[client[o]] /\ B(o, S) \in BucketType
      BY <1>1, <1>2, <1>4 DEF B, Bucket
    <2>2. B(o, S).last <= clock
      BY <1>1, <1>2, <1>4, <2>1 DEF IInv, BucketsJudged, Cached
    <2>3. /\ B(o, S).last \in 0..MaxInstant
          /\ B(o, S).tokens \in 0..Burst
      BY <2>1 DEF BucketType
    <2>4. T(o, S) \in 0..clock /\ T(o, S) >= stamp[o] /\ T(o, S) >= B(o, S).last
      BY <1>1, <2>2, <2>3 DEF T, JudgedAt, Larger
    <2>5. /\ Refilled(B(o, S), T(o, S)) \in 0..Burst
          /\ Refilled(B(o, S), T(o, S)) <= B(o, S).tokens + (T(o, S) - B(o, S).last)
          /\ \/ Refilled(B(o, S), T(o, S)) = Burst
             \/ Refilled(B(o, S), T(o, S)) = B(o, S).tokens + (T(o, S) - B(o, S).last)
      BY <1>1, <2>3, <2>4, RateAssumption DEF Refilled, Smaller, Larger
    <2>6. QED
      BY <1>1, <1>4, <2>1, <2>4, <2>5
  <1>5. QED
    BY <1>3, <1>4

---------------------------------------------------------------------------
(* The parts of a step that several actions share.                         *)

LEMMA AnswerFacts ==
    ASSUME IInv, NEW o \in Ops, NEW a \in Answers, Answer(o, a)
    PROVE  /\ call' \in [Ops -> {"idle", "asking"} \cup Answers]
           /\ client' \in [Ops -> Clients \cup {None}]
           /\ stamp' \in [Ops -> 0..MaxInstant]
           /\ clock' = clock /\ clock \in 0..MaxInstant
           /\ RequestShape'
  <1>1. /\ clock \in 0..MaxInstant
        /\ call \in [Ops -> {"idle", "asking"} \cup Answers]
        /\ client \in [Ops -> Clients \cup {None}]
        /\ stamp \in [Ops -> 0..MaxInstant]
    BY DEF IInv, TypeOK
  <1>2. /\ call' \in [Ops -> {"idle", "asking"} \cup Answers]
        /\ client' \in [Ops -> Clients \cup {None}]
        /\ stamp' \in [Ops -> 0..MaxInstant]
        /\ clock' = clock
    BY <1>1, RateAssumption DEF Answer
  <1>3. ASSUME NEW p \in Ops, call'[p] = "asking"
        PROVE  client'[p] # None /\ stamp'[p] <= clock /\ clock - stamp'[p] <= MaxLag
    <2>1. p # o
      BY <1>1, <1>3 DEF Answer, Answers
    <2>2. call[p] = "asking" /\ client'[p] = client[p] /\ stamp'[p] = stamp[p]
      BY <1>1, <1>3, <2>1 DEF Answer
    <2>3. QED
      BY <2>2 DEF IInv, RequestShape
  <1>4. QED
    BY <1>1, <1>2, <1>3 DEF RequestShape

LEMMA IndexType ==
    ASSUME NEW f \in [Clients -> BucketType \cup {None}]
    PROVE  IndexOf(f) \subseteq (0..MaxInstant) \X Clients
  <1>1. \A c \in Clients : f[c] # None /\ f[c].expires # Never => f[c].expires \in 0..MaxInstant
    BY RateAssumption DEF BucketType, Never
  <1>2. QED
    BY <1>1 DEF IndexOf

(* What Save stores, and what it leaves of the other clients' buckets.     *)
LEMMA SaveFacts ==
    ASSUME IInv, NEW o \in Ops, call[o] = "asking", NEW S \in Sweeps(stamp[o]),
           NEW n \in 0..Burst, n < Burst, Save(S, client[o], T(o, S), n)
    PROVE  /\ buckets' \in [Clients -> BucketType \cup {None}]
           /\ buckets'[client[o]] = [tokens |-> n, last |-> T(o, S),
                                     expires |-> Expiry(n, T(o, S))]
           /\ buckets'[client[o]] # None
           /\ \A c \in Clients \ {client[o]} :
                 buckets'[c] = buckets[c] \/ buckets'[c] = None
           /\ buckets' = [Kept(S) EXCEPT ![client[o]] = buckets'[client[o]]]
           /\ expirations' \subseteq (0..MaxInstant) \X Clients
           /\ IndexExact'
  <1> DEFINE b == [tokens |-> n, last |-> T(o, S), expires |-> Expiry(n, T(o, S))]
  <1>1. client[o] \in Clients /\ T(o, S) \in 0..MaxInstant
    <2>1. client[o] \in Clients /\ T(o, S) \in 0..clock
      BY JudgedFacts
    <2>2. clock \in 0..MaxInstant
      BY DEF IInv, TypeOK
    <2>3. QED
      BY <2>1, <2>2, RateAssumption
  <1>2. b \in BucketType
    BY <1>1, ExpiryFacts DEF BucketType
  <1>3. /\ Kept(S) \in [Clients -> BucketType \cup {None}]
        /\ \A c \in Clients : Kept(S)[c] = buckets[c] \/ Kept(S)[c] = None
        /\ expirations \ S = IndexOf(Kept(S))
    BY KeptFacts DEF IInv
  <1>4. buckets' = [Kept(S) EXCEPT ![client[o]] = b]
    BY DEF Save
  <1>5. /\ buckets' \in [Clients -> BucketType \cup {None}]
        /\ buckets'[client[o]] = b
        /\ \A c \in Clients \ {client[o]} : buckets'[c] = Kept(S)[c]
    <2> HIDE DEF b
    <2> QED
      BY <1>1, <1>2, <1>3, <1>4
  <1>6. IndexExact'
    <2>1. expirations' = {e \in IndexOf(Kept(S)) :
                             Kept(S)[client[o]] = None \/ e # <<Kept(S)[client[o]].expires, client[o]>>}
                          \cup {e \in {<<b.expires, client[o]>>} : e[1] # Never}
      BY <1>3 DEF Save
    <2> HIDE DEF b
    <2>2. expirations' = IndexOf([Kept(S) EXCEPT ![client[o]] = b])
      BY <1>1, <1>2, <1>3, <2>1, MovedIndex
    <2>3. QED
      BY <1>4, <2>2 DEF IndexExact, IndexOf
  <1>7. expirations' \subseteq (0..MaxInstant) \X Clients
    BY <1>5, <1>6, IndexType DEF IndexExact, IndexOf
  <1>8. b # None
    BY <1>2, RateAssumption
  <1>9. QED
    BY <1>3, <1>4, <1>5, <1>6, <1>7, <1>8

---------------------------------------------------------------------------
(* The inductive invariant, one lemma per action.                          *)

LEMMA InitIInv == Init => IInv
  <1> SUFFICES ASSUME Init PROVE IInv
    OBVIOUS
  <1>1. TypeOK
    BY RateAssumption DEF Init, TypeOK
  <1>2. RequestShape
    <2>1. \A o \in Ops : call[o] = "idle"
      BY DEF Init
    <2>2. QED
      BY <2>1 DEF RequestShape
  <1>3. Cached(buckets) = {} /\ IndexOf(buckets) = {}
    BY DEF Init, Cached, IndexOf
  <1>4. IndexExact
    BY <1>3 DEF Init, IndexExact
  <1>5. BucketsJudged /\ RetryKept
    BY <1>3 DEF BucketsJudged, RetryKept
  <1>6. QED
    BY <1>1, <1>2, <1>4, <1>5 DEF IInv

LEMMA TickIInv == IInv /\ Tick => IInv'
  <1> SUFFICES ASSUME IInv, Tick PROVE IInv'
    OBVIOUS
  <1>1. TypeOK' /\ clock \in 0..MaxInstant /\ clock' = clock + 1
    BY RateAssumption DEF IInv, TypeOK, Tick, cache
  <1>2. RequestShape'
    <2>1. ASSUME NEW o \in Ops, call[o] = "asking"
          PROVE  /\ client[o] # None
                 /\ stamp[o] <= clock + 1 /\ (clock + 1) - stamp[o] <= MaxLag
      <3>1. client[o] # None /\ stamp[o] <= clock
        BY <2>1 DEF IInv, RequestShape
      <3>2. clock - stamp[o] < MaxLag
        BY <2>1 DEF Tick
      <3>3. stamp[o] \in 0..MaxInstant
        BY DEF IInv, TypeOK
      <3>4. QED
        BY <1>1, <3>1, <3>2, <3>3, RateAssumption
    <2>2. call' = call /\ client' = client /\ stamp' = stamp
      BY DEF Tick
    <2>3. QED
      BY <1>1, <2>1, <2>2 DEF RequestShape
  <1>3. BucketsJudged'
    <2>1. SUFFICES ASSUME NEW c \in Cached(buckets)
                   PROVE  /\ buckets[c].last <= clock + 1
                          /\ buckets[c].tokens < Burst
                          /\ buckets[c].expires = Expiry(buckets[c].tokens, buckets[c].last)
      BY <1>1 DEF Tick, cache, BucketsJudged, Cached
    <2>2. buckets[c] \in BucketType
      BY DEF IInv, TypeOK, Cached
    <2>3. QED
      BY <1>1, <2>1, <2>2 DEF IInv, BucketsJudged, BucketType
  <1>4. RetryKept' /\ IndexExact'
    BY DEF IInv, Tick, cache, RetryKept, IndexExact, Cached, IndexOf
  <1>5. QED
    BY <1>1, <1>2, <1>3, <1>4 DEF IInv

LEMMA ArriveIInv == ASSUME NEW o \in Ops, NEW c \in Clients
                    PROVE  IInv /\ Arrive(o, c) => IInv'
  <1> SUFFICES ASSUME IInv, Arrive(o, c) PROVE IInv'
    OBVIOUS
  <1>1. TypeOK'
    BY DEF IInv, TypeOK, Arrive, cache
  <1>2. RequestShape'
    <2>1. SUFFICES ASSUME NEW p \in Ops, call'[p] = "asking"
                   PROVE  /\ client'[p] # None
                          /\ stamp'[p] <= clock' /\ clock' - stamp'[p] <= MaxLag
      BY DEF RequestShape
    <2>2. CASE p = o
      BY <2>2, RateAssumption DEF IInv, TypeOK, Arrive
    <2>3. CASE p # o
      <3>1. /\ call[p] = "asking" /\ client'[p] = client[p]
            /\ stamp'[p] = stamp[p] /\ clock' = clock
        BY <2>1, <2>3 DEF IInv, TypeOK, Arrive
      <3>2. QED
        BY <3>1 DEF IInv, RequestShape
    <2>4. QED
      BY <2>2, <2>3
  <1>3. BucketsJudged' /\ RetryKept' /\ IndexExact'
    BY DEF IInv, Arrive, cache, BucketsJudged, RetryKept, IndexExact, Cached, IndexOf
  <1>4. QED
    BY <1>1, <1>2, <1>3 DEF IInv

(* A judged request, granted or refused for its quota.                     *)
LEMMA SaveIInv ==
    ASSUME IInv, NEW o \in Ops, call[o] = "asking", NEW S \in Sweeps(stamp[o]),
           NEW n \in 0..Burst, n < Burst, Save(S, client[o], T(o, S), n),
           NEW a \in Answers, Answer(o, a),
           NEW r \in Nat, retryAt' = [retryAt EXCEPT ![client[o]] = r],
           r # 0 => n + (r - T(o, S)) >= Cost,
           spent' \in [Clients -> Nat]
    PROVE  IInv'
  <1>1. client[o] \in Clients /\ T(o, S) \in 0..clock
    BY JudgedFacts
  <1>2. retryAt \in [Clients -> Nat] /\ buckets \in [Clients -> BucketType \cup {None}]
    BY DEF IInv, TypeOK
  <1>8. buckets'[client[o]] = [tokens |-> n, last |-> T(o, S), expires |-> Expiry(n, T(o, S))]
    BY SaveFacts
  <1>9. /\ buckets'[client[o]].tokens = n
        /\ buckets'[client[o]].last = T(o, S)
        /\ buckets'[client[o]].expires = Expiry(n, T(o, S))
    BY <1>8
  <1>3. TypeOK'
    BY <1>1, <1>2, AnswerFacts, SaveFacts DEF TypeOK
  <1>4. RequestShape' /\ IndexExact'
    BY AnswerFacts, SaveFacts
  <1>5. BucketsJudged'
    <2>1. SUFFICES ASSUME NEW c \in Clients, buckets'[c] # None
                   PROVE  /\ buckets'[c].last <= clock'
                          /\ buckets'[c].tokens < Burst
                          /\ buckets'[c].expires = Expiry(buckets'[c].tokens, buckets'[c].last)
      BY DEF BucketsJudged, Cached
    <2>2. CASE c = client[o]
      <3>1. clock' = clock /\ clock \in 0..MaxInstant
        BY AnswerFacts
      <3>2. T(o, S) <= clock
        BY <1>1, <3>1, RateAssumption
      <3>3. QED
        BY <1>9, <2>2, <3>1, <3>2
    <2>3. CASE c # client[o]
      <3>1. buckets'[c] = buckets[c] /\ clock' = clock
        BY <2>1, <2>3, AnswerFacts, SaveFacts
      <3>2. QED
        BY <2>1, <3>1 DEF IInv, BucketsJudged, Cached
    <2>4. QED
      BY <2>2, <2>3
  <1>6. RetryKept'
    <2>1. SUFFICES ASSUME NEW c \in Clients, buckets'[c] # None, retryAt'[c] # 0
                   PROVE  buckets'[c].tokens + (retryAt'[c] - buckets'[c].last) >= Cost
      BY DEF RetryKept, Cached
    <2>2. CASE c = client[o]
      <3>1. retryAt'[c] = r
        BY <1>2, <2>2
      <3>2. buckets'[c].tokens = n /\ buckets'[c].last = T(o, S)
        BY <1>9, <2>2
      <3>3. QED
        BY <2>1, <3>1, <3>2
    <2>3. CASE c # client[o]
      <3>1. buckets'[c] = buckets[c] /\ retryAt'[c] = retryAt[c]
        BY <1>2, <2>1, <2>3, SaveFacts
      <3>2. QED
        BY <2>1, <3>1 DEF IInv, RetryKept, Cached
    <2>4. QED
      BY <2>2, <2>3
  <1>7. QED
    BY <1>3, <1>4, <1>5, <1>6 DEF IInv

LEMMA GrantedIInv == ASSUME NEW o \in Ops PROVE IInv /\ Granted(o) => IInv'
  <1> SUFFICES ASSUME IInv, Granted(o) PROVE IInv'
    OBVIOUS
  <1>1. PICK S \in Sweeps(stamp[o]) :
           /\ Refilled(B(o, S), T(o, S)) >= Cost
           /\ Save(S, client[o], T(o, S), Refilled(B(o, S), T(o, S)) - Cost)
           /\ retryAt' = [retryAt EXCEPT ![client[o]] = 0]
           /\ spent' = [spent EXCEPT ![client[o]] = @ + Cost]
    BY DEF Granted, B, T
  <1>2. call[o] = "asking" /\ Answer(o, "granted") /\ "granted" \in Answers
    BY DEF Granted, Answers
  <1>3. Refilled(B(o, S), T(o, S)) \in 0..Burst /\ client[o] \in Clients
    BY <1>2, JudgedFacts
  <1> DEFINE n == Refilled(B(o, S), T(o, S)) - Cost
  <1>4. n \in 0..Burst /\ n < Burst
    BY <1>1, <1>3, RateAssumption
  <1>5. spent' \in [Clients -> Nat]
    BY <1>1, <1>3, RateAssumption DEF IInv, TypeOK
  <1> HIDE DEF n
  <1>6. Save(S, client[o], T(o, S), n)
    BY <1>1 DEF n
  <1>7. QED
    BY <1>1, <1>2, <1>4, <1>5, <1>6, SaveIInv

LEMMA QuotaExceededIInv == ASSUME NEW o \in Ops PROVE IInv /\ QuotaExceeded(o) => IInv'
  <1> SUFFICES ASSUME IInv, QuotaExceeded(o) PROVE IInv'
    OBVIOUS
  <1>1. PICK S \in Sweeps(stamp[o]) :
           /\ Refilled(B(o, S), T(o, S)) < Cost
           /\ Save(S, client[o], T(o, S), Refilled(B(o, S), T(o, S)))
           /\ retryAt' = [retryAt EXCEPT ![client[o]] =
                             T(o, S) + Wait(Refilled(B(o, S), T(o, S)))]
    BY DEF QuotaExceeded, B, T
  <1>2. call[o] = "asking" /\ Answer(o, "quota") /\ "quota" \in Answers
    BY DEF QuotaExceeded, Answers
  <1>3. /\ Refilled(B(o, S), T(o, S)) \in 0..Burst
        /\ T(o, S) \in 0..clock /\ clock \in 0..MaxInstant
    <2>1. clock \in 0..MaxInstant
      BY DEF IInv, TypeOK
    <2>2. QED
      BY <1>2, <2>1, JudgedFacts
  <1> DEFINE n == Refilled(B(o, S), T(o, S))
             t == T(o, S)
             r == t + Wait(n)
  <1>4. n \in 0..Burst /\ n < Burst /\ n < Cost
    BY <1>1, <1>3, RateAssumption
  <1>5. spent' \in [Clients -> Nat]
    BY DEF IInv, TypeOK, QuotaExceeded
  <1>6. Save(S, client[o], T(o, S), n) /\ retryAt' = [retryAt EXCEPT ![client[o]] = r]
    BY <1>1
  <1>7. t \in Nat
    BY <1>3, RateAssumption
  <1> HIDE DEF n
  <1>8. Wait(n) \in Nat /\ n + Wait(n) >= Cost
    BY <1>4, WaitFacts
  <1>9. r \in Nat /\ (r # 0 => n + (r - T(o, S)) >= Cost)
    <2>1. r = t + Wait(n) /\ T(o, S) = t
      OBVIOUS
    <2> HIDE DEF r, t
    <2>2. QED
      BY <1>4, <1>7, <1>8, <2>1, RateAssumption
  <1> HIDE DEF r, t
  <1>10. QED
    BY <1>2, <1>4, <1>5, <1>6, <1>9, SaveIInv

LEMMA CapacityExceededIInv == ASSUME NEW o \in Ops PROVE IInv /\ CapacityExceeded(o) => IInv'
  <1> SUFFICES ASSUME IInv, CapacityExceeded(o) PROVE IInv'
    OBVIOUS
  <1>1. PICK S \in Sweeps(stamp[o]) : buckets' = Kept(S) /\ expirations' = expirations \ S
    BY DEF CapacityExceeded
  <1>2. Answer(o, "capacity") /\ "capacity" \in Answers /\ retryAt' = retryAt /\ spent' = spent
    BY DEF CapacityExceeded, Answers
  <1>3. /\ Kept(S) \in [Clients -> BucketType \cup {None}]
        /\ \A c \in Clients : Kept(S)[c] = buckets[c] \/ Kept(S)[c] = None
        /\ expirations \ S = IndexOf(Kept(S))
    BY KeptFacts DEF IInv
  <1>4. TypeOK'
    BY <1>1, <1>2, <1>3, AnswerFacts DEF IInv, TypeOK
  <1>5. RequestShape' /\ clock' = clock
    BY <1>2, AnswerFacts
  <1>6. IndexExact'
    BY <1>1, <1>3 DEF IndexExact, IndexOf
  <1>7. \A c \in Cached(buckets)' : buckets'[c] = buckets[c] /\ c \in Cached(buckets)
    BY <1>1, <1>3 DEF Cached
  <1>8. BucketsJudged' /\ RetryKept'
    BY <1>2, <1>5, <1>7 DEF IInv, BucketsJudged, RetryKept
  <1>9. QED
    BY <1>4, <1>5, <1>6, <1>8 DEF IInv

(* The requests, the buckets, their deadlines and what clients were told   *)
(* stay consistent, whatever the order in which requests get the mutex.    *)
THEOREM Invariance == Spec => []IInv
  <1>1. IInv /\ [Next]_vars => IInv'
    <2> SUFFICES ASSUME IInv, [Next]_vars PROVE IInv'
      OBVIOUS
    <2>1. CASE Tick
      BY <2>1, TickIInv
    <2>2. ASSUME NEW o \in Ops, NEW c \in Clients, Arrive(o, c) PROVE IInv'
      BY <2>2, ArriveIInv
    <2>3. ASSUME NEW o \in Ops, Granted(o) PROVE IInv'
      BY <2>3, GrantedIInv
    <2>4. ASSUME NEW o \in Ops, QuotaExceeded(o) PROVE IInv'
      BY <2>4, QuotaExceededIInv
    <2>5. ASSUME NEW o \in Ops, CapacityExceeded(o) PROVE IInv'
      BY <2>5, CapacityExceededIInv
    <2>6. CASE UNCHANGED vars
      BY <2>6 DEF vars, cache, IInv, TypeOK, RequestShape, BucketsJudged, RetryKept,
                  IndexExact, Cached, IndexOf
    <2>7. QED
      BY <2>1, <2>2, <2>3, <2>4, <2>5, <2>6 DEF Next
  <1>2. QED
    BY <1>1, InitIInv, PTL DEF Spec

(* The cache of buckets and its index keep their types (rate_limit.rs,     *)
(* TokenBucketRateLimiter).                                                *)
THEOREM TypeCorrect == Spec => []TypeOK
  BY Invariance, PTL DEF IInv

(* No bucket is reclaimed on an outdated deadline and none is forgotten.   *)
THEOREM IndexSafe == Spec => []IndexExact
  BY Invariance, PTL DEF IInv

---------------------------------------------------------------------------
(* The bound of the cache.                                                 *)

LEMMA CachedFinite ==
    ASSUME NEW f
    PROVE  IsFiniteSet(Cached(f)) /\ Cardinality(Cached(f)) \in Nat
  <1>1. Cached(f) \in SUBSET Clients
    BY DEF Cached
  <1>2. QED
    BY <1>1, FS_Subset, FS_CardinalityType, RateAssumption

LEMMA CachedKept ==
    ASSUME IInv, NEW now, NEW S \in Sweeps(now)
    PROVE  /\ Cached(Kept(S)) \subseteq Cached(buckets)
           /\ Cardinality(Cached(Kept(S))) <= Cardinality(Cached(buckets))
  <1>1. Cached(Kept(S)) \in SUBSET Cached(buckets)
    BY KeptFacts DEF IInv, Cached
  <1>2. QED
    BY <1>1, CachedFinite, FS_Subset

(* A judged request finds its bucket or room for it.                       *)
LEMMA SaveCacheBound ==
    ASSUME IInv, CacheBound, NEW o \in Ops, call[o] = "asking",
           NEW S \in Sweeps(stamp[o]), Room(Kept(S), client[o]),
           NEW b, buckets' = [Kept(S) EXCEPT ![client[o]] = b]
    PROVE  CacheBound'
  <1>1. Cached(buckets)' \in SUBSET (Cached(Kept(S)) \cup {client[o]})
    BY DEF Cached, Kept
  <1>2. /\ Cardinality(Cached(Kept(S))) \in Nat /\ IsFiniteSet(Cached(Kept(S)))
        /\ Cardinality(Cached(Kept(S))) <= MaxClients
        /\ IsFiniteSet(Cached(buckets)')
    <2>1. Cardinality(Cached(buckets)) \in Nat /\ Cardinality(Cached(buckets)) <= MaxClients
      BY CachedFinite DEF CacheBound
    <2>2. Cardinality(Cached(Kept(S))) \in Nat /\ IsFiniteSet(Cached(Kept(S)))
      BY CachedFinite
    <2>3. IsFiniteSet(Cached(Kept(S)) \cup {client[o]})
      BY <2>2, FS_AddElement
    <2>4. IsFiniteSet(Cached(buckets)')
      BY <1>1, <2>3, FS_Subset
    <2>5. Cardinality(Cached(Kept(S))) <= Cardinality(Cached(buckets))
      BY CachedKept
    <2>6. QED
      BY <2>1, <2>2, <2>4, <2>5, RateAssumption
  <1>3. CASE client[o] \in Cached(Kept(S))
    <2>1. Cached(buckets)' \in SUBSET Cached(Kept(S))
      BY <1>1, <1>3
    <2>2. Cardinality(Cached(buckets)') <= Cardinality(Cached(Kept(S)))
                /\ Cardinality(Cached(buckets)') \in Nat
      BY <1>2, <2>1, FS_Subset, FS_CardinalityType
    <2>3. QED
      BY <1>2, <2>2, RateAssumption DEF CacheBound
  <1>4. CASE client[o] \notin Cached(Kept(S))
    <2>1. Cardinality(Cached(Kept(S))) < MaxClients
      BY <1>4, JudgedFacts DEF Room, Cached
    <2>2. /\ IsFiniteSet(Cached(Kept(S)) \cup {client[o]})
          /\ Cardinality(Cached(Kept(S)) \cup {client[o]}) = Cardinality(Cached(Kept(S))) + 1
      BY <1>2, <1>4, FS_AddElement
    <2>3. /\ Cardinality(Cached(buckets)') <= Cardinality(Cached(Kept(S)) \cup {client[o]})
          /\ Cardinality(Cached(buckets)') \in Nat
      BY <1>1, <1>2, <2>2, FS_Subset, FS_CardinalityType
    <2>4. QED
      BY <1>2, <2>1, <2>2, <2>3, RateAssumption DEF CacheBound
  <1>5. QED
    BY <1>3, <1>4

(* The cache never outgrows MaxClients.                                    *)
THEOREM CacheSafe == Spec => []CacheBound
  <1>1. Init => CacheBound
    <2>1. Init => Cached(buckets) = {}
      BY DEF Init, Cached
    <2>2. QED
      BY <2>1, FS_EmptySet, RateAssumption DEF CacheBound
  <1>2. IInv /\ CacheBound /\ [Next]_vars => CacheBound'
    <2> SUFFICES ASSUME IInv, CacheBound, [Next]_vars PROVE CacheBound'
      OBVIOUS
    <2>1. CASE UNCHANGED buckets
      BY <2>1 DEF CacheBound, Cached
    <2>2. ASSUME NEW o \in Ops, Granted(o) PROVE CacheBound'
      <3>1. PICK S \in Sweeps(stamp[o]) :
               /\ Room(Kept(S), client[o])
               /\ \E b : buckets' = [Kept(S) EXCEPT ![client[o]] = b]
        BY <2>2 DEF Granted, Save
      <3>2. call[o] = "asking"
        BY <2>2 DEF Granted
      <3>3. QED
        BY <3>1, <3>2, SaveCacheBound
    <2>3. ASSUME NEW o \in Ops, QuotaExceeded(o) PROVE CacheBound'
      <3>1. PICK S \in Sweeps(stamp[o]) :
               /\ Room(Kept(S), client[o])
               /\ \E b : buckets' = [Kept(S) EXCEPT ![client[o]] = b]
        BY <2>3 DEF QuotaExceeded, Save
      <3>2. call[o] = "asking"
        BY <2>3 DEF QuotaExceeded
      <3>3. QED
        BY <3>1, <3>2, SaveCacheBound
    <2>4. ASSUME NEW o \in Ops, CapacityExceeded(o) PROVE CacheBound'
      <3>1. PICK S \in Sweeps(stamp[o]) : buckets' = Kept(S)
        BY <2>4 DEF CapacityExceeded
      <3>2. Cached(buckets)' = Cached(Kept(S))
        BY <3>1 DEF Cached
      <3>3. QED
        BY <3>2, CachedKept, CachedFinite, RateAssumption DEF CacheBound
    <2>5. QED
      BY <2>1, <2>2, <2>3, <2>4 DEF Next, vars, cache, Tick, Arrive
  <1>3. QED
    BY <1>1, <1>2, Invariance, PTL DEF Spec

(* Index and cache stay in step, and the cache bounded.                    *)
THEOREM CacheIsSound == Spec => []CacheSound
  BY IndexSafe, CacheSafe, PTL DEF CacheSound

---------------------------------------------------------------------------
(* Honest answers.                                                         *)

(* A step answers only the request it judges.                              *)
LEMMA OneAnswer ==
    ASSUME IInv, Next, NEW o \in Ops, call[o] = "asking"
    PROVE  /\ call'[o] = "quota" => QuotaExceeded(o)
           /\ call'[o] = "capacity" => CapacityExceeded(o)
  <1>1. call \in [Ops -> {"idle", "asking"} \cup Answers]
    BY DEF IInv, TypeOK
  <1>2. CASE Tick
    BY <1>2 DEF Tick
  <1>3. ASSUME NEW p \in Ops, NEW c \in Clients, Arrive(p, c)
        PROVE  call'[o] = "asking"
    BY <1>1, <1>3 DEF Arrive
  <1>4. ASSUME NEW p \in Ops, Granted(p)
        PROVE  call'[o] # "quota" /\ call'[o] # "capacity"
    BY <1>1, <1>4 DEF Granted, Answer
  <1>5. ASSUME NEW p \in Ops, QuotaExceeded(p)
        PROVE  call'[o] # "capacity" /\ (call'[o] = "quota" => p = o)
    BY <1>1, <1>5 DEF QuotaExceeded, Answer
  <1>6. ASSUME NEW p \in Ops, CapacityExceeded(p)
        PROVE  call'[o] # "quota" /\ (call'[o] = "capacity" => p = o)
    BY <1>1, <1>6 DEF CapacityExceeded, Answer
  <1>7. QED
    BY <1>2, <1>3, <1>4, <1>5, <1>6 DEF Next

LEMMA QuotaStep ==
    ASSUME IInv, NEW o \in Ops, QuotaExceeded(o)
    PROVE  stamp[o] < retryAt[client[o]] \/ retryAt[client[o]] = 0
  <1> SUFFICES ASSUME ~(stamp[o] < retryAt[client[o]]), retryAt[client[o]] # 0
               PROVE  FALSE
    OBVIOUS
  <1>1. call[o] = "asking"
    BY DEF QuotaExceeded
  <1>2. PICK S \in Sweeps(stamp[o]) : Refilled(B(o, S), T(o, S)) < Cost
    BY DEF QuotaExceeded, B, T
  <1> DEFINE b == B(o, S)
             n == Refilled(B(o, S), T(o, S))
  <1>3. /\ client[o] \in Clients /\ stamp[o] \in 0..clock /\ T(o, S) \in 0..clock
        /\ clock \in 0..MaxInstant /\ b \in BucketType /\ n \in 0..Burst
        /\ T(o, S) >= stamp[o]
        /\ n = Burst \/ n = b.tokens + (T(o, S) - b.last)
        /\ Kept(S)[client[o]] # None => b = buckets[client[o]]
        /\ Kept(S)[client[o]] = None => b.tokens = Burst /\ T(o, S) = b.last
    <2>1. clock \in 0..MaxInstant
      BY DEF IInv, TypeOK
    <2>2. QED
      BY <1>1, <2>1, JudgedFacts
  <1>4. retryAt[client[o]] \in Nat
    BY <1>3 DEF IInv, TypeOK
  <1>5. b.tokens \in 0..Burst /\ b.last \in 0..MaxInstant
    BY <1>3 DEF BucketType
  <1> HIDE DEF b, n
  <1>6. n = b.tokens + (T(o, S) - b.last) /\ n < Cost
    BY <1>2, <1>3, RateAssumption DEF n
  <1>7. CASE Kept(S)[client[o]] = None
    BY <1>3, <1>5, <1>6, <1>7, RateAssumption
  <1>8. CASE Kept(S)[client[o]] # None
    <2>1. b = buckets[client[o]] /\ client[o] \in Cached(buckets)
      BY <1>1, <1>3, <1>8, KeptFacts, RateAssumption DEF Cached, IInv
    <2>2. b.tokens + (retryAt[client[o]] - b.last) >= Cost
      BY <2>1 DEF IInv, RetryKept
    <2>3. QED
      BY <1>3, <1>4, <1>5, <1>6, <2>2, RateAssumption
  <1>9. QED
    BY <1>7, <1>8

(* A client that waits out its Retry-After is not refused for its quota    *)
(* again.                                                                  *)
THEOREM RetryIsHonest == Spec => RetryAfterHonest
  <1>1. IInv /\ [Next]_vars =>
           [\A o \in Ops : call[o] = "asking" /\ call'[o] = "quota" =>
               stamp[o] < retryAt[client[o]] \/ retryAt[client[o]] = 0]_vars
    BY OneAnswer, QuotaStep
  <1>2. QED
    BY <1>1, Invariance, PTL DEF Spec, RetryAfterHonest

LEMMA CapacityStep ==
    ASSUME IInv, CacheBound, NEW o \in Ops, CapacityExceeded(o),
           NEW c \in Clients, buckets[c] # None
    PROVE  buckets[c].last + Larger(WholeSeconds(Burst - buckets[c].tokens), IdleTimeout)
              > stamp[o]
  <1>1. PICK S \in Sweeps(stamp[o]) : ~Room(Kept(S), client[o])
    BY DEF CapacityExceeded
  <1>2. Cached(Kept(S)) = Cached(buckets)
    <2>1. Cardinality(Cached(Kept(S))) >= MaxClients
      BY <1>1, CachedFinite, RateAssumption DEF Room
    <2>2. Cached(Kept(S)) \in SUBSET Cached(buckets)
      BY CachedKept
    <2>3. Cardinality(Cached(Kept(S))) = Cardinality(Cached(buckets))
      BY <2>1, CachedKept, CachedFinite, RateAssumption DEF CacheBound
    <2>4. QED
      BY <2>2, <2>3, CachedFinite, FS_Subset
  <1>3. \A e \in expirations : e[2] \in Cached(buckets)
    BY DEF IInv, IndexExact, IndexOf, Cached
  <1>4. S = {}
    <2>1. \A e \in S : e[2] \notin Cached(Kept(S))
      BY DEF Kept, Cached
    <2>2. QED
      BY <1>2, <1>3, <2>1, SweepDue
  <1>5. Due(stamp[o]) = {}
    <2>1. CASE Cardinality(Due(stamp[o])) <= SweepLimit
      BY <1>4, <2>1 DEF Sweeps
    <2>2. CASE ~(Cardinality(Due(stamp[o])) <= SweepLimit)
      BY <1>4, <2>2, FS_EmptySet, RateAssumption DEF Sweeps
    <2>3. QED
      BY <2>1, <2>2
  <1>6. /\ buckets[c] \in BucketType /\ c \in Cached(buckets)
        /\ stamp[o] \in 0..MaxInstant
    BY DEF IInv, TypeOK, Cached
  <1>7. buckets[c].expires = Expiry(buckets[c].tokens, buckets[c].last)
    BY <1>6 DEF IInv, BucketsJudged
  <1>8. buckets[c].expires = Never \/ ~(buckets[c].expires <= stamp[o])
    <2>1. CASE buckets[c].expires # Never
      <3>1. <<buckets[c].expires, c>> \in expirations
        BY <2>1 DEF IInv, IndexExact, IndexOf
      <3>2. QED
        BY <1>5, <3>1 DEF Due
    <2>2. QED
      BY <2>1
  <1> DEFINE deadline == buckets[c].last
                            + Larger(WholeSeconds(Burst - buckets[c].tokens), IdleTimeout)
  <1>9. deadline \in Nat
    <2>1. /\ buckets[c].last \in Nat /\ Burst - buckets[c].tokens \in Nat
      BY <1>6, RateAssumption DEF BucketType
    <2>2. WholeSeconds(Burst - buckets[c].tokens) \in Nat
      BY <2>1, WholeSecondsFacts
    <2>3. QED
      BY <2>1, <2>2, RateAssumption DEF Larger
  <1>10. buckets[c].expires = IF deadline <= MaxInstant THEN deadline ELSE Never
    BY <1>7 DEF Expiry
  <1> HIDE DEF deadline
  <1>11. deadline > stamp[o]
    BY <1>6, <1>8, <1>9, <1>10, RateAssumption DEF Never
  <1>12. QED
    BY <1>11 DEF deadline

(* A new client is turned away only when every cached bucket was judged    *)
(* within its own expiry delay.                                            *)
THEOREM FullIsHonest == Spec => FullOnlyWhenRecent
  <1>1. IInv /\ CacheBound /\ [Next]_vars =>
           [\A o \in Ops : call[o] = "asking" /\ call'[o] = "capacity" =>
              \A c \in Clients : buckets[c] # None =>
                \/ buckets[c].last + Larger(WholeSeconds(Burst - buckets[c].tokens), IdleTimeout)
                      > stamp[o]]_vars
    <2> SUFFICES ASSUME IInv, CacheBound, Next, NEW o \in Ops,
                        call[o] = "asking", call'[o] = "capacity",
                        NEW c \in Clients, buckets[c] # None
                 PROVE  buckets[c].last
                           + Larger(WholeSeconds(Burst - buckets[c].tokens), IdleTimeout)
                           > stamp[o]
      OBVIOUS
    <2>1. CapacityExceeded(o)
      BY OneAnswer
    <2>2. QED
      BY <2>1, CapacityStep
  <1>2. QED
    BY <1>1, Invariance, CacheSafe, PTL DEF Spec, FullOnlyWhenRecent

---------------------------------------------------------------------------
(* The quota.                                                              *)

(* A bucket is reclaimed only when it is full at every instant a request   *)
(* can still carry.                                                        *)
LEMMA ReclaimedFull ==
    ASSUME Patient, IInv, NEW o \in Ops, call[o] = "asking",
           NEW S \in Sweeps(stamp[o]), NEW c \in Clients, Kept(S)[c] # buckets[c]
    PROVE  /\ Kept(S)[c] = None /\ buckets[c] # None
           /\ buckets[c].tokens + (clock - MaxLag - buckets[c].last) >= Burst
           /\ buckets[c].tokens + (stamp[o] - buckets[c].last) >= Burst
  <1>1. /\ Kept(S)[c] = None /\ buckets[c] # None
        /\ buckets[c].expires # Never
        /\ buckets[c].expires <= stamp[o]
    BY KeptFacts DEF IInv
  <1>2. /\ buckets[c] \in BucketType /\ clock \in 0..MaxInstant
        /\ stamp[o] \in 0..MaxInstant /\ stamp[o] <= clock
    BY <1>1 DEF IInv, TypeOK, RequestShape
  <1> DEFINE n == buckets[c].tokens
             t == buckets[c].last
  <1>3. /\ n \in 0..Burst /\ t \in 0..MaxInstant
        /\ buckets[c].expires = Expiry(n, t)
    BY <1>1, <1>2 DEF BucketType, IInv, BucketsJudged, Cached
  <1> HIDE DEF n, t
  <1>4. /\ Expiry(n, t) \in 0..MaxInstant /\ Expiry(n, t) <= stamp[o]
        /\ Expiry(n, t) >= t + IdleTimeout /\ Expiry(n, t) >= t + (Burst - n)
    BY <1>1, <1>3, ExpiryFacts
  <1>5. n + (stamp[o] - t) >= Burst
    BY <1>2, <1>3, <1>4, RateAssumption
  <1>6. n + (clock - MaxLag - t) >= Burst
    BY <1>2, <1>3, <1>4, <1>5, RateAssumption DEF Patient
  <1>7. QED
    BY <1>1, <1>5, <1>6 DEF n, t

(* The credit a request is judged by is what its client has not spent.     *)
LEMMA JudgedQuota ==
    ASSUME Patient, IInv, QuotaKept, NEW o \in Ops, call[o] = "asking",
           NEW S \in Sweeps(stamp[o])
    PROVE  spent[client[o]] + Refilled(B(o, S), T(o, S)) <= Burst + T(o, S)
  <1> DEFINE c == client[o]
             b == B(o, S)
  <1>1. /\ c \in Clients /\ stamp[o] \in 0..clock /\ clock \in 0..MaxInstant
        /\ b \in BucketType /\ T(o, S) \in 0..clock /\ T(o, S) >= b.last
        /\ Kept(S)[c] # None => b = buckets[c]
        /\ Kept(S)[c] = None => b.tokens = Burst /\ b.last = stamp[o] /\ T(o, S) = stamp[o]
        /\ Refilled(b, T(o, S)) \in 0..Burst
        /\ Refilled(b, T(o, S)) <= b.tokens + (T(o, S) - b.last)
    <2>1. clock \in 0..MaxInstant
      BY DEF IInv, TypeOK
    <2>2. QED
      BY <2>1, JudgedFacts
  <1>2. /\ spent[c] \in Nat /\ b.tokens \in 0..Burst /\ b.last \in 0..MaxInstant
        /\ clock - stamp[o] <= MaxLag
        /\ buckets \in [Clients -> BucketType \cup {None}]
    BY <1>1 DEF IInv, TypeOK, BucketType, RequestShape
  <1>3. /\ buckets[c] = None => spent[c] = 0 \/ spent[c] + MaxLag <= clock
        /\ buckets[c] # None => spent[c] + buckets[c].tokens <= Burst + buckets[c].last
    BY <1>1 DEF QuotaKept
  <1>4. spent[c] + b.tokens <= Burst + b.last
    <2>1. CASE Kept(S)[c] # None
      <3>1. buckets[c] # None
        BY <1>1, <2>1, KeptFacts DEF IInv
      <3>2. QED
        BY <1>1, <1>3, <2>1, <3>1
    <2>2. CASE Kept(S)[c] = None
      <3>1. b.tokens = Burst /\ b.last = stamp[o]
        BY <1>1, <2>2
      <3>2. CASE buckets[c] = None
        <4> HIDE DEF b, c
        <4>1. QED
          BY <1>1, <1>2, <1>3, <3>1, <3>2, RateAssumption
      <3>3. CASE buckets[c] # None
        <4>1. buckets[c].tokens + (stamp[o] - buckets[c].last) >= Burst
          BY <1>1, <2>2, <3>3, ReclaimedFull
        <4>2. buckets[c].tokens \in 0..Burst /\ buckets[c].last \in 0..MaxInstant
          BY <1>1, <1>2, <3>3 DEF BucketType
        <4> HIDE DEF b, c
        <4>3. QED
          BY <1>1, <1>2, <1>3, <3>1, <3>3, <4>1, <4>2, RateAssumption
      <3>4. QED
        BY <3>2, <3>3
    <2>3. QED
      BY <2>1, <2>2
  <1> DEFINE r == Refilled(b, T(o, S))
             t == T(o, S)
             l == b.last
             k == b.tokens
  <1>5. r <= k + (t - l) /\ spent[c] + k <= Burst + l /\ r \in 0..Burst
        /\ t \in 0..clock /\ l \in 0..MaxInstant /\ k \in 0..Burst /\ spent[c] \in Nat
    BY <1>1, <1>2, <1>4
  <1> HIDE DEF r, t, l, k, c, b
  <1>6. spent[c] + r <= Burst + t
    BY <1>1, <1>5, RateAssumption
  <1>7. QED
    BY <1>6 DEF r, t, c, b

(* A client other than the one judged keeps its bucket, or has paid off    *)
(* its debt when it loses it.                                              *)
LEMMA OthersQuota ==
    ASSUME Patient, IInv, QuotaKept, NEW o \in Ops, call[o] = "asking",
           NEW S \in Sweeps(stamp[o]), NEW c \in Clients
    PROVE  IF Kept(S)[c] = None THEN spent[c] = 0 \/ spent[c] + MaxLag <= clock
           ELSE spent[c] + Kept(S)[c].tokens <= Burst + Kept(S)[c].last
  <1>1. CASE Kept(S)[c] = buckets[c]
    BY <1>1 DEF QuotaKept
  <1>2. CASE Kept(S)[c] # buckets[c]
    <2>1. /\ Kept(S)[c] = None /\ buckets[c] # None
          /\ buckets[c].tokens + (clock - MaxLag - buckets[c].last) >= Burst
      BY <1>2, ReclaimedFull
    <2>2. spent[c] + buckets[c].tokens <= Burst + buckets[c].last
      BY <2>1 DEF QuotaKept
    <2>3. /\ buckets[c].tokens \in 0..Burst /\ buckets[c].last \in 0..MaxInstant
          /\ clock \in 0..MaxInstant /\ spent[c] \in Nat
      BY <2>1 DEF IInv, TypeOK, BucketType
    <2>4. QED
      BY <2>1, <2>2, <2>3, RateAssumption
  <1>3. QED
    BY <1>1, <1>2

(* A saved bucket and what was granted with it stay within the quota.      *)
LEMMA SaveQuota ==
    ASSUME Patient, IInv, QuotaKept, NEW o \in Ops, call[o] = "asking",
           NEW S \in Sweeps(stamp[o]), NEW n \in 0..Burst, n < Burst,
           Save(S, client[o], T(o, S), n), NEW g \in Nat,
           n + g = Refilled(B(o, S), T(o, S)),
           spent' = [spent EXCEPT ![client[o]] = @ + g], clock' = clock
    PROVE  QuotaKept'
  <1>1. client[o] \in Clients /\ spent \in [Clients -> Nat] /\ T(o, S) \in Nat
    <2>1. clock \in 0..MaxInstant /\ spent \in [Clients -> Nat]
      BY DEF IInv, TypeOK
    <2>2. client[o] \in Clients /\ T(o, S) \in 0..clock
      BY JudgedFacts
    <2>3. QED
      BY <2>1, <2>2, RateAssumption
  <1>2. /\ buckets'[client[o]] # None
        /\ buckets'[client[o]].tokens = n /\ buckets'[client[o]].last = T(o, S)
        /\ buckets' = [Kept(S) EXCEPT ![client[o]] = buckets'[client[o]]]
    <2>1. buckets'[client[o]] = [tokens |-> n, last |-> T(o, S), expires |-> Expiry(n, T(o, S))]
      BY SaveFacts
    <2>2. QED
      BY <2>1, SaveFacts
  <1>3. ASSUME NEW c \in Clients
        PROVE  IF buckets'[c] = None THEN spent'[c] = 0 \/ spent'[c] + MaxLag <= clock
               ELSE spent'[c] + buckets'[c].tokens <= Burst + buckets'[c].last
    <2>1. CASE c = client[o]
      <3>1. spent'[c] = spent[c] + g
        BY <1>1, <2>1
      <3>2. spent[c] + (n + g) <= Burst + T(o, S)
        BY <2>1, JudgedQuota
      <3>3. spent'[c] + n <= Burst + T(o, S)
        BY <1>1, <3>1, <3>2, RateAssumption
      <3>4. QED
        BY <1>2, <2>1, <3>3
    <2>2. CASE c # client[o]
      <3>1. buckets'[c] = Kept(S)[c]
        BY <1>2, <2>2 DEF Kept
      <3>2. spent'[c] = spent[c]
        BY <1>1, <2>2
      <3>3. QED
        BY <3>1, <3>2, OthersQuota
    <2>3. QED
      BY <2>1, <2>2
  <1>4. QED
    BY <1>3 DEF QuotaKept

LEMMA NextQuota == Patient /\ IInv /\ QuotaKept /\ [Next]_vars => QuotaKept'
  <1> SUFFICES ASSUME Patient, IInv, QuotaKept, [Next]_vars PROVE QuotaKept'
    OBVIOUS
  <1>1. CASE Tick
    <2>1. ASSUME NEW c \in Clients, spent[c] + MaxLag <= clock
          PROVE  spent[c] + MaxLag <= clock + 1
      BY <2>1, RateAssumption DEF IInv, TypeOK
    <2>2. clock' = clock + 1 /\ buckets' = buckets /\ spent' = spent
      BY <1>1 DEF Tick, cache
    <2>3. QED
      BY <2>1, <2>2 DEF QuotaKept
  <1>2. CASE UNCHANGED <<buckets, clock, spent>>
    BY <1>2 DEF QuotaKept
  <1>3. ASSUME NEW o \in Ops, Granted(o) PROVE QuotaKept'
    <2>1. PICK S \in Sweeps(stamp[o]) :
             /\ Refilled(B(o, S), T(o, S)) >= Cost
             /\ Save(S, client[o], T(o, S), Refilled(B(o, S), T(o, S)) - Cost)
             /\ spent' = [spent EXCEPT ![client[o]] = @ + Cost]
      BY <1>3 DEF Granted, B, T
    <2>2. call[o] = "asking" /\ clock' = clock
      BY <1>3 DEF Granted, Answer
    <2> DEFINE r == Refilled(B(o, S), T(o, S))
               n == r - Cost
    <2>3. r \in 0..Burst
      BY <2>2, JudgedFacts
    <2>4. n \in 0..Burst /\ n < Burst /\ n + Cost = r
      BY <2>1, <2>3, RateAssumption
    <2>5. Save(S, client[o], T(o, S), n)
      BY <2>1
    <2> HIDE DEF n
    <2>6. QED
      BY <2>1, <2>2, <2>4, <2>5, SaveQuota, RateAssumption
  <1>4. ASSUME NEW o \in Ops, QuotaExceeded(o) PROVE QuotaKept'
    <2>1. PICK S \in Sweeps(stamp[o]) :
             /\ Refilled(B(o, S), T(o, S)) < Cost
             /\ Save(S, client[o], T(o, S), Refilled(B(o, S), T(o, S)))
      BY <1>4 DEF QuotaExceeded, B, T
    <2>2. call[o] = "asking" /\ clock' = clock /\ spent' = spent
      BY <1>4 DEF QuotaExceeded, Answer
    <2>3. client[o] \in Clients /\ Refilled(B(o, S), T(o, S)) \in 0..Burst
      BY <2>2, JudgedFacts
    <2>4. spent' = [spent EXCEPT ![client[o]] = @ + 0]
      <3>1. spent \in [Clients -> Nat]
        BY DEF IInv, TypeOK
      <3>2. QED
        BY <2>2, <2>3, <3>1
    <2> DEFINE n == Refilled(B(o, S), T(o, S))
    <2>5. n \in 0..Burst /\ n < Burst /\ n + 0 = Refilled(B(o, S), T(o, S))
      BY <2>1, <2>3, RateAssumption
    <2>6. Save(S, client[o], T(o, S), n)
      BY <2>1
    <2> HIDE DEF n
    <2>7. QED
      BY <2>2, <2>4, <2>5, <2>6, SaveQuota
  <1>5. ASSUME NEW o \in Ops, CapacityExceeded(o) PROVE QuotaKept'
    <2>1. PICK S \in Sweeps(stamp[o]) : buckets' = Kept(S)
      BY <1>5 DEF CapacityExceeded
    <2>2. call[o] = "asking" /\ clock' = clock /\ spent' = spent
      BY <1>5 DEF CapacityExceeded, Answer
    <2>3. QED
      BY <2>1, <2>2, OthersQuota DEF QuotaKept
  <1>6. QED
    BY <1>1, <1>2, <1>3, <1>4, <1>5 DEF Next, vars, cache, Arrive

LEMMA InitQuota == Init => QuotaKept
  BY RateAssumption DEF Init, QuotaKept

(* With a patient idle timeout, no client is granted more than its burst   *)
(* and what time refilled: forgetting idle buckets never resets a quota.   *)
THEOREM QuotaSafe == Patient => (Spec => []NoEarlyReset)
  <1> SUFFICES ASSUME Patient PROVE Spec => []NoEarlyReset
    OBVIOUS
  <1>1. IInv /\ QuotaKept => NoEarlyReset
    <2> SUFFICES ASSUME IInv, QuotaKept, NEW c \in Clients
                 PROVE  spent[c] <= Burst + clock
      BY DEF NoEarlyReset
    <2>1. clock \in Nat /\ spent[c] \in Nat
      BY RateAssumption DEF IInv, TypeOK
    <2>2. CASE buckets[c] = None
      BY <2>1, <2>2, RateAssumption DEF QuotaKept
    <2>3. CASE buckets[c] # None
      <3>1. /\ buckets[c].tokens \in 0..Burst /\ buckets[c].last \in 0..MaxInstant
            /\ buckets[c].last <= clock
        BY <2>3 DEF IInv, TypeOK, BucketType, BucketsJudged, Cached
      <3>2. spent[c] + buckets[c].tokens <= Burst + buckets[c].last
        BY <2>3 DEF QuotaKept
      <3>3. QED
        BY <2>1, <3>1, <3>2, RateAssumption
    <2>4. QED
      BY <2>2, <2>3
  <1>2. IInv /\ QuotaKept /\ [Next]_vars => QuotaKept'
    BY NextQuota
  <1>3. QED
    BY <1>1, <1>2, InitQuota, Invariance, PTL DEF Spec

---------------------------------------------------------------------------
(* The limiter implements ClientQuota.                                     *)

LEMMA InitQuotaSpec == Init => Quota!Init
  BY RateAssumption DEF Init, Quota!Init, Owed

LEMMA TickQuotaSpec == IInv /\ Tick => Quota!Tick
  <1> SUFFICES ASSUME IInv, Tick PROVE Quota!Tick
    OBVIOUS
  <1>1. clock < MaxInstant /\ clock' = clock + 1 /\ clock \in 0..MaxInstant /\ buckets' = buckets
    BY DEF IInv, TypeOK, Tick, cache
  <1>2. ASSUME NEW c \in Clients
        PROVE  Owed'[c] = Quota!Rest(Owed[c], clock + 1)
    <2>1. CASE buckets[c] = None
      BY <1>1, <2>1 DEF Owed, Quota!Rest
    <2>2. CASE buckets[c] # None
      <3> DEFINE n == buckets[c].tokens
                 t == buckets[c].last
                 q == [credit |-> n, since |-> t]
      <3>1. n \in 0..Burst /\ t \in 0..MaxInstant
        BY <2>2 DEF IInv, TypeOK, BucketType
      <3>2. q # None
        BY <3>1, RateAssumption DEF CreditType
      <3>3. Owed[c] = IF n + (clock - MaxLag - t) >= Burst THEN None ELSE q
        BY <2>2 DEF Owed
      <3>4. Owed'[c] = IF n + ((clock + 1) - MaxLag - t) >= Burst THEN None ELSE q
        <4>1. Owed'[c] = IF \/ buckets'[c] = None
                            \/ buckets'[c].tokens + (clock' - MaxLag - buckets'[c].last) >= Burst
                         THEN None
                         ELSE [credit |-> buckets'[c].tokens, since |-> buckets'[c].last]
          BY DEF Owed
        <4>2. buckets'[c] = buckets[c] /\ clock' = clock + 1
          BY <1>1
        <4>3. QED
          BY <2>2, <4>1, <4>2
      <3>5. q.credit = n /\ q.since = t
        OBVIOUS
      <3> HIDE DEF n, t, q
      <3>6. n + (clock - MaxLag - t) >= Burst => n + ((clock + 1) - MaxLag - t) >= Burst
        BY <1>1, <3>1, RateAssumption
      <3>7. CASE Owed[c] = None
        <4>1. Quota!Rest(Owed[c], clock + 1) = None
          BY <3>7 DEF Quota!Rest
        <4>2. QED
          BY <3>2, <3>3, <3>4, <3>6, <3>7, <4>1
      <3>8. CASE Owed[c] # None
        <4>1. Owed[c] = q
          BY <3>3, <3>8
        <4>2. Quota!Rest(q, clock + 1) = IF n + ((clock + 1) - MaxLag - t) >= Burst THEN None ELSE q
          BY <3>2, <3>5 DEF Quota!Rest
        <4>3. QED
          BY <3>4, <4>1, <4>2
      <3>9. QED
        BY <3>7, <3>8
    <2>3. QED
      BY <2>1, <2>2
  <1>3. Owed' = [c \in Clients |-> Quota!Rest(Owed[c], clock + 1)]
    BY <1>2 DEF Owed
  <1>4. QED
    BY <1>1, <1>3 DEF Quota!Tick

(* A client's bucket, or none, as ClientQuota sees it.                     *)
LEMMA OwedFacts ==
    ASSUME NEW c \in Clients
    PROVE  /\ buckets[c] = None => Owed[c] = None
           /\ buckets[c].tokens + (clock - MaxLag - buckets[c].last) >= Burst
                 => Owed[c] = None
           /\ /\ buckets[c] # None
              /\ ~(buckets[c].tokens + (clock - MaxLag - buckets[c].last) >= Burst)
              => Owed[c] = [credit |-> buckets[c].tokens, since |-> buckets[c].last]
  BY DEF Owed

(* A request is judged by what ClientQuota remembers of its client.        *)
LEMMA JudgedOwed ==
    ASSUME Patient, IInv, NEW o \in Ops, call[o] = "asking", NEW S \in Sweeps(stamp[o])
    PROVE  /\ stamp[o] \in Quota!Recent
           /\ Quota!JudgedAt(client[o], stamp[o]) = T(o, S)
           /\ Quota!Credit(client[o], stamp[o]) = Refilled(B(o, S), T(o, S))
  <1> DEFINE c == client[o]
             s == stamp[o]
  <1>1. /\ c \in Clients /\ s \in 0..clock /\ clock \in 0..MaxInstant /\ clock - s <= MaxLag
        /\ buckets \in [Clients -> BucketType \cup {None}]
    <2>1. /\ clock \in 0..MaxInstant
          /\ buckets \in [Clients -> BucketType \cup {None}]
      BY DEF IInv, TypeOK
    <2>2. clock - s <= MaxLag
      BY DEF IInv, RequestShape
    <2>3. QED
      BY <2>1, <2>2, JudgedFacts
  <1>2. s \in Quota!Recent
    BY <1>1 DEF Quota!Recent
  <1>3. CASE Kept(S)[c] = None
    <2>1. Owed[c] = None
      <3>1. CASE buckets[c] = None
        BY <1>1, <3>1, OwedFacts
      <3>2. CASE buckets[c] # None
        BY <1>1, <1>3, <3>2, ReclaimedFull, OwedFacts
      <3>3. QED
        BY <3>1, <3>2
    <2>2. B(o, S) = [tokens |-> Burst, last |-> s, expires |-> Never]
      BY <1>3 DEF B, Bucket
    <2>3. T(o, S) = s
      BY <1>3, JudgedFacts
    <2>4. Refilled(B(o, S), T(o, S)) = Burst
      <3>1. Burst + Larger(s - s, 0) = Burst
        BY <1>1, RateAssumption DEF Larger
      <3>2. QED
        BY <2>2, <2>3, <3>1, RateAssumption DEF Refilled, Smaller
    <2>5. QED
      BY <1>2, <2>1, <2>3, <2>4 DEF Quota!JudgedAt, Quota!Credit
  <1>4. CASE Kept(S)[c] # None
    <2> DEFINE n == buckets[c].tokens
               t == buckets[c].last
    <2>1. buckets[c] # None /\ B(o, S) = buckets[c]
      BY <1>1, <1>4, KeptFacts, JudgedFacts DEF IInv
    <2>2. /\ n \in 0..Burst /\ t \in 0..MaxInstant /\ n < Burst
      BY <1>1, <2>1 DEF BucketType, IInv, BucketsJudged, Cached
    <2>3. T(o, S) = Larger(s, t)
      BY <2>1 DEF T, JudgedAt
    <2>4. Refilled(B(o, S), T(o, S)) = Smaller(Burst, n + Larger(Larger(s, t) - t, 0))
      BY <2>1, <2>3 DEF Refilled
    <2>5. Larger(Larger(s, t) - t, 0) = Larger(s, t) - t
      <3> HIDE DEF s, t
      <3>1. QED
        BY <1>1, <2>2, RateAssumption DEF Larger
    <2>6. CASE n + (clock - MaxLag - t) >= Burst
      <3>1. Owed[c] = None
        BY <1>1, <2>6, OwedFacts
      <3>2. Larger(s, t) = s /\ Smaller(Burst, n + (Larger(s, t) - t)) = Burst
        <4> HIDE DEF s, t, n
        <4>1. QED
          BY <1>1, <2>2, <2>6, RateAssumption DEF Larger, Smaller
      <3>3. QED
        BY <1>2, <2>3, <2>4, <2>5, <3>1, <3>2 DEF Quota!JudgedAt, Quota!Credit
    <2>7. CASE ~(n + (clock - MaxLag - t) >= Burst)
      <3>1. Owed[c] = [credit |-> n, since |-> t]
        BY <1>1, <2>1, <2>7, OwedFacts
      <3>2. [credit |-> n, since |-> t] # None
        BY <2>2, RateAssumption DEF CreditType
      <3>3. Owed[c] # None /\ Owed[c].credit = n /\ Owed[c].since = t
        BY <3>1, <3>2
      <3>4. Quota!JudgedAt(c, s) = Larger(s, t)
        BY <3>3 DEF Quota!JudgedAt, Larger, Quota!Larger
      <3>5. Quota!Credit(c, s) = Smaller(Burst, n + (Larger(s, t) - t))
        BY <3>3, <3>4 DEF Quota!Credit, Smaller, Quota!Smaller
      <3>6. QED
        BY <1>2, <2>3, <2>4, <2>5, <3>4, <3>5
    <2>8. QED
      BY <2>6, <2>7
  <1>5. QED
    BY <1>3, <1>4

(* What is left of a client reclaimed or kept, as ClientQuota sees it.     *)
LEMMA OthersOwed ==
    ASSUME Patient, IInv, NEW o \in Ops, call[o] = "asking", NEW S \in Sweeps(stamp[o]),
           NEW c \in Clients, buckets'[c] = Kept(S)[c], clock' = clock
    PROVE  Owed'[c] = Owed[c]
  <1>1. Owed'[c] = IF \/ buckets'[c] = None
                      \/ buckets'[c].tokens + (clock' - MaxLag - buckets'[c].last) >= Burst
                   THEN None
                   ELSE [credit |-> buckets'[c].tokens, since |-> buckets'[c].last]
    BY DEF Owed
  <1>2. CASE Kept(S)[c] = buckets[c]
    BY <1>1, <1>2 DEF Owed
  <1>3. CASE Kept(S)[c] # buckets[c]
    <2>1. Kept(S)[c] = None /\ Owed[c] = None
      BY <1>3, ReclaimedFull, OwedFacts
    <2>2. QED
      BY <1>1, <2>1
  <1>4. QED
    BY <1>2, <1>3

LEMMA SaveOwed ==
    ASSUME Patient, IInv, NEW o \in Ops, call[o] = "asking", NEW S \in Sweeps(stamp[o]),
           NEW n \in 0..Burst, n < Burst, Save(S, client[o], T(o, S), n), clock' = clock
    PROVE  Quota!Judge(client[o], stamp[o], n)
  <1> DEFINE c == client[o]
             t == T(o, S)
             q == [credit |-> n, since |-> t]
  <1>1. /\ c \in Clients /\ stamp[o] \in 0..clock /\ clock \in 0..MaxInstant
        /\ clock - stamp[o] <= MaxLag
        /\ t \in 0..clock /\ t >= stamp[o]
    <2>1. clock \in 0..MaxInstant /\ clock - stamp[o] <= MaxLag
      BY DEF IInv, TypeOK, RequestShape
    <2>2. QED
      BY <2>1, JudgedFacts
  <1>2. /\ buckets' = [Kept(S) EXCEPT ![c] = buckets'[c]]
        /\ buckets'[c] # None /\ buckets'[c].tokens = n /\ buckets'[c].last = t
    <2>1. buckets'[c] = [tokens |-> n, last |-> t, expires |-> Expiry(n, t)]
      BY SaveFacts
    <2>2. QED
      BY <2>1, SaveFacts
  <1>3. Owed'[c] = q
    <2>1. Owed'[c] = IF \/ buckets'[c] = None
                        \/ buckets'[c].tokens + (clock' - MaxLag - buckets'[c].last) >= Burst
                     THEN None
                     ELSE [credit |-> buckets'[c].tokens, since |-> buckets'[c].last]
      BY <1>1 DEF Owed
    <2>2. ~(n + (clock - MaxLag - t) >= Burst)
      <3> HIDE DEF t, c
      <3>1. QED
        BY <1>1, RateAssumption
    <2>3. QED
      BY <1>2, <2>1, <2>2
  <1>4. ASSUME NEW d \in Clients, d # c PROVE Owed'[d] = Owed[d]
    <2>1. buckets'[d] = Kept(S)[d]
      BY <1>2, <1>4 DEF Kept
    <2>2. QED
      BY <2>1, OthersOwed
  <1>5. Owed' = [Owed EXCEPT ![c] = q]
    <2> HIDE DEF q, c
    <2>1. /\ DOMAIN Owed = Clients /\ DOMAIN Owed' = Clients
          /\ Owed = [d \in Clients |-> Owed[d]] /\ Owed' = [d \in Clients |-> Owed'[d]]
      BY DEF Owed
    <2>2. QED
      BY <1>1, <1>3, <1>4, <2>1
  <1>6. Quota!JudgedAt(client[o], stamp[o]) = T(o, S)
    BY JudgedOwed
  <1>7. QED
    BY <1>5, <1>6 DEF Quota!Judge

LEMMA NextQuotaSpec == Patient /\ IInv /\ [Next]_vars => [Quota!Next]_(Quota!vars)
  <1> SUFFICES ASSUME Patient, IInv, [Next]_vars PROVE Quota!Next \/ UNCHANGED <<clock, Owed>>
    BY DEF Quota!vars
  <1>1. CASE Tick
    BY <1>1, TickQuotaSpec DEF Quota!Next
  <1>2. CASE UNCHANGED <<clock, buckets>>
    BY <1>2 DEF Owed
  <1>3. ASSUME NEW o \in Ops, Granted(o) PROVE Quota!Next
    <2>1. PICK S \in Sweeps(stamp[o]) :
             /\ Refilled(B(o, S), T(o, S)) >= Cost
             /\ Save(S, client[o], T(o, S), Refilled(B(o, S), T(o, S)) - Cost)
      BY <1>3 DEF Granted, B, T
    <2>2. call[o] = "asking" /\ clock' = clock
      BY <1>3 DEF Granted, Answer
    <2> DEFINE r == Refilled(B(o, S), T(o, S))
               n == r - Cost
    <2>3. r \in 0..Burst /\ client[o] \in Clients
      BY <2>2, JudgedFacts
    <2>4. n \in 0..Burst /\ n < Burst
      BY <2>1, <2>3, RateAssumption
    <2>5. Save(S, client[o], T(o, S), n)
      BY <2>1
    <2>6. stamp[o] \in Quota!Recent /\ Quota!Credit(client[o], stamp[o]) = r
      BY <2>2, JudgedOwed
    <2>7. n = Quota!Credit(client[o], stamp[o]) - Cost
      BY <2>6
    <2> HIDE DEF n, r
    <2>8. Quota!Judge(client[o], stamp[o], n)
      BY <2>2, <2>4, <2>5, SaveOwed
    <2>9. Quota!Grant(client[o])
      BY <2>1, <2>6, <2>7, <2>8 DEF Quota!Grant, r
    <2>10. QED
      BY <2>3, <2>9 DEF Quota!Next
  <1>4. ASSUME NEW o \in Ops, QuotaExceeded(o) PROVE Quota!Next
    <2>1. PICK S \in Sweeps(stamp[o]) :
             /\ Refilled(B(o, S), T(o, S)) < Cost
             /\ Save(S, client[o], T(o, S), Refilled(B(o, S), T(o, S)))
      BY <1>4 DEF QuotaExceeded, B, T
    <2>2. call[o] = "asking" /\ clock' = clock
      BY <1>4 DEF QuotaExceeded, Answer
    <2> DEFINE n == Refilled(B(o, S), T(o, S))
    <2>3. n \in 0..Burst /\ client[o] \in Clients
      BY <2>2, JudgedFacts
    <2>4. n < Burst /\ n < Cost
      BY <2>1, <2>3, RateAssumption
    <2>5. Save(S, client[o], T(o, S), n)
      BY <2>1
    <2>6. stamp[o] \in Quota!Recent /\ Quota!Credit(client[o], stamp[o]) = n
      BY <2>2, JudgedOwed
    <2> HIDE DEF n
    <2>7. Quota!Judge(client[o], stamp[o], n)
      BY <2>2, <2>3, <2>4, <2>5, SaveOwed
    <2>8. Quota!Deny(client[o])
      BY <2>4, <2>6, <2>7 DEF Quota!Deny
    <2>9. QED
      BY <2>3, <2>8 DEF Quota!Next
  <1>5. ASSUME NEW o \in Ops, CapacityExceeded(o) PROVE UNCHANGED <<clock, Owed>>
    <2>1. PICK S \in Sweeps(stamp[o]) : buckets' = Kept(S)
      BY <1>5 DEF CapacityExceeded
    <2>2. call[o] = "asking" /\ clock' = clock
      BY <1>5 DEF CapacityExceeded, Answer
    <2>3. \A c \in Clients : Owed'[c] = Owed[c]
      BY <2>1, <2>2, OthersOwed
    <2>4. /\ Owed = [c \in Clients |-> Owed[c]] /\ Owed' = [c \in Clients |-> Owed'[c]]
      BY DEF Owed
    <2>5. QED
      BY <2>2, <2>3, <2>4
  <1>6. QED
    BY <1>1, <1>2, <1>3, <1>4, <1>5 DEF Next, vars, cache, Arrive

(* With a patient idle timeout the bounded, forgetful cache is             *)
(* indistinguishable from a quota kept for every client for ever.          *)
THEOREM LimiterImplementsQuota == Patient => (Spec => ImplementsClientQuota)
  <1> SUFFICES ASSUME Patient PROVE Spec => ImplementsClientQuota
    OBVIOUS
  <1>1. IInv /\ [Next]_vars => [Quota!Next]_(Quota!vars)
    BY NextQuotaSpec
  <1>2. QED
    BY <1>1, InitQuotaSpec, Invariance, PTL DEF Spec, ImplementsClientQuota, Quota!Spec
===========================================================================
