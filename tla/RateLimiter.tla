---------------------------- MODULE RateLimiter ----------------------------
(***************************************************************************)
(* The per-client token buckets of service/src/rate_limit.rs.              *)
(*                                                                         *)
(* A mutex protects a bounded cache of buckets and the ordered index of    *)
(* their expiry deadlines.  The middleware samples the clock before        *)
(* acquire() takes the mutex, so instants reach the cache out of order.    *)
(*                                                                         *)
(* Tokens are counted in instants of refill: one instant restores one      *)
(* unit, a request costs Cost of them (1 token / rps), and the arithmetic  *)
(* of the code's f64 tokens is exact.  Second is the number of instants in *)
(* a second, to which the code rounds its delays up.                       *)
(***************************************************************************)
EXTENDS Integers, FiniteSets

CONSTANTS Clients,      \* normalized client addresses
          Ops,          \* concurrent requests
          None,         \* no client, no bucket
          Cost,         \* one token
          Burst,        \* a full bucket, at least one token
          Second,       \* instants in a second
          IdleTimeout,  \* at least a second
          MaxClients,   \* at least 1
          SweepLimit,   \* buckets one request reclaims at most (64)
          MaxLag,       \* bound: how long a request may wait for the mutex
          MaxInstant    \* the last representable Instant

Never == MaxInstant + 1  \* expires_at is None: the deadline does not exist

BucketType == [tokens : 0..Burst, last : 0..MaxInstant, expires : 0..Never]
CreditType == [credit : 0..Burst, since : 0..MaxInstant]

ASSUME RateAssumption ==
    /\ IsFiniteSet(Clients)
    /\ None \notin Clients /\ None \notin BucketType /\ None \notin CreditType
    /\ Cost \in Nat \ {0}
    /\ Burst \in Nat /\ Burst >= Cost
    /\ Second \in Nat \ {0}
    /\ IdleTimeout \in Nat /\ IdleTimeout >= Second
    /\ MaxClients \in Nat \ {0}
    /\ SweepLimit \in Nat \ {0}
    /\ MaxLag \in Nat
    /\ MaxInstant \in Nat

VARIABLES clock,       \* Instant::now()
          buckets,     \* buckets[c]: the cached bucket of c, or None
          expirations, \* the ordered index: pairs <<deadline, client>>
          call,        \* where each request is, or how it was answered
          client,      \* whose request it is
          stamp,       \* the instant it sampled
          retryAt,     \* history: the instant a denied client was told to
                       \* come back at, while it holds no newer answer
          spent        \* history: the units granted to each client

cache == <<buckets, expirations>>
vars  == <<clock, buckets, expirations, call, client, stamp, retryAt, spent>>

Answers == {"granted", "quota", "capacity"}

Smaller(a, b) == IF a <= b THEN a ELSE b
Larger(a, b)  == IF a >= b THEN a ELSE b

(* f64::ceil of a delay in seconds, in instants.                           *)
WholeSeconds(d) == ((d + Second - 1) \div Second) * Second

TypeOK ==
    /\ clock \in 0..MaxInstant
    /\ buckets \in [Clients -> BucketType \cup {None}]
    /\ expirations \subseteq (0..MaxInstant) \X Clients
    /\ call \in [Ops -> {"idle", "asking"} \cup Answers]
    /\ client \in [Ops -> Clients \cup {None}]
    /\ stamp \in [Ops -> 0..MaxInstant]
    /\ retryAt \in [Clients -> Nat]
    /\ spent \in [Clients -> Nat]

Init ==
    /\ clock = 0
    /\ buckets = [c \in Clients |-> None]
    /\ expirations = {}
    /\ call = [o \in Ops |-> "idle"]
    /\ client = [o \in Ops |-> None]
    /\ stamp = [o \in Ops |-> 0]
    /\ retryAt = [c \in Clients |-> 0]
    /\ spent = [c \in Clients |-> 0]

(* Time passes, but no request waits for the mutex longer than MaxLag.     *)
Tick == /\ clock < MaxInstant
        /\ \A o \in Ops : call[o] = "asking" => clock - stamp[o] < MaxLag
        /\ clock' = clock + 1
        /\ UNCHANGED <<cache, call, client, stamp, retryAt, spent>>

(* rate_limit_middleware: an identified client, and the clock's reading.   *)
Arrive(o, c) ==
    /\ call[o] # "asking"
    /\ call' = [call EXCEPT ![o] = "asking"]
    /\ client' = [client EXCEPT ![o] = c]
    /\ stamp' = [stamp EXCEPT ![o] = clock]
    /\ UNCHANGED <<clock, cache, retryAt, spent>>

---------------------------------------------------------------------------
(* acquire(), all under the mutex.  A definition marked "Faulty" is a      *)
(* plausible slip in the one that follows, kept to show that the           *)
(* properties below would reveal it.                                       *)

Due(now) == {e \in expirations : e[1] <= now}

(* The sweep pops the earliest due deadlines, SweepLimit of them at most.  *)
Sweeps(now) ==
    {S \in SUBSET Due(now) :
        /\ IF Cardinality(Due(now)) <= SweepLimit
           THEN S = Due(now)
           ELSE Cardinality(S) = SweepLimit
        /\ \A e \in S, f \in Due(now) \ S : e[1] <= f[1]}

Kept(S) == [c \in Clients |-> IF \E e \in S : e[2] = c THEN None ELSE buckets[c]]

Cached(f) == {c \in Clients : f[c] # None}

Room(f, c) == f[c] # None \/ Cardinality(Cached(f)) < MaxClients

Bucket(f, c, now) == IF f[c] = None
                     THEN [tokens |-> Burst, last |-> now, expires |-> Never]
                     ELSE f[c]

(* Faulty: lets an older instant turn the bucket's clock back.             *)
JudgedAtStamp(b, now) == now

(* Instants can come in a different order than the lock.                   *)
JudgedAt(b, now) == Larger(now, b.last)

Refilled(b, t) == Smaller(Burst, b.tokens + Larger(t - b.last, 0))

Expiry(tokens, t) ==
    LET deadline == t + Larger(WholeSeconds(Burst - tokens), IdleTimeout)
    IN  IF deadline <= MaxInstant THEN deadline ELSE Never

(* Faulty: truncates the delay of Retry-After.                             *)
WaitTruncated(tokens) == Larger(Second, ((Cost - tokens) \div Second) * Second)

Wait(tokens) == Larger(Second, WholeSeconds(Cost - tokens))

(* Faulty: leaves the bucket's previous deadline in the index.             *)
SaveBesideOld(S, c, t, tokens) ==
    /\ buckets' = [Kept(S) EXCEPT ![c] =
                      [tokens |-> tokens, last |-> t, expires |-> Expiry(tokens, t)]]
    /\ expirations' = (expirations \ S) \cup
                      {e \in {<<Expiry(tokens, t), c>>} : e[1] # Never}

(* Stores the judged bucket and moves its deadline.                        *)
Save(S, c, t, tokens) ==
    /\ buckets' = [Kept(S) EXCEPT ![c] =
                      [tokens |-> tokens, last |-> t, expires |-> Expiry(tokens, t)]]
    /\ expirations' =
          {e \in expirations \ S : Kept(S)[c] = None \/ e # <<Kept(S)[c].expires, c>>}
             \cup {e \in {<<Expiry(tokens, t), c>>} : e[1] # Never}

Answer(o, a) == /\ call' = [call EXCEPT ![o] = a]
                /\ client' = [client EXCEPT ![o] = None]
                /\ stamp' = [stamp EXCEPT ![o] = 0]
                /\ UNCHANGED clock

Granted(o) ==
    /\ call[o] = "asking"
    /\ \E S \in Sweeps(stamp[o]) :
          LET c == client[o]
              b == Bucket(Kept(S), c, stamp[o])
              t == JudgedAt(b, stamp[o])
          IN  /\ Room(Kept(S), c)
              /\ Refilled(b, t) >= Cost
              /\ Save(S, c, t, Refilled(b, t) - Cost)
              /\ retryAt' = [retryAt EXCEPT ![c] = 0]
              /\ spent' = [spent EXCEPT ![c] = @ + Cost]
    /\ Answer(o, "granted")

QuotaExceeded(o) ==
    /\ call[o] = "asking"
    /\ \E S \in Sweeps(stamp[o]) :
          LET c == client[o]
              b == Bucket(Kept(S), c, stamp[o])
              t == JudgedAt(b, stamp[o])
          IN  /\ Room(Kept(S), c)
              /\ Refilled(b, t) < Cost
              /\ Save(S, c, t, Refilled(b, t))
              /\ retryAt' = [retryAt EXCEPT ![c] = t + Wait(Refilled(b, t))]
    /\ UNCHANGED spent
    /\ Answer(o, "quota")

(* Faulty: counts the cache before the sweep.                              *)
CapacityBeforeSweep(o) ==
    /\ call[o] = "asking"
    /\ ~Room(buckets, client[o])
    /\ UNCHANGED <<cache, retryAt, spent>>
    /\ Answer(o, "capacity")

CapacityExceeded(o) ==
    /\ call[o] = "asking"
    /\ \E S \in Sweeps(stamp[o]) :
          /\ ~Room(Kept(S), client[o])
          /\ buckets' = Kept(S)
          /\ expirations' = expirations \ S
    /\ UNCHANGED <<retryAt, spent>>
    /\ Answer(o, "capacity")

Next == \/ Tick
        \/ \E o \in Ops : \/ \E c \in Clients : Arrive(o, c)
                          \/ Granted(o) \/ QuotaExceeded(o) \/ CapacityExceeded(o)

Spec == Init /\ [][Next]_vars

---------------------------------------------------------------------------
(* Properties.                                                             *)

IndexOf(f) == {<<f[c].expires, c>> :
                  c \in {d \in Clients : f[d] # None /\ f[d].expires # Never}}

(* The index holds exactly the deadlines of the cached buckets: no bucket  *)
(* is reclaimed on an outdated deadline, none that has one is forgotten.   *)
IndexExact == expirations = IndexOf(buckets)

(* The cache never outgrows MaxClients.                                    *)
CacheBound == Cardinality(Cached(buckets)) <= MaxClients

(* Both of the above: index and cache stay in step and bounded.            *)
CacheSound == IndexExact /\ CacheBound

(* "At capacity" is said only when every cached client has been judged     *)
(* within its own expiry delay of the caller's instant: what one sweep     *)
(* reclaims always makes room.                                             *)
FullOnlyWhenRecent ==
    [][\A o \in Ops : call[o] = "asking" /\ call'[o] = "capacity" =>
          \A c \in Clients : buckets[c] # None =>
              \/ buckets[c].last + Larger(WholeSeconds(Burst - buckets[c].tokens), IdleTimeout)
                    > stamp[o]]_vars

(* A client that waits as long as Retry-After told it, and had nothing     *)
(* granted since, is not refused for its quota again, whether its bucket   *)
(* was kept, expired or recreated with an older instant in the meantime.   *)
RetryAfterHonest ==
    [][\A o \in Ops : call[o] = "asking" /\ call'[o] = "quota" =>
          stamp[o] < retryAt[client[o]] \/ retryAt[client[o]] = 0]_vars

(* No client is ever granted more than its burst and what time refilled:   *)
(* forgetting an idle bucket does not reset its quota early.               *)
NoEarlyReset == \A c \in Clients : spent[c] <= Burst + clock

(* What ClientQuota would remember: nothing of a client whose bucket is    *)
(* gone, or full at every instant a request can still carry.               *)
Owed == [c \in Clients |->
    IF \/ buckets[c] = None
       \/ buckets[c].tokens + (clock - MaxLag - buckets[c].last) >= Burst
    THEN None
    ELSE [credit |-> buckets[c].tokens, since |-> buckets[c].last]]

Quota == INSTANCE ClientQuota WITH Rested <- None, quota <- Owed

(* The bucket a client's request is judged by is created anew only when    *)
(* the one it had, kept by ClientQuota, would have been full.  Forgetting  *)
(* and recreating buckets, refilling lazily and judging out of order are   *)
(* invisible: the limiter implements ClientQuota.                          *)
ImplementsClientQuota == Quota!Spec

---------------------------------------------------------------------------
(* The inductive invariant behind the properties above.                    *)

(* Who is asking, since when, and how long at most.                        *)
RequestShape ==
    \A o \in Ops :
        call[o] = "asking" => /\ client[o] # None
                              /\ stamp[o] <= clock /\ clock - stamp[o] <= MaxLag

(* A bucket was judged at an instant that is past, was left less than      *)
(* full, and expires as Expiry says.                                       *)
BucketsJudged ==
    \A c \in Cached(buckets) :
        /\ buckets[c].last <= clock
        /\ buckets[c].tokens < Burst
        /\ buckets[c].expires = Expiry(buckets[c].tokens, buckets[c].last)

(* A client that was told when to come back will have a token then.        *)
RetryKept ==
    \A c \in Cached(buckets) : retryAt[c] # 0 =>
        buckets[c].tokens + (retryAt[c] - buckets[c].last) >= Cost

IInv == TypeOK /\ RequestShape /\ BucketsJudged /\ RetryKept /\ IndexExact

(* An idle timeout long enough for a full refill before the oldest instant *)
(* still on its way to the mutex, or no waiting for it.                    *)
Patient == MaxLag = 0 \/ IdleTimeout >= Burst + MaxLag

(* What is left of the quota: a cached bucket and what was granted never   *)
(* exceed the burst and the time; a forgotten client's debt is paid off.   *)
QuotaKept ==
    \A c \in Clients :
        IF buckets[c] = None THEN spent[c] = 0 \/ spent[c] + MaxLag <= clock
        ELSE spent[c] + buckets[c].tokens <= Burst + buckets[c].last
===========================================================================
