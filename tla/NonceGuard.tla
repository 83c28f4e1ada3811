---------------------------- MODULE NonceGuard ----------------------------
(***************************************************************************)
(* The process-local replay guard of kite-x402-axum/src/nonce_guard.rs.    *)
(*                                                                         *)
(* A store behind one mutex holds the protected authorization keys and an  *)
(* index of the deadlines of the retained ones.  A caller samples the      *)
(* clock BEFORE it takes the mutex, so an admission may run with a stale   *)
(* instant; each section that holds the mutex is one action.  A handle is  *)
(* only as good as the generation it was admitted with: clear() drops the  *)
(* protection under live handles, whose later Drop must then do nothing.   *)
(***************************************************************************)
EXTENDS Naturals, FiniteSets

CONSTANTS Keys,         \* authorization keys
          Ops,          \* concurrent callers, each with at most one handle
          Generations,  \* addresses an Arc<()> may have
          None,         \* no key, no generation
          Capacity,     \* max_capacity, at least 1 after new()
          Ttl,          \* retention, at least 1 after new()
          SweepLimit,   \* entries one admission reclaims at most (64)
          MaxInstant    \* the last representable Instant

ASSUME GuardAssumption ==
    /\ IsFiniteSet(Keys)
    /\ None \notin Keys /\ None \notin Generations
    /\ Capacity \in Nat \ {0}
    /\ Ttl \in Nat \ {0}
    /\ SweepLimit \in Nat \ {0}
    /\ MaxInstant \in Nat

VARIABLES clock,       \* Instant::now()
          entries,     \* entries[k]: the generation protecting k, or None
          expirations, \* the ordered index: pairs <<deadline, key>>
          call,        \* where each caller is
          key,         \* the key of the caller's call or handle
          stamp,       \* the instant a caller sampled before locking
          generation,  \* the generation of the caller's handle
          retain,      \* the handle's retain flag
          orphaned,    \* history: callers whose handle predates a clear()
          until        \* history: the instant each key was promised up to

store  == <<entries, expirations>>
caller == <<call, key, stamp, generation, retain>>
vars   == <<clock, entries, expirations, call, key, stamp, generation, retain,
            orphaned, until>>

Resting == {"idle", "replayed", "full"}  \* no handle, no call in progress
Asking  == {"reserve", "record"}         \* before the mutex
Holding == {"held", "recording"}         \* a handle exists

(* Arcs still referenced, by the store or by a handle: not reusable.       *)
LiveGenerations == {entries[k] : k \in Keys} \cup {generation[o] : o \in Ops}

(* The keys of the table, and the expirations due at an instant.  A         *)
(* definition marked "Faulty" is a plausible slip in the one that follows, *)
(* kept to show that the properties below would reveal it.                 *)
Protected == {k \in Keys : entries[k] # None}

(* Faulty: one instant too eager.                                          *)
DueEarly(now) == {e \in expirations : e[1] <= now + 1}

Due(now) == {e \in expirations : e[1] <= now}

(* expire(now): pops the earliest due pairs, SweepLimit of them at most.   *)
(* Which of two equal deadlines goes first is the order of the key         *)
(* strings, which nothing here depends on.                                 *)
Sweeps(now) ==
    {S \in SUBSET Due(now) :
        /\ IF Cardinality(Due(now)) <= SweepLimit
           THEN S = Due(now)
           ELSE Cardinality(S) = SweepLimit
        /\ \A e \in S, f \in Due(now) \ S : e[1] <= f[1]}

AfterSweep(S) == [k \in Keys |-> IF \E e \in S : e[2] = k THEN None ELSE entries[k]]

(* The instant checked_add yields; past MaxInstant it yields nothing and   *)
(* the key is never due.                                                   *)
Deadline(t) == IF t + Ttl <= MaxInstant THEN t + Ttl ELSE MaxInstant + 1

TypeOK ==
    /\ clock \in 0..MaxInstant
    /\ entries \in [Keys -> Generations \cup {None}]
    /\ expirations \subseteq (0..MaxInstant) \X Keys
    /\ call \in [Ops -> Resting \cup Asking \cup Holding]
    /\ key \in [Ops -> Keys \cup {None}]
    /\ stamp \in [Ops -> 0..MaxInstant]
    /\ generation \in [Ops -> Generations \cup {None}]
    /\ retain \in [Ops -> BOOLEAN]
    /\ orphaned \subseteq Ops
    /\ until \in [Keys -> 0..(MaxInstant + 1)]

Init ==
    /\ clock = 0
    /\ entries = [k \in Keys |-> None]
    /\ expirations = {}
    /\ call = [o \in Ops |-> "idle"]
    /\ key = [o \in Ops |-> None]
    /\ stamp = [o \in Ops |-> 0]
    /\ generation = [o \in Ops |-> None]
    /\ retain = [o \in Ops |-> FALSE]
    /\ orphaned = {}
    /\ until = [k \in Keys |-> 0]

Tick == /\ clock < MaxInstant
        /\ clock' = clock + 1
        /\ UNCHANGED <<store, caller, orphaned, until>>

---------------------------------------------------------------------------
(* Calls.  The instant is sampled here; the mutex is taken later.          *)

CallGuard(o, k, api) ==
    /\ call[o] \in Resting
    /\ call' = [call EXCEPT ![o] = api]
    /\ key' = [key EXCEPT ![o] = k]
    /\ stamp' = [stamp EXCEPT ![o] = clock]
    /\ UNCHANGED <<clock, store, generation, retain, orphaned, until>>

CallReserve(o, k)        == CallGuard(o, k, "reserve")
CallCheckAndRecord(o, k) == CallGuard(o, k, "record")

---------------------------------------------------------------------------
(* reserve_key under the mutex: sweep first, then one of three answers.    *)

Answer(o, c) == /\ call' = [call EXCEPT ![o] = c]
                /\ stamp' = [stamp EXCEPT ![o] = 0]

Reject(o, answer) == /\ Answer(o, answer)
                     /\ key' = [key EXCEPT ![o] = None]
                     /\ UNCHANGED <<clock, generation, retain, orphaned, until>>

ReplayDetected(o) ==
    /\ call[o] \in Asking
    /\ \E S \in Sweeps(stamp[o]) :
         /\ AfterSweep(S)[key[o]] # None
         /\ entries' = AfterSweep(S)
         /\ expirations' = expirations \ S
    /\ Reject(o, "replayed")

(* Faulty: counts the table before the sweep.                              *)
FullBeforeSweep(o) ==
    /\ call[o] \in Asking
    /\ entries[key[o]] = None
    /\ Cardinality(Protected) >= Capacity
    /\ UNCHANGED store
    /\ Reject(o, "full")

CapacityExceeded(o) ==
    /\ call[o] \in Asking
    /\ \E S \in Sweeps(stamp[o]) :
         /\ AfterSweep(S)[key[o]] = None
         /\ Cardinality({k \in Keys : AfterSweep(S)[k] # None}) >= Capacity
         /\ entries' = AfterSweep(S)
         /\ expirations' = expirations \ S
    /\ Reject(o, "full")

(* What a successful admission does once its sweep and checks are done.    *)
Insert(o, S, g) ==
    /\ entries' = [AfterSweep(S) EXCEPT ![key[o]] = g]
    /\ expirations' = expirations \ S
    /\ generation' = [generation EXCEPT ![o] = g]
    /\ Answer(o, IF call[o] = "reserve" THEN "held" ELSE "recording")
    /\ UNCHANGED <<clock, key, retain, orphaned, until>>

(* Faulty: overwrites an entry instead of detecting the replay.            *)
AdmitOverwriting(o) ==
    /\ call[o] \in Asking
    /\ \E S \in Sweeps(stamp[o]), g \in Generations \ LiveGenerations :
         /\ Cardinality({k \in Keys : AfterSweep(S)[k] # None}) < Capacity
         /\ Insert(o, S, g)

Admit(o) ==
    /\ call[o] \in Asking
    /\ \E S \in Sweeps(stamp[o]), g \in Generations \ LiveGenerations :
         /\ AfterSweep(S)[key[o]] = None
         /\ Cardinality({k \in Keys : AfterSweep(S)[k] # None}) < Capacity
         /\ Insert(o, S, g)

---------------------------------------------------------------------------
(* The handle.  Drop takes the mutex and reads the clock under it; it acts *)
(* only while the table still carries the handle's own generation.         *)

Current(o) == entries[key[o]] = generation[o]

(* Faulty: removes whatever reservation now has the key.                   *)
ForgetUnchecked(o) == /\ entries' = [entries EXCEPT ![key[o]] = None]
                      /\ UNCHANGED expirations

Forget(o) ==
    /\ Current(o)
    /\ entries' = [entries EXCEPT ![key[o]] = None]
    /\ UNCHANGED expirations

(* Faulty: gives a deadline to whatever reservation now has the key.       *)
KeepUnchecked(o) ==
    /\ expirations' = expirations \cup
          {e \in {<<clock + Ttl, key[o]>>} : e[1] <= MaxInstant}
    /\ UNCHANGED entries

Keep(o) ==
    /\ Current(o)
    /\ expirations' = expirations \cup
          {e \in {<<clock + Ttl, key[o]>>} : e[1] <= MaxInstant}
    /\ UNCHANGED entries

Superseded(o) == ~Current(o) /\ UNCHANGED store

EndHandle(o) ==
    /\ call' = [call EXCEPT ![o] = "idle"]
    /\ key' = [key EXCEPT ![o] = None]
    /\ generation' = [generation EXCEPT ![o] = None]
    /\ retain' = [retain EXCEPT ![o] = FALSE]
    /\ orphaned' = orphaned \ {o}
    /\ UNCHANGED <<clock, stamp>>

DropReleased(o) ==
    /\ Forget(o) \/ Superseded(o)
    /\ UNCHANGED until
    /\ EndHandle(o)

DropRetained(o) ==
    /\ Keep(o) \/ Superseded(o)
    /\ until' = IF o \in orphaned THEN until
                ELSE [until EXCEPT ![key[o]] = Deadline(clock)]
    /\ EndHandle(o)

RetainOnDrop(o) ==
    /\ call[o] = "held"
    /\ retain' = [retain EXCEPT ![o] = TRUE]
    /\ UNCHANGED <<clock, store, call, key, stamp, generation, orphaned, until>>

Release(o) == call[o] = "held" /\ DropReleased(o)

Drop(o) ==
    /\ call[o] = "held"
    /\ IF retain[o] THEN DropRetained(o) ELSE DropReleased(o)

(* The second half of check_and_record: retain_on_drop and the Drop at the *)
(* end of the function.  Between its two mutex sections others may run.    *)
Record(o) == call[o] = "recording" /\ DropRetained(o)

(* Faulty: leaves the deadlines behind.                                    *)
ClearEntriesOnly ==
    /\ entries' = [k \in Keys |-> None]
    /\ orphaned' = {o \in Ops : call[o] \in Holding}
    /\ until' = [k \in Keys |-> 0]
    /\ UNCHANGED <<clock, expirations, caller>>

Clear ==
    /\ entries' = [k \in Keys |-> None]
    /\ expirations' = {}
    /\ orphaned' = {o \in Ops : call[o] \in Holding}
    /\ until' = [k \in Keys |-> 0]
    /\ UNCHANGED <<clock, caller>>

CallerStep(o) ==
    \/ \E k \in Keys : CallReserve(o, k) \/ CallCheckAndRecord(o, k)
    \/ Admit(o) \/ ReplayDetected(o) \/ CapacityExceeded(o)
    \/ RetainOnDrop(o) \/ Release(o) \/ Drop(o) \/ Record(o)

Next == Tick \/ Clear \/ \E o \in Ops : CallerStep(o)

Spec == Init /\ [][Next]_vars

---------------------------------------------------------------------------
(* Properties.                                                             *)

Owned(k) == \E o \in Ops : /\ call[o] \in Holding
                           /\ o \notin orphaned
                           /\ key[o] = k

(* A reservation that is still pending is never expired, evicted or taken  *)
(* over: its key carries its own generation and has no deadline, however   *)
(* many admissions, sweeps, drops and clears of other handles ran since.   *)
PendingProtected ==
    \A o \in Ops : call[o] \in Holding /\ o \notin orphaned =>
        /\ Current(o)
        /\ \A e \in expirations : e[2] # key[o]

(* The table and the deadline index agree: an indexed key is in the table  *)
(* and has one deadline, so popping it never forgets a live authorization. *)
IndexConsistent ==
    \A e, f \in expirations :
        /\ entries[e[2]] # None
        /\ e[2] = f[2] => e = f

(* Admission fails at capacity: the table never outgrows max_capacity.     *)
CapacityBound == Cardinality(Protected) <= Capacity

(* Both of the above: table and index stay in step and bounded.            *)
TableSound == IndexConsistent /\ CapacityBound

(* A key the guard promised to retain leaves the table only once its TTL   *)
(* has run out, even when sweeps run with stale instants.                  *)
RetentionHeld == \A k \in Keys : clock < until[k] => entries[k] # None

(* A caller is told the guard is full only when every key of the table is  *)
(* pending or unexpired at the instant the caller sampled: a sweep that    *)
(* reclaims anything always leaves room.                                   *)
FullOnlyWhenProtected ==
    [][\A o \in Ops : call[o] \in Asking /\ call'[o] = "full" =>
          \A k \in Protected : Owned(k) \/ until[k] > stamp[o]]_vars

(* A caller is told "replay" only for a key that is pending or unexpired   *)
(* at its sampled instant, or while more keys than one sweep reclaims are  *)
(* overdue: an expired key is otherwise admitted again at once.            *)
ReplayOnlyForCause ==
    [][\A o \in Ops : call[o] \in Asking /\ call'[o] = "replayed" =>
          \/ Owned(key[o])
          \/ until[key[o]] > stamp[o]
          \/ Cardinality(Due(stamp[o])) > SweepLimit]_vars

(* Both of the above: the guard never turns a caller away without a cause. *)
RefusedForCause == FullOnlyWhenProtected /\ ReplayOnlyForCause

(* A handle that predates clear() cannot touch a replacement reservation:  *)
(* whatever ends it leaves the table and the index as they were.           *)
OrphanHarmless ==
    [][\A o \in orphaned : call'[o] = "idle" => UNCHANGED store]_vars

(* Operations see the abstract promise: NonceGuard implements              *)
(* ReplayProtection, the mutex sections of expire() being its stutters.    *)
HeldKeys == [o \in Ops |-> IF call[o] \in Holding /\ o \notin orphaned
                           THEN key[o] ELSE None]

Promise == INSTANCE ReplayProtection WITH holding <- HeldKeys

ImplementsReplayProtection == Promise!Spec
---------------------------------------------------------------------------
(* The inductive invariant behind the properties above.                    *)

(* Where a caller is decides what it carries.                              *)
CallerShape ==
    /\ \A o \in Ops : /\ key[o] # None <=> call[o] \in Asking \cup Holding
                      /\ generation[o] # None <=> call[o] \in Holding
                      /\ stamp[o] <= clock
                      /\ retain[o] => call[o] = "held"
    /\ \A o \in orphaned : call[o] \in Holding

(* A generation belongs to one handle, and the key it protects is that     *)
(* handle's; no key carries the generation of an orphaned handle.          *)
GenerationsUnique ==
    /\ \A o, p \in Ops : call[o] \in Holding /\ generation[o] = generation[p] => o = p
    /\ \A o \in Ops, k \in Keys :
          call[o] \in Holding /\ entries[k] = generation[o] =>
              k = key[o] /\ o \notin orphaned

(* The promise and the index agree: an indexed deadline is the promised    *)
(* instant, a key without an owner and without a deadline is kept forever, *)
(* and a pending key has no promise outstanding.                           *)
PromiseIndexed ==
    /\ \A e \in expirations : e[1] = until[e[2]]
    /\ \A k \in Protected : \/ Owned(k)
                            \/ <<until[k], k>> \in expirations
                            \/ until[k] = MaxInstant + 1
    /\ \A o \in Ops : call[o] \in Holding /\ o \notin orphaned => until[key[o]] <= clock

IInv == /\ TypeOK
        /\ CallerShape
        /\ GenerationsUnique
        /\ PendingProtected
        /\ IndexConsistent
        /\ RetentionHeld
        /\ PromiseIndexed
===========================================================================
