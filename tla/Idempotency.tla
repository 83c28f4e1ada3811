---------------------------- MODULE Idempotency ----------------------------
(***************************************************************************)
(* The in-memory idempotency cache of kite-x402-axum/src/idempotency.rs.   *)
(*                                                                         *)
(* Callers acquire a key, execute, and complete or release it; every       *)
(* method is one section of the mutex, with its instant sampled inside.    *)
(* An entry names no owner: a lease that has timed out is given to the     *)
(* next caller, and the first may still be executing and complete or       *)
(* release the key afterwards.  Time is kept as the age of each entry,     *)
(* counted up to Horizon, beyond which no comparison changes.              *)
(***************************************************************************)
EXTENDS Naturals, FiniteSets

CONSTANTS Keys,               \* idempotency keys
          Callers,            \* requests, each executing for one key at a time
          Responses,          \* responses a caller may store
          None,               \* no key, no response
          Ttl,                \* ttl, in ticks
          InProgressTimeout,  \* in_progress_timeout, in ticks
          MaxEntries,         \* max_entries
          Horizon             \* bound: the age at which counting stops

ASSUME IdempotencyAssumption ==
    /\ IsFiniteSet(Keys)
    /\ None \notin Keys /\ None \notin Responses
    /\ Ttl \in Nat /\ InProgressTimeout \in Nat /\ MaxEntries \in Nat
    /\ Horizon \in Nat /\ Ttl <= Horizon /\ InProgressTimeout <= Horizon

VARIABLES entries,  \* the table: kind of entry, age, stored response
          work,     \* the key each caller executes for
          got,      \* the response each caller was answered with at last
          held,     \* history: the age of each caller's lease
          last,     \* history: the age and response of each key's last completion
          overran   \* history: keys for which a lease outlived the timeout

history == <<held, last, overran>>
vars    == <<entries, work, got, held, last, overran>>

Absent     == [kind |-> "absent", age |-> 0, response |-> None]
InProgress == [kind |-> "in_progress", age |-> 0, response |-> None]
Completed(v) == [kind |-> "completed", age |-> 0, response |-> v]

Tracked == {k \in Keys : entries[k].kind # "absent"}

Fresh(e) == \/ e.kind = "in_progress" /\ e.age < InProgressTimeout
            \/ e.kind = "completed" /\ e.age < Ttl

Init ==
    /\ entries = [k \in Keys |-> Absent]
    /\ work = [c \in Callers |-> None]
    /\ got = [c \in Callers |-> None]
    /\ held = [c \in Callers |-> 0]
    /\ last = [k \in Keys |-> [age |-> Horizon, response |-> None]]
    /\ overran = {}

(* The keys for which a lease has outlived the timeout by now.             *)
NoteOverruns ==
    overran' = overran \cup {k \in Keys : \E c \in Callers :
                                work'[c] = k /\ held'[c] >= InProgressTimeout}

---------------------------------------------------------------------------
(* acquire, in its three outcomes.                                         *)

AnswerInProgress(c, k) ==
    /\ work[c] = None
    /\ entries[k].kind = "in_progress" /\ Fresh(entries[k])
    /\ got' = [got EXCEPT ![c] = None]
    /\ UNCHANGED <<entries, work, history>>

AnswerCached(c, k) ==
    /\ work[c] = None
    /\ entries[k].kind = "completed" /\ Fresh(entries[k])
    /\ got' = [got EXCEPT ![c] = entries[k].response]
    /\ UNCHANGED <<entries, work, history>>

(* Faulty: makes room by dropping every entry.                             *)
MakeRoomForAll ==
    IF Cardinality(Tracked) >= MaxEntries THEN [k \in Keys |-> Absent] ELSE entries

(* Faulty: never makes room.                                               *)
MakeNoRoom == entries

(* The table after the clean-up at the capacity limit.                     *)
MadeRoom ==
    IF Cardinality(Tracked) >= MaxEntries
    THEN [k \in Keys |-> IF Fresh(entries[k]) THEN entries[k] ELSE Absent]
    ELSE entries

Acquire(c, k) ==
    /\ work[c] = None
    /\ ~Fresh(entries[k])
    /\ entries' = [MadeRoom EXCEPT ![k] = InProgress]
    /\ work' = [work EXCEPT ![c] = k]
    /\ held' = [held EXCEPT ![c] = 0]
    /\ NoteOverruns
    /\ UNCHANGED <<got, last>>

---------------------------------------------------------------------------
(* The end of an execution.                                                *)

Stop(c) ==
    /\ work' = [work EXCEPT ![c] = None]
    /\ held' = [held EXCEPT ![c] = 0]

Complete(c, v) ==
    /\ work[c] # None
    /\ entries' = [entries EXCEPT ![work[c]] = Completed(v)]
    /\ last' = [last EXCEPT ![work[c]] = [age |-> 0, response |-> v]]
    /\ Stop(c)
    /\ UNCHANGED <<got, overran>>

(* Faulty: removes whatever the key has.                                   *)
ReleaseAny(c) ==
    /\ work[c] # None
    /\ entries' = [entries EXCEPT ![work[c]] = Absent]
    /\ Stop(c)
    /\ UNCHANGED <<got, last, overran>>

Release(c) ==
    /\ work[c] # None
    /\ entries' = IF entries[work[c]].kind = "in_progress"
                  THEN [entries EXCEPT ![work[c]] = Absent]
                  ELSE entries
    /\ Stop(c)
    /\ UNCHANGED <<got, last, overran>>

(* The caller is dropped while it executes; nothing releases its key.      *)
Vanish(c) ==
    /\ work[c] # None
    /\ Stop(c)
    /\ UNCHANGED <<entries, got, last, overran>>

Older(n) == IF n < Horizon THEN n + 1 ELSE n

Tick ==
    /\ entries' = [k \in Keys |-> IF entries[k].kind = "absent" THEN entries[k]
                                  ELSE [entries[k] EXCEPT !.age = Older(@)]]
    /\ held' = [c \in Callers |-> IF work[c] = None THEN 0 ELSE Older(held[c])]
    /\ last' = [k \in Keys |-> [last[k] EXCEPT !.age = Older(@)]]
    /\ UNCHANGED <<work, got>>
    /\ NoteOverruns

Next ==
    \/ Tick
    \/ \E c \in Callers :
          \/ \E k \in Keys : AnswerInProgress(c, k) \/ AnswerCached(c, k) \/ Acquire(c, k)
          \/ \E v \in Responses : Complete(c, v)
          \/ Release(c)
          \/ Vanish(c)

Spec == Init /\ [][Next]_vars

---------------------------------------------------------------------------
(* Properties.                                                             *)

(* Only a completed entry carries a response.                              *)
Entry == {Absent} \cup [kind : {"in_progress"}, age : 0..Horizon, response : {None}]
                  \cup [kind : {"completed"}, age : 0..Horizon, response : Responses]

TypeOK ==
    /\ entries \in [Keys -> Entry]
    /\ work \in [Callers -> Keys \cup {None}]
    /\ got \in [Callers -> Responses \cup {None}]
    /\ held \in [Callers -> 0..Horizon]
    /\ last \in [Keys -> [age : 0..Horizon, response : Responses \cup {None}]]
    /\ overran \subseteq Keys

Executors(k) == {c \in Callers : work[c] = k}

(* "A concurrent request with this key is already executing" keeps others  *)
(* out: two callers execute for one key only after a lease for that key    *)
(* has outlived in_progress_timeout.  Releases, crashes and the clean-up   *)
(* on behalf of other keys never let a second one in.                      *)
OneExecutor ==
    \A k \in Keys \ overran : \A c, d \in Executors(k) : c = d

(* A request that was completed is not executed again for as long as its   *)
(* response is to be kept, and retries are answered with that response:    *)
(* neither a late release by a caller whose lease had timed out nor the    *)
(* clean-up at the limit makes the cache forget it.                        *)
CompletedOnce ==
    [][\A c \in Callers :
          /\ work[c] = None /\ work'[c] # None => last[work'[c]].age >= Ttl
          /\ got'[c] # got[c] /\ got'[c] # None =>
                \E k \in Keys : last[k].age < Ttl /\ got'[c] = last[k].response]_vars

(* max_entries is exceeded by an acquisition only if every entry was       *)
(* fresh: whatever had expired has made room first.                        *)
OvershootOnlyFresh ==
    [][\A k \in Keys :
          /\ entries'[k] = InProgress /\ entries[k] # InProgress
          /\ Cardinality(Tracked') > MaxEntries
          => \A j \in Tracked' : Fresh(entries[j]) \/ j = k]_vars

---------------------------------------------------------------------------
(* The inductive invariant behind them.                                    *)

(* Until a lease for a key outlives the timeout, the entry is the lease of *)
(* whoever executes for it.                                                *)
LeaseHeld ==
    \A k \in Keys \ overran : \A c \in Executors(k) :
        /\ held[c] < InProgressTimeout
        /\ entries[k] = [kind |-> "in_progress", age |-> held[c], response |-> None]

(* A stored response is that of the last completion, and a completion      *)
(* younger than the TTL is still stored.                                   *)
ResponseKept ==
    \A k \in Keys :
        /\ last[k].age < Ttl => entries[k].kind = "completed"
        /\ entries[k].kind = "completed" => /\ entries[k].age = last[k].age
                                            /\ entries[k].response = last[k].response

IInv == TypeOK /\ OneExecutor /\ LeaseHeld /\ ResponseKept
===========================================================================
