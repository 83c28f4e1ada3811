------------------------- MODULE VerificationCache -------------------------
(***************************************************************************)
(* The verification cache, cache_store.rs: entries with a time to live     *)
(* each, behind one mutex.  An expired entry goes when it is next looked   *)
(* up; nothing else removes it, and nothing bounds the map.                *)
(***************************************************************************)
EXTENDS Naturals

CONSTANTS Signatures, Verdicts,
          CustomTtls,    \* values of custom_ttl
          DefaultTtl,    \* default_ttl
          CacheHorizon,  \* bound: how long a behaviour lasts
          NoEntry

ASSUME CacheAssumption ==
    /\ CustomTtls \subseteq Nat /\ DefaultTtl \in Nat /\ CacheHorizon \in Nat
    /\ NoEntry \notin [is_valid : Verdicts, until : Nat]

VARIABLES cache,   \* entries
          uptime,  \* the monotonic clock
          answer,  \* what the last get answered, and for which signature
          proof    \* history: per signature, the last verification stored, and
                   \* until when it may be relied on

store == <<cache, uptime, answer, proof>>

CachedVerification == [is_valid : Verdicts, cached_at : 0..CacheHorizon,
                       ttl : CustomTtls \cup {DefaultTtl}]

CacheTypeOK ==
    /\ cache \in [Signatures -> CachedVerification \cup {NoEntry}]
    /\ uptime \in 0..CacheHorizon

CacheInit ==
    /\ cache = [s \in Signatures |-> NoEntry]
    /\ uptime = 0
    /\ answer = NoEntry
    /\ proof = [s \in Signatures |-> NoEntry]

Fresh(entry) == uptime - entry.cached_at < entry.ttl

get(s) ==
    /\ IF cache[s] # NoEntry /\ Fresh(cache[s])
       THEN /\ answer' = [signature |-> s, is_valid |-> cache[s].is_valid]
            /\ UNCHANGED cache
       ELSE /\ answer' = NoEntry
            /\ cache' = [cache EXCEPT ![s] = NoEntry]
    /\ UNCHANGED <<uptime, proof>>

(* Faulty: keeps an entry that is there.                                   *)
insertIfAbsent(s, verdict, ttl) ==
    /\ cache' = [cache EXCEPT ![s] =
                    IF @ = NoEntry THEN [is_valid |-> verdict, cached_at |-> uptime,
                                         ttl |-> ttl]
                                   ELSE @]
    /\ proof' = [proof EXCEPT ![s] = [is_valid |-> verdict, until |-> uptime + ttl]]
    /\ answer' = NoEntry
    /\ UNCHANGED uptime

insert(s, verdict, ttl) ==
    /\ cache' = [cache EXCEPT ![s] = [is_valid |-> verdict, cached_at |-> uptime,
                                      ttl |-> ttl]]
    /\ proof' = [proof EXCEPT ![s] = [is_valid |-> verdict, until |-> uptime + ttl]]
    /\ answer' = NoEntry
    /\ UNCHANGED uptime

clear ==
    /\ cache' = [s \in Signatures |-> NoEntry]
    /\ proof' = [s \in Signatures |-> NoEntry]
    /\ answer' = NoEntry
    /\ UNCHANGED uptime

CacheTick ==
    /\ uptime < CacheHorizon
    /\ uptime' = uptime + 1
    /\ answer' = NoEntry
    /\ UNCHANGED <<cache, proof>>

CacheNext ==
    \/ CacheTick \/ clear
    \/ \E s \in Signatures : get(s)
    \/ \E s \in Signatures, v \in Verdicts, ttl \in CustomTtls \cup {DefaultTtl} :
          insert(s, v, ttl)

CacheSpec == CacheInit /\ [][CacheNext]_store

---------------------------------------------------------------------------
(* A verification is answered from the cache only while its own time to    *)
(* live lasts, and only the latest one stored since the cache was cleared: *)
(* an older verdict with a longer life never outlives its replacement.     *)
AnswersCurrent ==
    /\ CacheTypeOK
    /\ answer # NoEntry =>
          /\ proof[answer.signature] # NoEntry
          /\ answer.is_valid = proof[answer.signature].is_valid
          /\ uptime < proof[answer.signature].until
=============================================================================
