---------------------------- MODULE Facilitator ----------------------------
(***************************************************************************)
(* One call of the facilitator client, facilitator.rs: POST /verify or     *)
(* /settle with the retry loop around it, or GET /supported for readiness. *)
(* What comes back of each request is up to the network and the            *)
(* facilitator; a request that failed may have been carried out there.     *)
(***************************************************************************)
EXTENDS Naturals, Sequences

CONSTANTS RetryLimits,      \* values of max_retries, one per behaviour
          InitialBackoffs,  \* values of initial_backoff
          MaxBackoff,       \* max_backoff
          MaxFactor,        \* the last value of the factor, u32::MAX
          MaxDuration,      \* the last value of a Duration
          ProbeNetworks,    \* networks the facilitator may offer
          AnyNetwork        \* probe: no network is asked for

ASSUME FacilitatorAssumption ==
    /\ RetryLimits \subseteq Nat /\ InitialBackoffs \subseteq Nat
    /\ MaxBackoff \in Nat /\ MaxFactor \in Nat \ {0} /\ MaxDuration \in Nat
    /\ AnyNetwork \notin ProbeNetworks

VARIABLES retry_config,
          op,        \* "verify", "settle" or "probe"
          exchange,  \* where the call is: "sending", "sleeping", "ok" or "failed"
          attempt,   \* retries so far
          wanted,    \* probe: the network asked for
          replies,   \* history: what came back of each request
          delays,    \* history: the backoffs slept
          kinds      \* history: what a probe was told is supported

call == <<retry_config, op, exchange, attempt, wanted, replies, delays, kinds>>

(* A reply in time with a 2xx status and a body that parses; a connection  *)
(* that failed; no reply in time; any other transport error; a 5xx status; *)
(* any other status; a 2xx body that was cut off or does not parse.        *)
Replies == {"answer", "connect", "timeout", "broken", "status_5xx", "status_other",
            "garbled"}

(* Kind: the scheme is "exact" or another; a network may be blank.         *)
Kinds == [version : {1, 2}, exact : BOOLEAN, network : ProbeNetworks \cup {""}]

FacilitatorInit ==
    /\ retry_config \in [max_retries : RetryLimits, initial_backoff : InitialBackoffs]
    /\ op \in {"verify", "settle", "probe"}
    /\ exchange = "sending"
    /\ attempt = 0
    /\ wanted \in IF op = "probe" THEN ProbeNetworks \cup {AnyNetwork} ELSE {AnyNetwork}
    /\ replies = <<>>
    /\ delays = <<>>
    /\ kinds = {}

(* 2u32.saturating_pow                                                     *)
Factor[n \in Nat] ==
    IF n = 0 THEN 1
    ELSE IF 2 * Factor[n - 1] > MaxFactor THEN MaxFactor ELSE 2 * Factor[n - 1]

(* saturating_mul, then the cap.                                           *)
calculate_backoff(n) ==
    LET scaled  == retry_config.initial_backoff * Factor[n]
        backoff == IF scaled > MaxDuration THEN MaxDuration ELSE scaled
    IN  IF backoff < MaxBackoff THEN backoff ELSE MaxBackoff

IsTransient(reply) == reply \in {"connect", "timeout", "status_5xx"}

(* Faulty: a settlement is repeated like a verification.                   *)
RetriesOfAny == retry_config.max_retries

Retries == IF op = "verify" THEN retry_config.max_retries ELSE 0

(* send_single came back: the call is over, or sleeps before a retry.      *)
Reply(reply) ==
    /\ op # "probe" /\ exchange = "sending"
    /\ replies' = Append(replies, reply)
    /\ IF reply # "answer" /\ attempt < Retries /\ IsTransient(reply)
       THEN /\ exchange' = "sleeping"
            /\ delays' = Append(delays, calculate_backoff(attempt))
       ELSE /\ exchange' = IF reply = "answer" THEN "ok" ELSE "failed"
            /\ UNCHANGED delays
    /\ UNCHANGED <<retry_config, op, attempt, wanted, kinds>>

Wake ==
    /\ exchange = "sleeping"
    /\ exchange' = "sending"
    /\ attempt' = attempt + 1
    /\ UNCHANGED <<retry_config, op, wanted, replies, delays, kinds>>

Offers(offered, network) ==
    \E k \in offered : /\ k.version = 2 /\ k.exact /\ k.network # ""
                       /\ network \in {AnyNetwork, k.network}

(* probe_capability never retries.                                         *)
ProbeReply(reply, offered) ==
    /\ op = "probe" /\ exchange = "sending"
    /\ replies' = Append(replies, reply)
    /\ kinds' = IF reply = "answer" THEN offered ELSE {}
    /\ exchange' = IF reply = "answer" /\ Offers(offered, wanted) THEN "ok" ELSE "failed"
    /\ UNCHANGED <<retry_config, op, attempt, wanted, delays>>

CallOver == exchange \in {"ok", "failed"} /\ UNCHANGED call

FacilitatorNext ==
    \/ Wake \/ CallOver
    \/ \E reply \in Replies : Reply(reply)
    \/ \E reply \in Replies, a, b \in Kinds : ProbeReply(reply, {a, b})

FacilitatorSpec == FacilitatorInit /\ [][FacilitatorNext]_call

---------------------------------------------------------------------------
(* Properties.                                                             *)

(* A settlement is sent once, whatever its answer, since the facilitator   *)
(* may have executed it; a verification at most once more than it may be   *)
(* retried.  The delays between never shrink, not even where the factor    *)
(* saturates, and never pass the cap.                                      *)
CallBounded ==
    /\ op = "settle" => Len(replies) <= 1
    /\ Len(replies) <= retry_config.max_retries + 1
    /\ \A i \in 1..Len(delays) :
          /\ delays[i] <= MaxBackoff
          /\ i > 1 => delays[i - 1] <= delays[i]

(* A call succeeds only on an answer of the facilitator and, when it       *)
(* fails, did so on a definite error or after its last retry: no transient *)
(* failure is reported while retries are left, no definite one repeated.   *)
EndsForCause ==
    LET last == replies[Len(replies)]
    IN  /\ exchange = "ok" => last = "answer"
        /\ exchange = "failed" /\ op # "probe" =>
              /\ last # "answer"
              /\ last \in {"connect", "timeout", "status_5xx"} /\ op = "verify"
                    => Len(replies) = retry_config.max_retries + 1
        /\ \A i \in 1..(Len(replies) - 1) :
              replies[i] \in {"connect", "timeout", "status_5xx"}
        /\ exchange = "ok" /\ op = "probe" =>
              \E k \in kinds : k.version = 2 /\ k.exact /\ wanted \in {k.network, AnyNetwork}

(* Both of the above.                                                      *)
CallHonest == CallBounded /\ EndsForCause
============================================================================
