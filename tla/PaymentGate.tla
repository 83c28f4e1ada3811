---------------------------- MODULE PaymentGate ----------------------------
(***************************************************************************)
(* The payment gate x402_payment of kite-x402-axum/src/middleware.rs, with *)
(* the replay guard it reserves from (NonceGuard), the facilitator client  *)
(* it verifies and settles through (facilitator.rs), and, outside src/,    *)
(* the protected handler, the facilitator and the chain.                   *)
(*                                                                         *)
(* Each element of Ops is one request; it runs the gate once.  Between two *)
(* awaits the gate runs to completion, so an action reaches from one await *)
(* (verify, backoff sleep, handler, settle) or mutex to the next.  A       *)
(* request may be dropped at any await: the client went away, or the       *)
(* handler unwound.  The process may crash, and then the guard is empty.   *)
(***************************************************************************)
EXTENDS NonceGuard

CONSTANTS MaxRetries,  \* RetryConfig.max_retries of verification
          GuardModes,  \* whether nonce_guard may be Some, may be None
          MaxCrashes   \* bound: how many times the process crashes

ASSUME GateAssumption == /\ None \notin Ops
                         /\ MaxRetries \in Nat
                         /\ GuardModes \subseteq BOOLEAN
                         /\ MaxCrashes \in Nat

VARIABLES guarded,     \* PaymentConfig.nonce_guard is Some
          stage,       \* where each request is, or how it was answered
          auth,        \* the authorization it carries
          attempts,    \* verification attempts sent
          response,    \* what the protected handler answered
          order,       \* the settlement request, as the facilitator sees it
          paid,        \* paid[k]: the request whose settlement used k on chain
          metrics,     \* PaymentMetrics
          quarantine,  \* history: until when k may not be served again
          crashes      \* crashes so far

gate  == <<stage, auth, attempts, response, order, quarantine>>
gvars == <<vars, gate, paid, metrics, crashes, guarded>>

Working  == {"verifying", "backoff", "handling", "settling"}
Active   == {"guard"} \cup Working
Answered == {"misconfigured", "challenged", "busy", "upstream_failed",
             "unsettled", "delivered"}
Over     == Answered \cup {"dropped"}

Counters == [requests : Nat, challenges : Nat, verified : Nat, rejected : Nat,
             settled : Nat, unsettled : Nat]

GateTypeOK ==
    /\ TypeOK
    /\ guarded \in GuardModes
    /\ stage \in [Ops -> {"new"} \cup Active \cup Over]
    /\ auth \in [Ops -> Keys \cup {None}]
    /\ attempts \in [Ops -> 0..(MaxRetries + 1)]
    /\ response \in [Ops -> {"none", "ok", "error"}]
    /\ order \in [Ops -> {"none", "sent", "executed", "refused"}]
    /\ paid \in [Keys -> Ops \cup {None}]
    /\ metrics \in Counters
    /\ quarantine \in [Keys -> 0..(MaxInstant + 1)]
    /\ crashes \in 0..MaxCrashes

NoCounts == [requests |-> 0, challenges |-> 0, verified |-> 0, rejected |-> 0,
             settled |-> 0, unsettled |-> 0]

GateInit ==
    /\ Init
    /\ guarded \in GuardModes
    /\ stage = [r \in Ops |-> "new"]
    /\ auth = [r \in Ops |-> None]
    /\ attempts = [r \in Ops |-> 0]
    /\ response = [r \in Ops |-> "none"]
    /\ order = [r \in Ops |-> "none"]
    /\ paid = [k \in Keys |-> None]
    /\ metrics = NoCounts
    /\ quarantine = [k \in Keys |-> 0]
    /\ crashes = 0

GoTo(r, s) == stage' = [stage EXCEPT ![r] = s]

Count(fields) == metrics' = [f \in DOMAIN metrics |->
                                IF f \in fields THEN metrics[f] + 1 ELSE metrics[f]]

(* The reservation, an Option in the gate, is dropped when x402_payment    *)
(* returns or its future is dropped.                                       *)
DropReservation(r) == IF guarded THEN Drop(r) ELSE UNCHANGED vars

---------------------------------------------------------------------------
(* Before the first await.  Routes have their own PaymentConfig, so        *)
(* whether the price parses depends on the request.                        *)

Misconfigured(r) ==
    /\ stage[r] = "new"
    /\ GoTo(r, "misconfigured")
    /\ Count({"requests"})
    /\ UNCHANGED <<vars, auth, attempts, response, order, paid, quarantine, crashes, guarded>>

(* No payment header, one that does not decode, or one for other           *)
(* requirements than the route's.                                          *)
ChallengeUnpaid(r) ==
    /\ stage[r] = "new"
    /\ GoTo(r, "challenged")
    /\ Count({"requests", "challenges"})
    /\ UNCHANGED <<vars, auth, attempts, response, order, paid, quarantine, crashes, guarded>>

(* The expiration guard answers the same challenge but records nothing.    *)
ChallengeExpired(r) ==
    /\ stage[r] = "new"
    /\ GoTo(r, "challenged")
    /\ Count({"requests"})
    /\ UNCHANGED <<vars, auth, attempts, response, order, paid, quarantine, crashes, guarded>>

(* A well-formed payment goes on to the guard, or straight to verification *)
(* where none is configured.                                               *)
Present(r, k) ==
    /\ stage[r] = "new"
    /\ auth' = [auth EXCEPT ![r] = k]
    /\ Count({"requests"})
    /\ IF guarded
       THEN /\ CallReserve(r, k)
            /\ GoTo(r, "guard")
            /\ UNCHANGED attempts
       ELSE /\ GoTo(r, "verifying")
            /\ attempts' = [attempts EXCEPT ![r] = 1]
            /\ UNCHANGED vars
    /\ UNCHANGED <<response, order, paid, quarantine, crashes, guarded>>

---------------------------------------------------------------------------
(* The guard's answer.                                                     *)

Reserved(r) ==
    /\ stage[r] = "guard"
    /\ Admit(r)
    /\ GoTo(r, "verifying")
    /\ attempts' = [attempts EXCEPT ![r] = 1]
    /\ UNCHANGED <<auth, response, order, paid, metrics, quarantine, crashes, guarded>>

ChallengeReplay(r) ==
    /\ stage[r] = "guard"
    /\ ReplayDetected(r)
    /\ GoTo(r, "challenged")
    /\ Count({"challenges"})
    /\ UNCHANGED <<auth, attempts, response, order, paid, quarantine, crashes, guarded>>

GuardFull(r) ==
    /\ stage[r] = "guard"
    /\ CapacityExceeded(r)
    /\ GoTo(r, "busy")
    /\ UNCHANGED <<auth, attempts, response, order, paid, metrics, quarantine, crashes, guarded>>

---------------------------------------------------------------------------
(* verify().await.  What the facilitator answers is up to it; a connect    *)
(* error, a timeout and a 5xx are transient and retried after a backoff.   *)

(* Faulty: gives the reservation up while it waits to retry.               *)
RetryUnreserved(r) ==
    /\ stage[r] = "verifying"
    /\ attempts[r] <= MaxRetries
    /\ DropReservation(r)
    /\ GoTo(r, "backoff")
    /\ UNCHANGED <<auth, attempts, response, order, paid, metrics, quarantine, crashes, guarded>>

RetryVerify(r) ==
    /\ stage[r] = "verifying"
    /\ attempts[r] <= MaxRetries
    /\ GoTo(r, "backoff")
    /\ UNCHANGED <<vars, auth, attempts, response, order, paid, metrics, quarantine, crashes, guarded>>

(* Faulty: does not count the attempt.                                     *)
BackoffUncounted(r) ==
    /\ stage[r] = "backoff"
    /\ GoTo(r, "verifying")
    /\ UNCHANGED <<vars, auth, attempts, response, order, paid, metrics, quarantine, crashes, guarded>>

BackoffEnds(r) ==
    /\ stage[r] = "backoff"
    /\ GoTo(r, "verifying")
    /\ attempts' = [attempts EXCEPT ![r] = @ + 1]
    /\ UNCHANGED <<vars, auth, response, order, paid, metrics, quarantine, crashes, guarded>>

(* Invalid, or unavailable for good: a definite error on any attempt, a    *)
(* transient one on the last.                                              *)
ChallengeUnverified(r) ==
    /\ stage[r] = "verifying"
    /\ DropReservation(r)
    /\ GoTo(r, "challenged")
    /\ Count({"rejected", "challenges"})
    /\ UNCHANGED <<auth, attempts, response, order, paid, quarantine, crashes, guarded>>

(* Faulty: enters the handler with a reservation that a drop releases.     *)
VerifiedUnretained(r) ==
    /\ stage[r] = "verifying"
    /\ UNCHANGED vars
    /\ GoTo(r, "handling")
    /\ Count({"verified"})
    /\ UNCHANGED <<auth, attempts, response, order, paid, quarantine, crashes, guarded>>

(* From here on the outcome can become uncertain: the reservation is to be *)
(* retained before the handler starts.                                     *)
Verified(r) ==
    /\ stage[r] = "verifying"
    /\ IF guarded THEN RetainOnDrop(r) ELSE UNCHANGED vars
    /\ GoTo(r, "handling")
    /\ Count({"verified"})
    /\ UNCHANGED <<auth, attempts, response, order, paid, quarantine, crashes, guarded>>

---------------------------------------------------------------------------
(* next.run(req).await, then settle().await.                               *)

(* Faulty: does not look at the handler's status before settling.          *)
HandlerFailsSettled(r) ==
    /\ stage[r] = "handling"
    /\ response' = [response EXCEPT ![r] = "error"]
    /\ order' = [order EXCEPT ![r] = "sent"]
    /\ GoTo(r, "settling")
    /\ UNCHANGED <<vars, auth, attempts, paid, metrics, quarantine, crashes, guarded>>

(* Faulty: returns without releasing the reservation.                      *)
HandlerFailsRetained(r) ==
    /\ stage[r] = "handling"
    /\ response' = [response EXCEPT ![r] = "error"]
    /\ DropReservation(r)
    /\ GoTo(r, "upstream_failed")
    /\ UNCHANGED <<auth, attempts, order, paid, metrics, quarantine, crashes, guarded>>

HandlerFails(r) ==
    /\ stage[r] = "handling"
    /\ response' = [response EXCEPT ![r] = "error"]
    /\ IF guarded THEN Release(r) ELSE UNCHANGED vars
    /\ GoTo(r, "upstream_failed")
    /\ UNCHANGED <<auth, attempts, order, paid, metrics, quarantine, crashes, guarded>>

HandlerSucceeds(r) ==
    /\ stage[r] = "handling"
    /\ response' = [response EXCEPT ![r] = "ok"]
    /\ order' = [order EXCEPT ![r] = "sent"]
    /\ GoTo(r, "settling")
    /\ UNCHANGED <<vars, auth, attempts, paid, metrics, quarantine, crashes, guarded>>

(* A request that got this far must not be followed by another one for the *)
(* same authorization before the retention ends.                           *)
Quarantine(r) == quarantine' = [quarantine EXCEPT ![auth[r]] = Deadline(clock)]

SettleConfirmed(r) ==
    /\ stage[r] = "settling"
    /\ order[r] = "executed"
    /\ DropReservation(r)
    /\ Quarantine(r)
    /\ GoTo(r, "delivered")
    /\ Count({"settled"})
    /\ UNCHANGED <<auth, attempts, response, order, paid, crashes, guarded>>

SettleRejected(r) ==
    /\ stage[r] = "settling"
    /\ order[r] = "refused"
    /\ DropReservation(r)
    /\ Quarantine(r)
    /\ GoTo(r, "unsettled")
    /\ Count({"unsettled"})
    /\ UNCHANGED <<auth, attempts, response, order, paid, crashes, guarded>>

(* No usable answer: lost, late, 5xx or malformed.  The facilitator may    *)
(* have executed the order, or may yet do so.                              *)
SettleUnavailable(r) ==
    /\ stage[r] = "settling"
    /\ DropReservation(r)
    /\ Quarantine(r)
    /\ GoTo(r, "unsettled")
    /\ Count({"unsettled"})
    /\ UNCHANGED <<auth, attempts, response, order, paid, crashes, guarded>>

---------------------------------------------------------------------------
(* Outside the gate.                                                       *)

(* The future is dropped at an await.                                      *)
Abandon(r) ==
    /\ stage[r] \in Working
    /\ DropReservation(r)
    /\ IF stage[r] \in {"handling", "settling"} THEN Quarantine(r)
                                                 ELSE UNCHANGED quarantine
    /\ GoTo(r, "dropped")
    /\ UNCHANGED <<auth, attempts, response, order, paid, metrics, crashes, guarded>>

(* The facilitator acts on an order whenever it gets to it, even after the *)
(* gate stopped waiting.  The chain accepts an authorization once; a       *)
(* repeated order may be refused or answered from the first execution.     *)
Execute(r) ==
    /\ order[r] = "sent"
    /\ order' = [order EXCEPT ![r] = "executed"]
    /\ paid' = IF paid[auth[r]] = None THEN [paid EXCEPT ![auth[r]] = r] ELSE paid
    /\ UNCHANGED <<vars, stage, auth, attempts, response, metrics, quarantine, crashes, guarded>>

Refuse(r) ==
    /\ order[r] = "sent"
    /\ order' = [order EXCEPT ![r] = "refused"]
    /\ UNCHANGED <<vars, stage, auth, attempts, response, paid, metrics, quarantine, crashes, guarded>>

(* Only the guard reads the clock.                                         *)
Pass == guarded /\ Tick /\ UNCHANGED <<gate, paid, metrics, crashes, guarded>>

(* A crash drops every request and every in-memory protection, promises    *)
(* included; orders already sent stay with the facilitator.                *)
Crash ==
    /\ crashes < MaxCrashes
    /\ crashes' = crashes + 1
    /\ stage' = [r \in Ops |-> IF stage[r] \in Active THEN "dropped" ELSE stage[r]]
    /\ entries' = [k \in Keys |-> None]
    /\ expirations' = {}
    /\ call' = [r \in Ops |-> "idle"]
    /\ key' = [r \in Ops |-> None]
    /\ stamp' = [r \in Ops |-> 0]
    /\ generation' = [r \in Ops |-> None]
    /\ retain' = [r \in Ops |-> FALSE]
    /\ orphaned' = {}
    /\ until' = [k \in Keys |-> 0]
    /\ quarantine' = [k \in Keys |-> 0]
    /\ metrics' = NoCounts
    /\ UNCHANGED <<clock, auth, attempts, response, order, paid, guarded>>

(* No request is left: the server waits.                                   *)
Quiet == (\A r \in Ops : stage[r] \in Over) /\ UNCHANGED gvars

(* The steps that the gate's own awaits come to.                           *)
Progress(r) ==
    \/ Reserved(r) \/ ChallengeReplay(r) \/ GuardFull(r)
    \/ RetryVerify(r) \/ BackoffEnds(r) \/ ChallengeUnverified(r) \/ Verified(r)
    \/ SettleConfirmed(r) \/ SettleRejected(r) \/ SettleUnavailable(r)

Handler(r) == HandlerFails(r) \/ HandlerSucceeds(r)

Arrival(r) == \/ Misconfigured(r) \/ ChallengeUnpaid(r) \/ ChallengeExpired(r)
              \/ \E k \in Keys : Present(r, k)

GateNext == \/ Pass \/ Crash \/ Quiet
            \/ \E r \in Ops : \/ Arrival(r) \/ Progress(r) \/ Handler(r) \/ Abandon(r)
                              \/ Execute(r) \/ Refuse(r)

GateSpec == GateInit /\ [][GateNext]_gvars

(* The runtime polls a ready request, the facilitator client times out and *)
(* a backoff is a timer.  Nothing bounds the handler: the service's own    *)
(* (proxy.rs) first awaits the whole body, at the buyer's pace.            *)
FairGateSpec == GateSpec /\ \A r \in Ops : WF_gvars(Progress(r))

---------------------------------------------------------------------------
(* Properties.                                                             *)

(* An authorization is used on chain only for a request whose handler      *)
(* answered with success, and paid content is delivered only when its      *)
(* authorization was used on chain, whatever was lost, late, cancelled or  *)
(* crashed, with or without a replay guard.                                *)
FairExchange ==
    /\ \A k \in Keys : paid[k] # None => response[paid[k]] = "ok" /\ auth[paid[k]] = k
    /\ \A r \in Ops : stage[r] = "delivered" =>
          paid[auth[r]] # None /\ response[r] = "ok"

(* With a guard, copies of an authorization never reach the facilitator or *)
(* the handler together: at most one of them is past the guard.            *)
OneCopyAtWork ==
    \A q, r \in Ops :
        guarded /\ stage[q] \in Working /\ stage[r] \in Working /\ auth[q] = auth[r]
            => q = r

(* With a guard, after a settlement attempt or a drop in the handler, the  *)
(* authorization reaches no handler again before the retention has passed, *)
(* however its copies and the clock interleave.                            *)
NoEarlyReplay ==
    [][\A r \in Ops : guarded /\ stage[r] # "handling" /\ stage'[r] = "handling" =>
          quarantine[auth[r]] <= clock]_gvars

(* Nothing stays reserved without a cause: a key in the table belongs to a *)
(* request at work or to one that ended with an uncertain or settled       *)
(* outcome.  A failed verification, a handler error or a cancelled         *)
(* verification leaves nothing behind.                                     *)
NothingLeaks ==
    \A k \in Protected : \/ quarantine[k] # 0
                         \/ \E r \in Ops : stage[r] \in Working /\ auth[r] = k

(* Every request that passed the first checks is answered or dropped, or   *)
(* from some time on waits for its handler: no contention for the guard,   *)
(* no retries and no silence of the facilitator keep it.                   *)
EveryRequestEnds ==
    \A r \in Ops :
        stage[r] \in Active ~> (stage[r] \in Over \/ [](stage[r] = "handling"))

(* metrics.rs: challenges_total is the number of 402 challenges issued.    *)
ChallengesCounted ==
    metrics.challenges = Cardinality({r \in Ops : stage[r] = "challenged"})
===========================================================================
