------------------------------ MODULE Service ------------------------------
(***************************************************************************)
(* The layers of service/src/main.rs around the payment gate, and the      *)
(* counters of ServiceMetrics and PaymentMetrics that they feed.           *)
(*                                                                         *)
(* A request passes http_request_logger (a guard for the gauge of active   *)
(* requests, a counter before and one after) and is routed: free routes    *)
(* answer at once, /readyz waits for the facilitator, /metrics/x402 loads  *)
(* the payment counters one by one, and /v1 takes a permit of the          *)
(* semaphore, passes the rate limiter and runs x402_payment.  Counters are *)
(* separate atomics, so every increment and every load is a step of its    *)
(* own.  A request may be dropped at any await, and then only destructors  *)
(* run.  The gate is reduced to the counters it moves and the order it     *)
(* moves them in; PaymentGate has the rest.                                *)
(***************************************************************************)
EXTENDS Integers, FiniteSets, Sequences

CONSTANTS Requests,       \* connections, each with one request at a time
          None,           \* no status
          MaxConcurrent,  \* permits of the semaphore, at least 1
          MaxRequests     \* bound: requests in total

ASSUME ServiceAssumption ==
    /\ IsFiniteSet(Requests)
    /\ MaxConcurrent \in Nat \ {0}
    /\ MaxRequests \in Nat

VARIABLES at,        \* where each request is
          status,    \* the status class of its response
          permits,   \* of the semaphore
          active,    \* ServiceMetrics.active_requests
          total,     \* ServiceMetrics.total_requests
          outcomes,  \* successful_requests, paid_challenges, server_errors
          metrics,   \* PaymentMetrics
          seen,      \* what a scrape of PaymentMetrics has loaded so far
          silent     \* history: requests dropped, or answered with a client
                     \* error other than 402, which no counter tells

service == <<active, total, outcomes, silent>>
vars    == <<at, status, permits, service, metrics, seen>>

Statuses == {"success", "challenge", "client_error", "server_error"}

(* The awaits below which a request can be dropped.                        *)
Waiting == {"probing", "verifying", "handling", "settling"}

(* Where a request holds a permit.                                         *)
Metered == {"admitted", "gated", "challenging", "verifying", "handling",
            "settling", "served"}

(* The counters in the order snapshot() loads them.                        *)
Loads == <<"requests", "challenges", "verified", "rejected", "settled", "unsettled">>

Init ==
    /\ at = [r \in Requests |-> "away"]
    /\ status = [r \in Requests |-> None]
    /\ permits = MaxConcurrent
    /\ active = 0
    /\ total = 0
    /\ outcomes = [s \in Statuses \ {"client_error"} |-> 0]
    /\ metrics = [c \in {Loads[i] : i \in DOMAIN Loads} |-> 0]
    /\ seen = [r \in Requests |-> <<>>]
    /\ silent = 0

GoTo(r, p) == at' = [at EXCEPT ![r] = p]
Move(r, p, q) == at[r] = p /\ GoTo(r, q)
Count(c) == metrics' = [metrics EXCEPT ![c] = @ + 1]

(* A response reaches the layer above.                                     *)
Respond(r, p, q, s) == Move(r, p, q) /\ status' = [status EXCEPT ![r] = s]

---------------------------------------------------------------------------
(* http_request_logger, on the way in.                                     *)

Enter(r) ==
    /\ total + Cardinality({q \in Requests : at[q] = "entered"}) < MaxRequests
    /\ Move(r, "away", "entered")
    /\ active' = active + 1
    /\ UNCHANGED <<status, permits, total, outcomes, silent, metrics, seen>>

CountRequest(r) ==
    /\ Move(r, "entered", "routed")
    /\ total' = total + 1
    /\ UNCHANGED <<status, permits, active, outcomes, silent, metrics, seen>>

---------------------------------------------------------------------------
(* The routes.                                                             *)

(* healthz, livez, metrics, or no such route.                              *)
AnswerFree(r) ==
    /\ \E s \in {"success", "client_error"} : Respond(r, "routed", "replying", s)
    /\ UNCHANGED <<permits, service, metrics, seen>>

Probe(r) ==
    /\ Move(r, "routed", "probing")
    /\ UNCHANGED <<status, permits, service, metrics, seen>>

AnswerReadiness(r) ==
    /\ \E s \in {"success", "server_error"} : Respond(r, "probing", "replying", s)
    /\ UNCHANGED <<permits, service, metrics, seen>>

Scrape(r) ==
    /\ Move(r, "routed", "scraping")
    /\ UNCHANGED <<status, permits, service, metrics, seen>>

Load(r) ==
    /\ at[r] = "scraping" /\ Len(seen[r]) < Len(Loads)
    /\ seen' = [seen EXCEPT ![r] = Append(@, metrics[Loads[Len(@) + 1]])]
    /\ UNCHANGED <<at, status, permits, service, metrics>>

Report(r) ==
    /\ Len(seen[r]) = Len(Loads)
    /\ Respond(r, "scraping", "replying", "success")
    /\ UNCHANGED <<permits, service, metrics, seen>>

(* concurrency_limiter: try_acquire, which never waits.                    *)
Acquire(r) ==
    /\ permits > 0
    /\ Move(r, "routed", "admitted")
    /\ permits' = permits - 1
    /\ UNCHANGED <<status, service, metrics, seen>>

Busy(r) ==
    /\ permits = 0
    /\ Respond(r, "routed", "replying", "server_error")
    /\ UNCHANGED <<permits, service, metrics, seen>>

---------------------------------------------------------------------------
(* Below the permit: rate_limit_middleware, then x402_payment.             *)

(* No client address, no quota, no room for the client.                    *)
LimitRate(r) ==
    /\ \E s \in {"client_error", "server_error"} : Respond(r, "admitted", "served", s)
    /\ UNCHANGED <<permits, service, metrics, seen>>

RecordRequest(r) ==
    /\ Move(r, "admitted", "gated")
    /\ Count("requests")
    /\ UNCHANGED <<status, permits, service, seen>>

(* A price that does not parse, a full replay guard, an expired            *)
(* authorization: answered without a counter.                              *)
AnswerUncounted(r) ==
    /\ \E s \in {"server_error", "challenge"} : Respond(r, "gated", "served", s)
    /\ UNCHANGED <<permits, service, metrics, seen>>

Refuse(r) ==
    /\ Move(r, "gated", "challenging")
    /\ UNCHANGED <<status, permits, service, metrics, seen>>

RecordChallenge(r) ==
    /\ Respond(r, "challenging", "served", "challenge")
    /\ Count("challenges")
    /\ UNCHANGED <<permits, service, seen>>

Verify(r) ==
    /\ Move(r, "gated", "verifying")
    /\ UNCHANGED <<status, permits, service, metrics, seen>>

RecordRejection(r) ==
    /\ Move(r, "verifying", "challenging")
    /\ Count("rejected")
    /\ UNCHANGED <<status, permits, service, seen>>

(* Faulty: forgets to count the verification.                              *)
VerifiedLate(r) ==
    /\ Move(r, "verifying", "handling")
    /\ UNCHANGED <<status, permits, service, metrics, seen>>

RecordVerification(r) ==
    /\ Move(r, "verifying", "handling")
    /\ Count("verified")
    /\ UNCHANGED <<status, permits, service, seen>>

(* The handler's own error is the response, whatever its status.           *)
HandlerFails(r) ==
    /\ \E s \in Statuses \ {"success"} : Respond(r, "handling", "served", s)
    /\ UNCHANGED <<permits, service, metrics, seen>>

HandlerSucceeds(r) ==
    /\ Move(r, "handling", "settling")
    /\ UNCHANGED <<status, permits, service, metrics, seen>>

RecordSettlement(r) ==
    /\ \/ Respond(r, "settling", "served", "success") /\ Count("settled")
       \/ Respond(r, "settling", "served", "challenge") /\ Count("unsettled")
    /\ UNCHANGED <<permits, service, seen>>

(* concurrency_limiter: the permit is dropped once there is a response.    *)
DropPermit(r) ==
    /\ Move(r, "served", "replying")
    /\ permits' = permits + 1
    /\ UNCHANGED <<status, service, metrics, seen>>

---------------------------------------------------------------------------
(* http_request_logger, on the way out.                                    *)

RecordOutcome(r) ==
    /\ Move(r, "replying", "leaving")
    /\ IF status[r] = "client_error"
       THEN /\ silent' = silent + 1
            /\ UNCHANGED outcomes
       ELSE /\ outcomes' = [outcomes EXCEPT ![status[r]] = @ + 1]
            /\ UNCHANGED silent
    /\ UNCHANGED <<status, permits, active, total, metrics, seen>>

DropGuard(r) ==
    /\ Move(r, "leaving", "away")
    /\ active' = active - 1
    /\ status' = [status EXCEPT ![r] = None]
    /\ seen' = [seen EXCEPT ![r] = <<>>]
    /\ UNCHANGED <<permits, total, outcomes, silent, metrics>>

(* Faulty: no destructor gives the permit back.                            *)
CancelLeaking(r) ==
    /\ at[r] \in Waiting
    /\ GoTo(r, "leaving")
    /\ silent' = silent + 1
    /\ UNCHANGED <<status, permits, active, total, outcomes, metrics, seen>>

(* Faulty: decrements the gauge by hand only on the way out.               *)
CancelUngauged(r) ==
    /\ at[r] \in Waiting
    /\ GoTo(r, "away")
    /\ permits' = IF at[r] \in Metered THEN permits + 1 ELSE permits
    /\ silent' = silent + 1
    /\ UNCHANGED <<status, active, total, outcomes, metrics, seen>>

(* The request is dropped at an await: the client went away, or the        *)
(* handler unwound.  Inner destructors run first: the permit, the gauge.   *)
Cancel(r) ==
    /\ at[r] \in Waiting
    /\ GoTo(r, "leaving")
    /\ permits' = IF at[r] \in Metered THEN permits + 1 ELSE permits
    /\ silent' = silent + 1
    /\ UNCHANGED <<status, active, total, outcomes, metrics, seen>>

(* The server waits for requests.                                          *)
Idle == (\A r \in Requests : at[r] = "away") /\ UNCHANGED vars

Free(r) == AnswerFree(r) \/ Probe(r) \/ AnswerReadiness(r)
           \/ Scrape(r) \/ Load(r) \/ Report(r)

Gate(r) == \/ RecordRequest(r) \/ AnswerUncounted(r) \/ Refuse(r) \/ RecordChallenge(r)
           \/ Verify(r) \/ RecordRejection(r) \/ RecordVerification(r)
           \/ HandlerFails(r) \/ HandlerSucceeds(r) \/ RecordSettlement(r)

Next == \/ Idle
        \/ \E r \in Requests :
              \/ Enter(r) \/ CountRequest(r) \/ Free(r)
              \/ Acquire(r) \/ Busy(r) \/ LimitRate(r) \/ Gate(r) \/ DropPermit(r)
              \/ RecordOutcome(r) \/ DropGuard(r) \/ Cancel(r)

Spec == Init /\ [][Next]_vars

---------------------------------------------------------------------------
(* Properties.                                                             *)

ServiceTypeOK ==
    /\ at \in [Requests -> {"away", "entered", "routed", "probing", "scraping",
                            "replying", "leaving"} \cup Metered]
    /\ status \in [Requests -> Statuses \cup {None}]
    /\ permits \in 0..MaxConcurrent
    /\ active \in Int
    /\ total \in Nat /\ silent \in Nat
    /\ outcomes \in [Statuses \ {"client_error"} -> Nat]
    /\ metrics \in [{Loads[i] : i \in DOMAIN Loads} -> Nat]
    /\ seen \in [Requests -> Seq(Nat)]

(* Every permit is with the semaphore or with one request below it, also   *)
(* after requests were dropped at an await: the limit neither shrinks nor  *)
(* is exceeded.                                                            *)
SlotsConserved ==
    permits + Cardinality({r \in Requests : at[r] \in Metered}) = MaxConcurrent

(* The gauge is the number of requests that are inside the service.        *)
GaugeExact == active = Cardinality({r \in Requests : at[r] # "away"})

(* The request counters add up: a request counted on the way in is counted *)
(* once on the way out, is among the silent ones, or is still inside.      *)
RequestsAddUp ==
    total = outcomes["success"] + outcomes["challenge"] + outcomes["server_error"] + silent
               + Cardinality({r \in Requests : at[r] \notin {"away", "entered", "leaving"}})

(* Both of the above: the service's own counters tell what it is doing and *)
(* what it did, however requests ended.                                    *)
CountsExact == GaugeExact /\ RequestsAddUp

(* The payment counters are ordered at every instant.                      *)
InOrder(m) == /\ m["settled"] + m["unsettled"] <= m["verified"]
              /\ m["verified"] + m["rejected"] <= m["requests"]

MetricsOrdered == InOrder(metrics)

(* PaymentMetricsSnapshot is a "Point-in-time snapshot": what a scrape     *)
(* reports is ordered as the counters are at every instant.                *)
SnapshotPointInTime ==
    \A r \in Requests : Len(seen[r]) = Len(Loads) =>
        InOrder([c \in DOMAIN metrics |->
                    seen[r][CHOOSE i \in DOMAIN Loads : Loads[i] = c]])
===========================================================================
