# A specification of kite-x402-axum

`kite-x402-axum` is an axum middleware that sells access to HTTP routes: a client pays with a signed
authorization in a header, a remote *facilitator* verifies and settles it on chain. `service` is a reverse
proxy built on it. The modules in this directory model that code in TLA+, TLC checks them on small
instances, and TLAPS proves the properties of the core for every instance.

## The system

| Component | State | Operations | Interacts with |
| --- | --- | --- | --- |
| Payment gate (`middleware.rs`, `x402_payment`) | per request: where it is, its reservation | challenge, reserve, verify, run the handler, settle, answer | guard (call), facilitator (HTTP), handler (`next.run`), metrics (atomics) |
| Replay guard (`nonce_guard.rs`) | one mutex: protected keys, ordered deadlines; handles outside it | `reserve`, `check_and_record`, `retain_on_drop`, `release`, `Drop`, `clear` | gate (RAII handle held across awaits) |
| Facilitator client (`facilitator.rs`) | none between calls | `verify` with bounded retries, `settle` once, `probe` | facilitator and, behind it, the chain |
| Payment metrics (`metrics.rs`) | seven atomics | `record_*`, `snapshot`, `reset` | gate, `/metrics/x402` |
| Rate limiter (`service/src/rate_limit.rs`) | one mutex: token buckets, ordered deadlines | `acquire`, address resolution | service router |
| Service (`service/src/main.rs`) | semaphore, request counters | admission, logging, readiness, shutdown | everything above |
| Circuit breaker (`circuit_breaker.rs`) | one mutex: state, two streaks, instant of the last change | `can_execute`, `record_success`, `record_failure`, `state` | exported by the crate, wired into no route here |
| Idempotency cache (`idempotency.rs`) | one mutex: entries, in progress or completed | `acquire`, `complete`, `release` | the same |
| Settlement ledger (`settlement_ledger.rs`) | one mutex: queue of records, index by transaction, index by payer | `record`, four readers | exported, wired into no route here |
| Webhook dispatcher (`webhook.rs`) | one lock: queue of deliveries, history of finished ones | `enqueue_event`, `record_attempt_result` | the same; the host sends the requests |
| Sliding-window limiter (`sliding_limiter.rs`) | one mutex: instants of admissions per key | `check_and_record`, `reset` | the same |
| Verification cache (`cache_store.rs`) | one mutex: verdicts with a life each | `get`, `insert`, `clear` | the same |
| IP firewall (`firewall.rs`) | one lock: allow rules, deny rules | `allow`, `deny`, `evaluate` | the same |
| Expiration guard (`expiration.rs`) | none; reads the wall clock | `validate_now` | gate (call) |
| Upstream proxy (`proxy.rs`) | none between requests | forward, follow redirects, buffer the answer | gate (it is the protected handler), upstream (HTTP) |
| CORS (`service/src/cors.rs`) | none | preflights, response headers | outermost layer of the service, caches outside it |
| Client addresses (`service/src/rate_limit.rs`) | none | `client_ip` through trusted proxies | rate limiter |
| Prices and chains (`kite.rs`) | none | `kite_chain_by_name`, `parse_price` | start of the service |
| Start of the service (`main.rs`) | none | environment into configuration | everything above |

Ten source files under `kite-x402-axum/src/middleware/` and `telemetry/` are reached by no `mod`
declaration. They are not compiled and not modelled.

What is hard here is what happens between two awaits and between two mutex sections. A request can be
cancelled at any await, and only destructors run then. The clock is read before the mutex is taken, so
instants reach the guard and the limiter out of order. A settlement can succeed while its answer is lost.
`clear()` can pull a reservation from under a live handle. The process can restart with orders still at
the facilitator. `PROJECT.json` lists these hazards at their lines, with the properties that cover them.

What makes each part correct:

- *gate*: nobody is charged for a request the handler did not serve, paid content is not delivered unpaid,
  copies of an authorization do not work side by side, nothing stays reserved without cause, every
  request ends unless its handler never answers;
- *guard*: a pending reservation is untouchable, a retained one lasts its TTL, neither table nor index
  outgrows its bound, refusals are honest, a stale handle is harmless;
- *idempotency cache*: one executor per key while leases last, a completed request is answered and not repeated;
- *circuit breaker*: an exact cool-down, transitions earned by what was recorded, recovery;
- *service*: permits and the gauge come back however a request ends, counters add up;
- *rate limiter*: forgetting idle buckets is invisible to clients, the cache is bounded, refusals and
  `Retry-After` are honest;
- *ledger*: every way to look a record up agrees with the queue, a confirmation is immutable;
- *webhook queue*: a delivery has one place and is attempted a bounded number of times, whatever is reported;
- *sliding window*: no window admits more than its limit, a refused key learns when to come back;
- *verification cache*: only the latest verdict is answered, while its own life lasts;
- *facilitator client*: a settlement is sent once, no transient failure is reported while retries are left;
- *proxy*: the upstream hears what was paid for and no secret, a buyer pays for whole answers only;
- *CORS*: the service itself permits the pages that are listed and no others, through a shared cache too;
- *client addresses*: nobody counts against another one's bucket;
- *firewall*: a denial holds whatever is allowed; *expiration*: saturation never changes a verdict;
  *prices*: exact to the unit; *start*: what runs is what was asked for, and meets what the parts rely on.

## The modules

| Module | What it is |
| --- | --- |
| `ReplayProtection` | abstract: keys are held exclusively, then kept for a TTL |
| `NonceGuard` | `nonce_guard.rs`; implements `ReplayProtection` |
| `NonceGuardProofs` | the theorems about `NonceGuard` |
| `PaymentGate` | `x402_payment` composed with `NonceGuard` and the facilitator; EXTENDS `NonceGuard` |
| `ClientQuota` | abstract: a refilling quota per client, never forgotten |
| `RateLimiter` | `TokenBucketRateLimiter`; implements `ClientQuota` |
| `RateLimiterProofs` | the theorems about `RateLimiter` |
| `PaymentGateProofs` | the theorems about `PaymentGate`; EXTENDS `NonceGuardProofs` |
| `Service`, `ServiceProofs` | `service/src/main.rs` around the gate (logger, routes, semaphore, both sets of counters), and the theorems about it |
| `Idempotency`, `IdempotencyProofs` | `idempotency.rs` with its callers, and the theorems about it |
| `CircuitBreaker`, `CircuitBreakerProofs` | `circuit_breaker.rs` with its callers, and the theorems about it |
| `SettlementLedger` | `settlement_ledger.rs` |
| `Webhook` | `webhook.rs`, with reports of attempts in any order |
| `SlidingWindow` | `sliding_limiter.rs` |
| `VerificationCache` | `cache_store.rs` |
| `StoreProofs` | the theorems about the four modules above, each with its state under one lock |
| `Facilitator` | one call of `facilitator.rs`: verify, settle or probe |
| `Proxy` | `proxy.rs`, one request at a time |
| `Cors` | `service/src/cors.rs` behind a shared cache |
| `ForwardedClient` | `client_ip` and `TrustedProxies` of `service/src/rate_limit.rs`, with the proxies in front |
| `Bits` | the bits of a number, for the two modules about addresses |
| `Firewall` | `firewall.rs` |
| `Expiration` | `expiration.rs` as the gate asks it |
| `Price` | `parse_price` and `kite_chain_by_name` of `kite.rs` |
| `Startup` | how `main` of the service turns its environment into a configuration |
| `RequestProofs` | the theorems about the eight modules from `Facilitator` to `Startup` |
| `MCNonceGuard`, `MCPaymentGate`, `MCRateLimiter`, `MCService`, `MCIdempotency`, `MCCircuitBreaker`, `MCSettlementLedger` | instances for TLC |
| `MCParts` | one instance of the twelve modules from `SettlementLedger` to `Startup` |

### NonceGuard

`entries` and `expirations` are the fields of `NonceStore`; a generation stands for the address of the
`Arc<()>` an admission allocates, reusable once neither the table nor a handle refers to it (a stricter
reading, never reusing it, would hide mistakes of `Arc::ptr_eq`). A caller's `call`, `key`, `stamp`,
`generation` and `retain` are the locals and the handle of one thread. Each section that holds the mutex
is one action: `Admit`, `ReplayDetected` and `CapacityExceeded` are the three ways `reserve_key` ends,
sweep included; `Drop`, `Release` and `Record` are the destructor after the paths that lead to it. Reading
the clock (`CallReserve`, `CallCheckAndRecord`) is an action before them, because the code reads it
before it locks. `MaxInstant` is the last representable `Instant`; a deadline past it is never indexed, as
in the code. `authorization_key` is abstracted: two payloads are the same member of `Keys` exactly when
it maps them to the same string. Two history variables say what was promised: `until[k]`, the instant up
to which `k` must be kept, and `orphaned`, the handles a `clear()` has cut off.

### PaymentGate

Each element of `Ops` is a request that runs the gate once. An action runs from one await, or mutex, to the
next, with every metric and every destructor on the way: `Present` up to the guard, `Reserved` up to
`verify().await`, `Verified` up to `next.run(req).await`, `HandlerSucceeds` up to `settle().await`. `Abandon`
drops the future at an await. `Execute` and `Refuse` are the facilitator and the chain: they act on an order
whenever they like, also after the gate stopped waiting or the process crashed; the chain accepts an
authorization once. `SettleUnavailable` is any unusable answer and may follow an execution. `Crash` empties what
lives in memory. Whether a price parses, a header decodes, a window has expired or a verification succeeds is a
choice, because the properties do not depend on the data. The handler has no state of its own: its status is
below 400 (`ok`) or not (`error`), and it may take for ever (`Handler` is not among the steps that
`FairGateSpec` makes happen). `guarded` tells whether `PaymentConfig.nonce_guard` is set, which it is not by
default; `GuardModes` are the values to check. `quarantine[k]` is a history variable: until when `k` may not be
served again.

### RateLimiter

Tokens are counted in instants of refill, so that one instant restores one unit and a request costs `Cost`
units (`1 / rps`); the arithmetic is then integer and exact, where the code's is `f64`. `Second` instants
make a second, the unit the code rounds its delays up to. `acquire` is one mutex section and so one
action per answer, sweep included: `Granted`, `QuotaExceeded`, `CapacityExceeded`. `Arrive` is the
middleware reading the clock. `MaxLag` bounds how long a request may wait for the mutex after that; it is
an assumption about the scheduler, not a guarantee of the code, and the runs vary it. Two history
variables, `retryAt` and `spent`, record what clients were told and granted.

`ClientQuota` has no cache. Its state forgets a bucket by definition once it is full at every instant a
caller can still hold (`Rest`); the refinement maps a cached bucket to the same state, so an eviction must be a
stutter. It is one exactly when the bucket it reclaims was full for every instant that can still arrive.

### Service

Each element of `Requests` is a connection with one request at a time. Every atomic increment, every load
of a scrape, every permit taken or dropped is an action, because another request can come between any two
of them. `Cancel` drops a request at one of its awaits (`Waiting`): the permit, if there is one, and then the
gauge's guard are given back by destructors, and no outcome is counted. The gate is reduced to the order in
which it moves `PaymentMetrics`; `AnswerUncounted` is each of its answers that moves none. Of a
scrape, the six counters are loaded; `total_settlement_latency_ms`, a sum nothing is compared with, is left out, as is
`reset`, which the service never calls. The CORS layer is outside the logger and never reaches it with a
preflight, so preflights are not requests here. `silent` is a history variable: requests no outcome tells of.

### Idempotency

Each method is one section of the mutex with its instant sampled inside, and so one action per outcome;
`Acquire` includes the clean-up at the limit. The repository has no caller: the model's callers do what the
documentation of the methods says, and may take any time, complete or release after their lease has been
given to another, or vanish. Time is the age of each entry, counted up to `Horizon`, the largest age that is
compared with anything. The history variables are the age of each lease, the last completion of each key,
and the keys for which a lease outlived the timeout. The code bounds the table only as far as expired entries
allow: `max_entries`, "Maximum number of cached keys retained in memory" (`idempotency.rs:15`), is exceeded
when every entry is fresh, and `OvershootOnlyFresh` states exactly that.

### CircuitBreaker

`state`, the two streaks and `elapsed` are the fields of `Inner`, with the instant of the last change as the
time since. A caller asks, calls, is answered and records, each a step of its own, because outcomes are recorded
in whatever state they find. `state()` is `Observe`: the getter also moves to half-open. `CountLimit` stops
counters that the code lets grow, at a value past every threshold. The history variables are the time since the
last trip and the last `HistoryLength` recorded outcomes. The half-open state admits every caller, although
`circuit_breaker.rs:30` speaks of "a limited number of requests"; the model follows the code. The reset of the
successes on the way to half-open is redundant: every trip has reset them already (`TypeOK`).

### SettlementLedger

`ledger` is `Inner`; `record` is one mutex section and one action, `Record`: it returns on a confirmed
transaction, and otherwise supersedes, evicts and inserts, each with its effect on the two indexes. A record
without a transaction hash has no entry in the index by transaction. A payer is an account in a spelling,
because the code fills and looks up the index by payer under `to_lowercase` and prunes it under
`to_ascii_lowercase`: `ToLower` folds every spelling, `ToAsciiLower` leaves a letter outside ASCII alone.
The readers are operators, and `LookupsAgree` compares each with the queue.

### Webhook

The dispatcher sends nothing: whoever holds an id attempts the delivery and reports. So `record_attempt_result`
may happen at any time, late, twice, in any order, for any id; for one that is not queued it does nothing, as in the code.
The number of ids is bounded (`MaxDeliveries`); the payload and the settings that the code never reads are left out.

### SlidingWindow

The clock is read under the mutex, so a call is one action: `Admit`, `Refuse`, or `Panic`, the
`unwrap` of an empty queue at a limit of zero, which also poisons the mutex. `Epochs` are instants at which
the process starts: one before `Window` makes `checked_sub` fail. `granted` and `refused` are history variables.

### VerificationCache

`get`, `insert` and `clear` under a running clock; a `get` removes what it finds expired. The history
variable `proof` is the latest verdict of a signature and until when it may be relied on. Nothing in the
code bounds the map.

### Facilitator

One call, from the first request to the result: `Reply` is whatever comes back of a request (an answer, a
connection that failed, a timeout, a status, a body that does not parse), `Wake` the end of a
backoff, `ProbeReply` the answer of `/supported`. The backoff doubles with a saturating power and a
saturating product, then a cap. `PaymentGate` composes the same loop with the rest of a request, where the length of a
backoff does not matter; here it does.

### Proxy

One request: `RefusePath`, `RefuseBody` and `Forward` are the handler before it sends, `FollowRedirect` and
`TooManyRedirects` the policy given to the HTTP client, `BufferChunk`, `ResponseTooLarge`, `ResponseEnds` and
`ResponseCut` the bounded buffer. A path is a sequence of segments, a header its name. `nested` says that
`Router::nest` has taken the prefix already. A request is "received" until its body has arrived, however long
the buyer takes: `to_bytes` (`proxy.rs:216`) bounds its size and not its time. `produced` and `whole` are
history variables: what the upstream really sent.

### Cors

`CORS_ORIGIN` is one of the three configurations it can parse to. The cache that several browsers share is
outside the repository: it keeps a response and reuses it as `Vary` allows (`FromCache`); the middleware decides
what it gets to keep. Origins differ by site and by a trailing slash. What the routes answer (`Inner`) may carry
a `Vary` header and an `Access-Control-Allow-Origin` of its own, since `proxy.rs:323` hands on the upstream's
headers. The middleware replaces that permission by its own for a listed page and leaves it as it is for any
other (`Respond`): `CachedAnswersFit` says what the service adds to the permission of the route (`own`, a
history variable), and takes from it.

### ForwardedClient

A request leaves its client with headers of the client's choice, passes trusted proxies and is judged. The proxies
(`Append_XFF`, `Set_RealIp`) are outside the repository and do what such proxies do: append the address they were
called from, on the last line or a new one, or replace the header by `X-Real-IP`. `client_ip` is the walk
of the code, nearest hop first. Addresses have `Width` bits, and IPv4-mapped ones `MappedBits` more.

### Firewall, Expiration, Price, Startup

`Firewall` adds rules in any order and evaluates every address against the blocks promised so far (`shut`,
`let_in`, bit by bit, where the code masks); `Bits` is the bit both look at. `Expiration` asks about one
authorization again and again on a saturating clock that ends at `MaxSeconds`. `Price` does the string
arithmetic of `parse_price` character by character. `Denoted` is what it is compared with: for each way to read
an amount in a text (`Readings`: where its digits begin, where its point is, where they end), the value of those
digits (`ValueOf`) times the power of ten the decimals ask for. `Startup` reads each setting from inside, at and
beyond its bounds, absent, not parsable or not Unicode, two at a time, and states what the configuration
guarantees to the other modules (`PartsSound`) and to whoever wrote the environment (`RunsAsAsked`). A setting
that is not Unicode counts as absent (`env_or`), except the size of the replay cache, which then refuses the
start.

## The runs

| Run | Bounds | Shows |
| --- | --- | --- |
| `guard` | 3 keys, 2 callers, 4 generations, capacity 2, TTL 1, sweep of 1, 4 instants | all properties of the guard |
| `gate` | 3 requests, 2 authorizations, capacity 2, 1 retry, 1 crash, 3 instants, with and without the guard | charging and delivery in both configurations; exclusion, leaks and replay with the guard |
| `gate_live` | 2 requests, 2 authorizations, capacity 1, 1 retry, 1 crash, 3 instants | every request ends, or waits for its handler |
| `gate_challenges` | 2 requests | **violated**: a challenge is not counted |
| `rate` | 3 clients, 2 requests, 2 buckets, cost 3, burst 4, idle timeout 5, lag 1, sweep of 1, 8 instants | the limiter implements `ClientQuota`; its bounds |
| `rate_reset` | 2 clients, 2 requests, cost 1, burst 2, idle timeout 2, lag 1, 5 instants | **violated**: a quota is reset early |
| `service` | 3 connections, 4 requests, 2 permits | permits and gauge come back, counters add up |
| `service_snapshot` | 2 connections, 1 permit | **violated**: a scrape is not a point in time |
| `idempotency` | 2 keys, 3 callers, 2 responses, room for 1 entry, lease 2, TTL 3 | one executor, no repetition, the limit |
| `breaker` | 3 callers, 3 failures to open, 2 successes to close, cool-down 2 | cool-down, transitions, recovery |
| `parts` | see below | the twelve modules that share no state |
| `ledger_payers` | 1 account in two spellings, 2 records | **violated**: a payer's replaced record is still listed |

The twelve modules of `parts` neither share state nor call one another in the code; the ones a
request passes are composed in `PaymentGate` and `Service` by what they may answer. `MCParts` therefore explores them
side by side in one run: `exercised` names the part a behaviour moves, the others stay in one initial state, and
the invariants of all are checked everywhere. That product adds no interleaving and hides none.

Why the bounds are enough for the interesting cases. *guard*: three keys exceed the capacity of two; two
overdue keys exceed the sweep of one; two callers suffer for a stale instant, a race for one key and a handle
that `clear()` orphaned while the other caller replaces its entry; four generations are the two of the table
and the two of the handles, so no admission is refused for lack of an address; with four instants a key is
retained, expires, is reserved again and retained past the end of time. *gate*: two copies of an
authorization and a third request beside them, one retry so that the backoff is entered and left, three
instants so that a retained authorization expires and is served again. *rate*: a third client finds the
cache full, one of two due buckets is left behind by a sweep, a delay is rounded up (two instants to a second), a
bucket that holds one request and a third refills while a request waits, and the last instant makes deadlines
unrepresentable. *service*: three requests for two permits, one of them refused and a fourth on a connection that
was used before. *idempotency*: two callers contend for a key while the third needs the only slot for the other; leases
and responses expire at different ages. *breaker*: three calls outlive a transition, so that a late failure
meets an open or half-open circuit and a trial of two is interrupted.

*parts*, in the order of the modules:

| Part | Bounds in `MCParts.cfg` | Cases they reach |
| --- | --- | --- |
| ledger | 2 networks, 1 hash, 2 accounts in two spellings, 3 records | a failure replaced in the middle of a full queue, the head evicted, one hash on two networks |
| webhook | 2 targets, 1 retry, queues of 0, 1 and 3, 6 ids | an event larger than the queue, a retry pushed out, reports for ids that are gone |
| window | 2 keys, limits 0 to 2, window 2, 6 instants from 0 or 2 | instants exactly a window old, a clock younger than a window, the panic |
| cache | 2 signatures, lives 0, 1 and 2, 5 instants | a longer life replaced by a shorter one |
| facilitator | 0, 1 and 4 retries, factor up to 4, durations up to 10, cap 7 | factor, product and cap each saturate |
| proxy | paths of 2 segments, 4 headers, 2 hosts, 2 ports, redirects up to the third URL, 2 bytes in chunks of up to 3 | `/v1/v1`, a credential of the buyer's, a chain of two hops (`UpstreamIsolated` proves any length), a body that exceeds its limit |
| cors | 2 sites with and without a slash | a page that is listed, one that is not, none at all, each served for another, behind an upstream that permits nobody, everybody or one of them |
| client | addresses of 2 bits and 2 mapped ones, 1 trusted network, 2 proxies, 1 forged hop | every prefix; a client that claims a trusted address; two lines |
| firewall | addresses of 2 bits in two families, 3 rules | overlapping blocks, both lists in any order, a prefix beyond the width |
| expiration | seconds 0 to 4, drift 0 or 2, minimum 0 to 2 | saturation at both ends |
| price | texts of 4 characters out of six, 1 or 2 decimals | every shape of sign, blank, dollar, point and zero |
| startup | 13 settings, two of them set | every bound, from both sides; absent, not a number, not Unicode |

Their arithmetic is bounded by constants (`MaxSeconds`, `Width`, `MaxFactor`), so that the last value of a
type is reached as soon as an ordinary one.

Symmetry is used for keys, requests, clients, callers, responses and generations in runs without liveness
properties (and not in `parts`, whose state is small): no definition orders them. Deadlock is checked in every
run: the server can always do something, if only wait (`Quiet`); a part that is done stutters (`Proxied`,
`CallOver`, `Started`, ...).

Fairness is assumed in `gate_live` and `breaker`. In `gate_live` it is weak fairness of a request's own progress
in the gate, `Progress`: the runtime polls a ready request, the facilitator client has a timeout
(`FacilitatorClient::with_timeout`), the backoff is a bounded sleep, and a mutex section is finite. It does not
include the handler, because nothing bounds it. The gate awaits `next.run` without a timeout, `main.rs` adds no
timeout layer, and the service's own handler awaits the whole request body first (`proxy.rs:216`), at the
buyer's pace; `UPSTREAM_TIMEOUT_MS` bounds only what comes after. A buyer that never finishes its body keeps its
request, its permit and its reservation until its connection goes. `EveryRequestEnds` therefore says that a
request ends or stays in its handler, and nothing else can keep it. In `breaker`, `FairSpec` assumes that time
passes, that callers keep asking and record what they were answered (weak fairness), and that not every call is
dropped before its answer (strong fairness of `Answer`, since a caller may be dropped again and again). These
are assumptions about the breaker's callers; the code moves to half-open only when asked, so without demand it
would rest open. In `gate_live` no fairness is assumed of clients, of the clock, of the facilitator's execution
of orders, or against crashes.

Definitions marked *Faulty* are plausible slips in the definition after them. They take part in no
specification; `PROJECT.json` names, for each property, the one that breaks it.

## What disagrees with the documentation

- `gate_challenges`: when the expiration guard rejects an authorization, the gate answers the 402 challenge
  but does not call `record_challenge`, so `challenges_total` is not the total that `metrics.rs:29` says.
- `service_snapshot`: `PaymentMetrics::snapshot` is called a "point-in-time snapshot", but loads its counters one
  by one: a scrape can report a verification or settlement of a request it has not counted.
- `ledger_payers`: `find_by_payer` "Returns all records for a given payer address"
  (`settlement_ledger.rs:152`), of those retained. `record` files a record under `to_lowercase` (line 119), but
  `remove_indexes` prunes it under `to_ascii_lowercase` (line 60): for a payer with a capital outside ASCII a
  record that was replaced or evicted stays in the index. For ASCII spellings, and so for addresses in
  hexadecimal, the index is exact (`LookupsAgree`).
- `rate_reset`: the README's "a short timeout cannot reset a low-rate quota early" does not hold for a
  request that waits for the mutex while another one, with a later instant, reclaims its client's bucket: it
  creates a full bucket dated before the old one had refilled. The excess is at most what refills during
  that wait. `QuotaSafe` proves that it takes both a wait and an idle timeout shorter than
  a refill plus that wait; the service's default timeout of 300 seconds is far from it for common quotas.

Smaller differences, which no property turns on, are noted with the hazards of `PROJECT.json`:

- an upstream that answers `Access-Control-Allow-Origin: *` permits every page on the metered routes, whatever
  `CORS_ORIGIN` lists, since the proxy hands that header on and the middleware never removes one (`cors.rs:149`); the
  test that denied origins get none (`cors.rs:212`) has a route that sets none;
- "All settings are validated at startup" (README.md:51, of the rate limiter), but `env_or` (`main.rs:651`) takes a
  value that is not Unicode for an absent one: such a `RATE_LIMIT_RPS` starts the service without a limiter. A clock
  drift that does not parse is dropped in silence too (`main.rs:191`); of that the documentation says nothing;
- allow rules do not take precedence over deny rules (`firewall.rs:67`; code, tests and `DenialsHold` agree on the contrary);
- the tolerance at the end of an authorization's window is dead code (`expiration.rs:99`);
- a redirect that upgrades to https may change the port (`proxy.rs:120`);
- with `CORS_ORIGIN=*` answers do not vary with the origin, so a cache may deny what is allowed (`cors.rs:143`);
- the half-open state admits every caller (`circuit_breaker.rs:30`).

## What is proved

`NonceGuardProofs` proves, for all finite `Keys`, all `Ops` and `Generations`, and every `Capacity`,
`Ttl`, `SweepLimit` (positive) and `MaxInstant` (`GuardAssumption`), the properties run `guard` checks.

The properties alone are not inductive. `IInv` adds: where a caller is decides what it carries (`CallerShape`);
a generation belongs to one handle, and the entry that carries it is that handle's and not an orphan's
(`GenerationsUnique`); and every protected key is pending, or indexed under exactly the instant it was promised,
or promised forever (`PromiseIndexed`). Without the second, the identity test in `Drop` could pass for a
stranger; without the third, a sweep could take a key before its time. `InvariantHolds` is `Init => IInv` and
one lemma per action for `IInv /\ [Next]_vars => IInv'`. From it follow `TypeCorrect`, `PendingSafe` and
`RetentionSafe` directly; `CapacitySafe`, and with it `TableIsSound`, by counting what an admission leaves in
the table; `FullIsHonest` and `ReplayIsHonest` because a sweep takes a due entry if there is one, and because
what it leaves in the table is owned or promised; `OrphansAreHarmless` because the entry of an orphan's key
cannot carry its generation; and `GuardImplementsPromise` by mapping each mutex section to one abstract step,
where an admission needs the invariant to show that a free table entry means an unprotected key.

`RateLimiterProofs` proves, for all finite `Clients`, all `Ops`, and every quota, timeout, cache and sweep
size that the constructor accepts (`RateAssumption`), the properties run `rate` checks.
Its `IInv` adds to the type and to `IndexExact`: a waiting request has a client and an instant at most `MaxLag`
old (`RequestShape`); a cached bucket was judged in the past, was left less than full and expires when
`Expiry` says (`BucketsJudged`); and a client that was told when to come back will have a token then
(`RetryKept`). `Invariance` has one lemma per action; `SaveFacts`, `MovedIndex` and `KeptFacts` say once
what the sweep and the save do to the cache and its index. `CacheSafe` counts, `FullIsHonest` shows that a
sweep that made no room found nothing due, and `RetryIsHonest` that a bucket created anew is full and a
kept one has refilled by the announced instant.

`QuotaSafe` and `LimiterImplementsQuota` need one hypothesis, `Patient`: requests do not wait for the mutex
(`MaxLag = 0`), or the idle timeout is at least a refill plus that wait. `ReclaimedFull` shows that a bucket
is then reclaimed only when it is full at every instant a request can still carry. `QuotaKept`, inductive
together with `IInv`, bounds what a client was granted by its bucket, or by the time since if the bucket is gone;
the refinement maps each action to one step of `ClientQuota`, where `JudgedOwed` shows that the limiter and
`ClientQuota` judge alike. Without the hypothesis the result is false: that is run `rate_reset`.

`IdempotencyProofs` proves run `idempotency`'s properties for all finite `Keys`, all `Callers` and `Responses`, and
every TTL, timeout and limit, zero included. `IInv` adds that until a lease for a key outlives the timeout the entry
is its executor's lease, of the same age (`LeaseHeld`), and that an entry is completed whenever the last
completion is younger than the TTL, with its age and response (`ResponseKept`). `CompletedOnceSafe` needs no
assumption on how long callers take.

`CircuitBreakerProofs` proves `breaker`'s safety properties for any `Callers`, thresholds and timeout. `IInv`
adds that while the circuit is open its last change is its last trip, and that otherwise the cool-down is over
(`CoolDownTold`), and that the counters are the streaks at the end of the history (`StreaksTold`);
`NotedEnds` is the lemma on sequences that extends a streak by one outcome.

`PaymentGateProofs` proves the safety properties of run `gate` for all requests, keys, retries, crashes and both
configurations. Its `GInv` is the conjunction of the guard's `IInv`, the type, and three facts. `Tries` bounds the
retries. `Exchange` follows an order from the handler's success to the chain, without looking at the guard:
`ExchangeFair` follows from it in either configuration. `Coupled`, with a guard, ties where a request is to the
handle it has (`Handles`) and the gate's `quarantine` to the guard's `until`. `GateUsesGuard` shows that the gate uses
the guard as any caller may, but for crashes, so that `IInv` is kept by the lemmas of `NonceGuardProofs`
and `CrashIInv`. Then copies at work would be two holders of one key (`CopiesExclude`), a table entry at rest is a
promise (`NoLeaks`), and whoever starts the handler holds a key that is not quarantined (`NoReplay`).

`ServiceProofs` proves run `service`'s invariants for any number of connections, permits and requests. Each says
that a counter equals a number of requests in certain places; `MoveCounts` is the one lemma on cardinalities,
what a move does to such a number, and `CountsKept` the five sums it keeps. `Told` adds that whoever is about to
be counted has a status.

### StoreProofs

For the four stores behind one lock each, whatever the calls and their order.

*Sliding window*, for any limits, window and start of the clock (`WindowAssumption`). `WindowIInv` says of each key
that the queue is the end of what was granted, and what is no longer in it is older than the window (`Remembered`);
that grants are in the order of their instants (`InOrder`); that a grant and the one a limit later are more than a
window apart (`Spaced`); and that a hint still names the oldest request of the queue (`Hinted`). `QuotaOfAnyWindow` is
`Spaced` read for any span: one request too many in a span would be two grants a limit apart inside it.
`RefusalsHelp` follows from `Hinted` and from what a sweep pops (`PopStale`). Both have the exception the
code has: with a clock younger than the window nothing is popped.

*Webhook queue*, for any number of targets and retries and any queue size. `Sound`, a conjunction about one state of
the dispatcher, holds between two calls and between two deliveries of one event: ids are below the next one and
distinct across queue and history, what waits has attempts left, what is over has a reason, and neither queue outgrows
its bound. `DeliveriesLeaveForCause` is an action property: after the case split, it needs that an event's deliveries push
out a front part of the queue and nothing else (`QueueForGiven`, and `EnqueuedSound` by induction on the targets).

*Settlement ledger*, for any networks, hashes, accounts and capacity. `Indexed` says what the two indexes are: the
records of the queue under a transaction are the one the index names, or none; and the records of one account, in
spellings that both foldings of the code agree on, are the same sequence in its list and in the queue. `Those` is that
filter, and `ThoseRemoved`, `ThoseAppended` and `ThoseHeld` are the theory of subsequences the proof needs;
`SummaryCounts` relates the fold of `summary` to the records it counts. Each of the three sections of `record`
keeps `Indexed` on its own. The restriction to ASCII is not a convenience: without it the
property is false, which is run `ledger_payers`.

*Verification cache*: `CInv` says that an entry is the latest verdict, stored until the same instant.

### RequestProofs

For what decides one request or one call.

*Facilitator call*, for any settings. `FacilitatorIInv` ties the number of attempts to the replies and the delays so
far. `BackoffGrows` shows that the backoffs never shrink although the power, the product and the cap saturate at
different attempts.

*Proxy*, for any headers, hosts and limits: `ProxyInv` says what was sent, that each hop may follow from every earlier
one (`Upgrades`), and that the buffer holds what was produced. *CORS*, for any sites and configuration: `CorsInv` says
that what the shared cache holds was an answer to somebody. `AnswersFit` holds whatever the routes permit by themselves.

*Addresses*, for every width. `MatchesBlock` shows that comparing masked numbers, as the code does, is
membership in the block of addresses with the same leading bits (`SamePrefix`, `SameMasked`), and `FirewallIInv`
that `shut` and `let_in` are the blocks of the rules so far. For `client_ip`, `ForwardedIInv` says that, for a
client outside the trusted networks, the walk over the hops received so far ends at its own address, or at an
error when the client sent something illegible. It is inductive because appending a hop extends the walk by its
start (`LineAppend`, `LinesAppend`): a forged entry is always further away than the address the first proxy
wrote.

*Expiration*: the saturating arithmetic decides as unbounded integers do (`Saturation`, `Verdicts`), for any last
second, drift and minimum, and a verdict only moves on.

*Prices*, for any alphabet, length and decimals. `DenotesCore` shows that a text has at most one reading, namely what
is left when blanks and the dollar sign are stripped; `ValueScaled` that zeros at the end multiply by powers
of ten; `ValueTrimmed` that zeros at the start change nothing; `UnitsWorth` puts them together. `PriceIInv` says
that the price, once set, is what the text and the network make it. An unknown network stops the start, while a price
that does not parse is answered with an error at each request (`middleware.rs:204`, `Misconfigured` in `PaymentGate`).

*Start*: `ServiceStartsSafely` ranges over every environment of integers, blank, unparsable and illegible settings at
once, where run `parts` sets two at a time. It has a part for what the constructors take without a check
(`ConfiguredSound`) and one for what was asked for (`ConfiguredAsAsked`).

### Assumptions and technique

The theorems rest on the named assumptions on the constants (`GuardAssumption`, `WindowAssumption`, ...) and nothing
else: sizes and durations are naturals, as their types in the code make them, and the markers for "none" are no values.
Where a theorem needs more (`Patient`), it says so as a hypothesis.

The library's induction theorems take an operator and cannot be used here. Where a proof needs induction, over the
length of a sequence or the number of bits, it defines the *set* of the numbers for which the claim holds and
cites `NatSet`: a set of naturals with 0 and the successor of each member is `Nat`. That is proved from the
well-foundedness of `<` (`WFMin`). What a recursive function computes is unfolded with `NatInductiveDef` or,
for the folds of the community modules, from their definitions. No module declares a RECURSIVE operator.

### Model-checked only

Every invariant and every action property of the runs is proved. The liveness properties `Recovers` (`breaker`) and
`EveryRequestEnds` (`gate_live`) are only model-checked: liveness under fairness and ENABLED are beyond
the prover.

## Not modelled

- `cors_guard.rs`, a list of origins nothing uses; security headers, fixed values without state.
- Base64, JSON and HTTP encodings: library code. In the gate, whether a header decodes is a choice.
- In `Service`: request ids, log lines, graceful shutdown, the sum of latencies and `reset`. In `Startup`:
  whether `PAY_TO` and `UPSTREAM_URL` are present and well formed, and texts in general.
- Readers that decide nothing: `len`, `is_empty`, `Debug`, the snapshot of the circuit breaker and the retry hint it
  truncates to seconds.
- A bound on the time a handler may take: the code has none, see fairness above.
- Memory of the sliding window and of the verification cache: the code bounds neither map, so there is no bound to check.
- The ten source files that no `mod` declaration reaches.

## The plan

The safety properties are modelled, checked and proved. What could follow:

1. The reading lemmas of `PriceIsExact` and the walk lemmas of `ClientsOwnBucket` share a theory of segments of sequences;
   stated once, it would shorten both.
2. `Recovers` reduced to a chain of leads-to steps, each with the action that must happen, so that a reader can
   follow it without the prover.
