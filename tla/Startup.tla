------------------------------ MODULE Startup ------------------------------
(***************************************************************************)
(* How main of the service, service/src/main.rs, turns its environment     *)
(* into the parameters of the other modules, or does not start.  The       *)
(* environment may hold any value of a setting; a rate and a burst are in  *)
(* halves of a request.  Prices, networks and proxies are read in Price    *)
(* and ForwardedClient.                                                    *)
(***************************************************************************)
EXTENDS Integers

CONSTANTS Blank,      \* a setting that is absent, empty or all blanks
          Unparsable, \* a setting that does not parse, a number that is not finite
          Illegible,  \* a setting whose bytes are not Unicode
          Off

ASSUME StartupAssumption ==
    /\ Blank \notin Int /\ Unparsable \notin Int /\ Illegible \notin Int
    /\ Blank # Unparsable /\ Blank # Illegible /\ Unparsable # Illegible
    /\ Off \notin [rps : Nat, burst : Nat, max_clients : Nat, idle_timeout : Nat]
    /\ Off \notin [drift : Nat, minimum : Nat] \cup [capacity : Nat, retention : Nat]

VARIABLES environ,
          outcome,  \* "starting", "refused" or "serving"
          config    \* what the service runs with

starting == <<environ, outcome, config>>

Bounds(lo, default, hi) == [lo |-> lo, default |-> default, hi |-> hi]

(* Settings that are numbers within bounds.                                *)
Bounded == [PORT           |-> Bounds(0, 8402, 65535),
            MAX_CLIENTS    |-> Bounds(1, 10000, 1000000),
            IDLE_TIMEOUT   |-> Bounds(1, 300, 86400),
            UPSTREAM_MS    |-> Bounds(100, 10000, 300000),
            FACILITATOR_MS |-> Bounds(100, 30000, 300000),
            MAX_CONCURRENT |-> Bounds(1, 64, 10000),
            SETTLE_RETRIES |-> Bounds(0, 0, 0),
            BACKOFF_MS     |-> Bounds(1, 150, 3000),
            VERIFY_RETRIES |-> Bounds(0, 0, 5)]

Settings == DOMAIN Bounded \cup {"RPS", "BURST", "CLOCK_DRIFT", "REPLAY_CACHE"}

Offered(s) ==
    {Blank, Unparsable, Illegible} \cup
    CASE s \in DOMAIN Bounded       -> {Bounded[s].lo - 1, Bounded[s].lo,
                                        Bounded[s].hi, Bounded[s].hi + 1}
      [] s \in {"RPS", "BURST"}     -> {-1, 0, 1, 5}
      [] s = "CLOCK_DRIFT"          -> {-1, 0, 30}
      [] s = "REPLAY_CACHE"         -> {0, 1, 1000000, 1000001}

Environments == [Settings -> Int \cup {Blank, Unparsable, Illegible}]

Starting == outcome = "starting" /\ config = Off

(* Two settings inside, at or beyond their bounds, for TLC.                *)
StartupInit ==
    /\ \E s, t \in Settings : \E v \in Offered(s), w \in Offered(t) :
          environ = [[u \in Settings |-> Blank] EXCEPT ![s] = v, ![t] = w]
    /\ Starting

Within(n, lo, hi) == n \notin {Unparsable, Illegible} /\ n >= lo /\ n <= hi

(* What is not Unicode counts as absent.                                   *)
env_or(s, fallback) == IF environ[s] \in {Blank, Illegible} THEN fallback ELSE environ[s]

Setting(s) == env_or(s, Bounded[s].default)

rate_limit_rps   == env_or("RPS", 0)
rate_limit_burst == env_or("BURST", rate_limit_rps)

NotNegative(n) == n # Unparsable /\ n >= 0

DriftGiven ==
    environ["CLOCK_DRIFT"] \notin {Blank, Unparsable, Illegible} /\ environ["CLOCK_DRIFT"] >= 0

(* Faulty: settlements may be repeated like verifications.                 *)
AcceptedAnyRetries ==
    /\ \A s \in DOMAIN Bounded \ {"SETTLE_RETRIES"} :
          Within(Setting(s), Bounded[s].lo, Bounded[s].hi)
    /\ NotNegative(Setting("SETTLE_RETRIES"))
    /\ NotNegative(rate_limit_rps) /\ NotNegative(rate_limit_burst)
    /\ environ["REPLAY_CACHE"] = Blank \/ Within(environ["REPLAY_CACHE"], 1, 1000000)

Accepted ==
    /\ \A s \in DOMAIN Bounded : Within(Setting(s), Bounded[s].lo, Bounded[s].hi)
    /\ NotNegative(rate_limit_rps) /\ NotNegative(rate_limit_burst)
    /\ environ["REPLAY_CACHE"] = Blank \/ Within(environ["REPLAY_CACHE"], 1, 1000000)

(* No limiter at a rate of zero; a burst below one request is raised to    *)
(* one; a drift that does not parse is no drift; the replay cache alone    *)
(* takes nothing but a number or a blank.                                  *)
Configured ==
    [limiter      |-> IF rate_limit_rps = 0 THEN Off
                      ELSE [rps |-> rate_limit_rps,
                            burst |-> IF rate_limit_burst < 2 THEN 2 ELSE rate_limit_burst,
                            max_clients |-> Setting("MAX_CLIENTS"),
                            idle_timeout |-> Setting("IDLE_TIMEOUT")],
     retry        |-> [max_retries |-> Setting("VERIFY_RETRIES"),
                       initial_ms |-> Setting("BACKOFF_MS"), max_ms |-> 3000],
     settle       |-> Setting("SETTLE_RETRIES"),
     timeouts     |-> [upstream |-> Setting("UPSTREAM_MS"),
                       facilitator |-> Setting("FACILITATOR_MS")],
     slots        |-> Setting("MAX_CONCURRENT"),
     expiration   |-> IF ~DriftGiven THEN Off
                      ELSE [drift |-> environ["CLOCK_DRIFT"], minimum |-> 5],
     replay       |-> IF environ["REPLAY_CACHE"] = Blank THEN Off
                      ELSE [capacity |-> environ["REPLAY_CACHE"], retention |-> 3600]]

Start ==
    /\ outcome = "starting"
    /\ IF Accepted THEN outcome' = "serving" /\ config' = Configured
                   ELSE outcome' = "refused" /\ UNCHANGED config
    /\ UNCHANGED environ

Started == outcome # "starting" /\ UNCHANGED starting

StartupNext == Start \/ Started

StartupSpec == environ \in Environments /\ Starting /\ [][StartupNext]_starting

---------------------------------------------------------------------------
Legible(s) == environ[s] \notin {Blank, Illegible}

(* What the constructors of the parts take without a check.                *)
PartsSound ==
    /\ config.slots >= 1
    /\ config.retry.initial_ms <= config.retry.max_ms
    /\ config.limiter # Off =>
          /\ config.limiter.rps > 0 /\ config.limiter.burst >= 2
          /\ config.limiter.max_clients >= 1 /\ config.limiter.idle_timeout >= 1
    /\ config.replay # Off => config.replay.capacity >= 1

(* The protections that were asked for are those that run, to the figure;  *)
(* a burst below one request is raised to one.                             *)
RunsAsAsked ==
    /\ \A s \in Settings \ {"CLOCK_DRIFT"} : environ[s] # Unparsable
    /\ config.settle = 0
    /\ Legible("MAX_CONCURRENT") => config.slots = environ["MAX_CONCURRENT"]
    /\ config.limiter # Off <=> Legible("RPS") /\ environ["RPS"] # 0
    /\ config.limiter # Off =>
          /\ config.limiter.rps = environ["RPS"]
          /\ LET asked == IF Legible("BURST") THEN environ["BURST"] ELSE environ["RPS"]
             IN  config.limiter.burst = IF asked < 2 THEN 2 ELSE asked
    /\ config.replay # Off <=> environ["REPLAY_CACHE"] # Blank
    /\ config.replay # Off => config.replay.capacity = environ["REPLAY_CACHE"]
    /\ config.expiration # Off <=> environ["CLOCK_DRIFT"] \in Nat
    /\ config.expiration # Off => config.expiration.drift = environ["CLOCK_DRIFT"]

(* The service starts on defaults.  A service that starts can be built of  *)
(* its settings, whatever their combination, never repeats a settlement,   *)
(* and runs its rate, burst, slots, replay cache and clock drift as they   *)
(* were asked for: none is missing, laxer or there unasked.  What was      *)
(* asked for in bytes that are not Unicode is not heard, except for the    *)
(* replay cache, and neither is a drift that is no natural number; any     *)
(* other setting that does not parse refuses the start.                    *)
StartedSafely ==
    /\ outcome = "refused" => \E s \in Settings : environ[s] # Blank
    /\ outcome = "serving" => PartsSound /\ RunsAsAsked
============================================================================
