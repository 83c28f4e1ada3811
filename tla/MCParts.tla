------------------------------ MODULE MCParts ------------------------------
(* Small instances of the parts that share no state with one another, for  *)
(* TLC: a behaviour exercises the one that exercised names, and the others *)
(* stay in an initial state.  Hosts and ports are interchangeable, so the  *)
(* upstream is h1 at 80; flipping a bit of every address changes nothing,  *)
(* so a trusted network is written with zeros.                             *)
EXTENDS SettlementLedger, Webhook, SlidingWindow, VerificationCache, Facilitator, Proxy,
        Cors, ForwardedClient, Firewall, Expiration, Price, Startup

VARIABLE exercised

parts == <<ledger, hooks, window, store, call, proxying, browsing, journey, wall,
           expiring, pricing, starting, exercised>>

SomeIP    == [family |-> "v4", bits |-> 0]
SomeBuyer == [path |-> <<>>, nested |-> FALSE, headers |-> {}, connection |-> {}, body |-> "fits"]

Only(p, chosen, pinned) == IF exercised = p THEN chosen ELSE pinned

PartsInit ==
    /\ exercised \in {"ledger", "webhook", "window", "cache", "facilitator", "proxy", "cors",
                      "client", "firewall", "expiration", "price", "startup"}
    /\ LedgerInit
    /\ WebhookInit /\ Only("webhook", TRUE, max_queue_size = Min(QueueSizes))
    /\ WindowInit /\ Only("window", TRUE, max_requests = Min(Limits) /\ epoch = Min(Epochs))
    /\ CacheInit
    /\ FacilitatorInit
    /\ Only("facilitator", TRUE,
            op = "settle" /\ retry_config = [max_retries |-> Min(RetryLimits),
                                             initial_backoff |-> Min(InitialBackoffs)])
    /\ IF exercised = "proxy" THEN ProxyInit /\ visited[1].host = "h1" /\ visited[1].port = 80
       ELSE /\ inbound = SomeBuyer /\ with_auth = FALSE
            /\ visited = <<[scheme |-> "http", host |-> "h1", port |-> 80]>>
            /\ leg = "received" /\ status = ""
            /\ outbound = [path |-> <<>>, buyers |-> {}, services |-> {}]
            /\ buffered = 0 /\ produced = 0 /\ whole = FALSE
    /\ CorsInit /\ Only("cors", TRUE, cors.mode = "disabled")
    /\ IF exercised = "client" THEN ForwardedInit /\ \A n \in written : n.address.bits = 0
       ELSE /\ written = {} /\ proxies = {} /\ peer = SomeIP /\ xff = <<>> /\ real_ip = <<>>
            /\ sender = [address |-> peer, legible |-> TRUE] /\ passed = 0 /\ judged = peer
    /\ FirewallInit /\ Only("firewall", TRUE, default_action = "allow")
    /\ IF exercised = "expiration" THEN ExpirationInit
       ELSE /\ drift = 0 /\ minimum = 0 /\ valid_after = 0 /\ valid_before = 0
            /\ now = 0 /\ verdict = "none" /\ checked = 0
    /\ IF exercised = "price" THEN PriceInit
       ELSE price_usd = <<>> /\ network_name = "" /\ priced = Unpriced
    /\ IF exercised = "startup" THEN StartupInit
       ELSE /\ environ = [s \in Settings |-> Blank]
            /\ outcome = "starting" /\ config = Off

Step(p, next, state) == IF exercised = p THEN next ELSE UNCHANGED state

PartsNext ==
    /\ UNCHANGED exercised
    /\ Step("ledger", LedgerNext, ledger)
    /\ Step("webhook", WebhookNext, hooks)
    /\ Step("window", WindowNext, window)
    /\ Step("cache", CacheNext, store)
    /\ Step("facilitator", FacilitatorNext, call)
    /\ Step("proxy", ProxyNext, proxying)
    /\ Step("cors", CorsNext, browsing)
    /\ Step("client", ForwardedNext, journey)
    /\ Step("firewall", FirewallNext, wall)
    /\ Step("expiration", ExpirationNext, expiring)
    /\ Step("price", PriceNext, pricing)
    /\ Step("startup", StartupNext, starting)

PartsSpec == PartsInit /\ [][PartsNext]_parts
=============================================================================
