------------------------------- MODULE Proxy -------------------------------
(***************************************************************************)
(* The reverse proxy of proxy.rs, one request at a time: the path and the  *)
(* headers it forwards, the redirects its HTTP client follows, and the     *)
(* response it buffers whole before the payment gate may settle.           *)
(*                                                                         *)
(* A path is a sequence of segments and a header is its name.  A dot       *)
(* segment counts however it is written; methods, queries and the values   *)
(* of headers are left out.                                                *)
(***************************************************************************)
EXTENDS Naturals, Sequences

CONSTANTS PathSegments,  \* what a segment of a path may be
          MaxSegments,   \* bound: segments of a path
          HeaderNames,   \* headers a buyer may send, in lower case
          AuthHeader,    \* auth_header, of the configured credential
          Hosts, Ports,
          MAX_REDIRECTS,
          MAX_BODY,      \* MAX_RESPONSE_BODY_BYTES
          Chunk          \* bound: the longest chunk the upstream sends

ASSUME ProxyAssumption ==
    /\ AuthHeader \in HeaderNames /\ MaxSegments \in Nat
    /\ MAX_REDIRECTS \in Nat /\ MAX_BODY \in Nat /\ Chunk \in Nat

VARIABLES inbound,    \* the buyer's request, and how the route is mounted
          with_auth,  \* auth_value is configured
          leg,        \* "received", "waiting", "reading" or "answered"
          status,     \* of the upstream's response, then of the proxy's answer
          outbound,   \* what is sent upstream: path, the buyer's headers, the service's
          visited,    \* the URLs requested so far, by origin
          buffered,   \* bytes buffered of the upstream's response
          produced,   \* history: bytes the upstream has produced
          whole       \* history: the upstream's response came to its end

proxying == <<inbound, with_auth, leg, status, outbound, visited, buffered, produced, whole>>

HOP_BY_HOP == {"connection", "proxy-authenticate", "proxy-authorization", "keep-alive",
               "transfer-encoding", "te", "trailer", "upgrade", "host", "content-length"}

PAYMENT_HEADERS == {"payment-signature", "x-payment"}

Origins == [scheme : {"http", "https"}, host : Hosts, port : Ports]

Paths == UNION {[1..n -> PathSegments] : n \in 0..MaxSegments}

Requests == [path : Paths, nested : BOOLEAN, headers : SUBSET HeaderNames,
             connection : {{}} \cup {{h} : h \in HeaderNames}, body : {"fits", "too_long", "cut_off"}]

(* Connection options (bound: one) come with a Connection header; a nested *)
(* route matched under /v1.                                                *)
ProxyInit ==
    /\ inbound \in {r \in Requests :
                       /\ r.connection # {} => "connection" \in r.headers
                       /\ r.nested => r.path # <<>> /\ Head(r.path) = "v1"}
    /\ with_auth \in BOOLEAN
    /\ visited \in {<<o>> : o \in Origins}
    /\ leg = "received" /\ status = ""
    /\ outbound = [path |-> <<>>, buyers |-> {}, services |-> {}]
    /\ buffered = 0 /\ produced = 0 /\ whole = FALSE

(* The proxy answers with a status of its own.                             *)
Fail(code) ==
    /\ leg' = "answered" /\ status' = code
    /\ UNCHANGED <<inbound, with_auth, outbound, visited, buffered>>

(* req.uri(), from which Router::nest has taken the prefix.                *)
RequestPath == IF inbound.nested THEN Tail(inbound.path) ELSE inbound.path

has_dot_segment(path) == \E i \in DOMAIN path : path[i] \in {".", ".."}

strip_v1_prefix(path) ==
    IF path # <<>> /\ Head(path) = "v1" THEN Tail(path) ELSE path

(* Faulty: strips the prefix whether or not the router has.                *)
ForwardedTwice == strip_v1_prefix(RequestPath)

Forwarded == IF inbound.nested THEN RequestPath ELSE strip_v1_prefix(RequestPath)

connection_options(r) == IF "connection" \in r.headers THEN r.connection ELSE {}

Kept(r) == r.headers \ (HOP_BY_HOP \cup PAYMENT_HEADERS \cup connection_options(r))

RefusePath ==
    /\ leg = "received"
    /\ has_dot_segment(RequestPath)
    /\ Fail("400")
    /\ UNCHANGED <<produced, whole>>

RefuseBody ==
    /\ leg = "received"
    /\ ~has_dot_segment(RequestPath)
    /\ inbound.body # "fits"
    /\ Fail("413")
    /\ UNCHANGED <<produced, whole>>

(* The injected credential replaces the buyer's header of that name.       *)
Forward ==
    /\ leg = "received"
    /\ ~has_dot_segment(RequestPath)
    /\ inbound.body = "fits"
    /\ leg' = "waiting"
    /\ outbound' = LET injected == IF with_auth THEN {AuthHeader} ELSE {}
                   IN  [path |-> Forwarded, buyers |-> Kept(inbound) \ injected,
                        services |-> injected]
    /\ UNCHANGED <<inbound, with_auth, status, visited, buffered, produced, whole>>

---------------------------------------------------------------------------
(* The upstream, through the HTTP client.                                  *)

Here == visited[Len(visited)]

is_same_origin_hop(from, to) ==
    /\ from.host = to.host
    /\ \/ from.scheme = to.scheme /\ from.port = to.port
       \/ from.scheme = "http" /\ to.scheme = "https"

(* attempt.previous() are the URLs requested so far, the first included.   *)
TooManyRedirects ==
    /\ leg = "waiting"
    /\ Len(visited) >= MAX_REDIRECTS
    /\ Fail("502")
    /\ UNCHANGED <<produced, whole>>

FollowRedirect(to) ==
    /\ leg = "waiting"
    /\ Len(visited) < MAX_REDIRECTS
    /\ is_same_origin_hop(Here, to)
    /\ visited' = Append(visited, to)
    /\ UNCHANGED <<inbound, with_auth, leg, status, outbound, buffered, produced, whole>>

(* The head of a response that is not followed: a redirect to elsewhere is *)
(* handed back like any other.                                             *)
ResponseHead(code) ==
    /\ leg = "waiting"
    /\ leg' = "reading" /\ status' = code
    /\ UNCHANGED <<inbound, with_auth, outbound, visited, buffered, produced, whole>>

Unreachable ==
    /\ leg = "waiting"
    /\ Fail("502")
    /\ UNCHANGED <<produced, whole>>

(* saturating_sub                                                          *)
Room == IF buffered > MAX_BODY THEN 0 ELSE MAX_BODY - buffered

BufferChunk(n) ==
    /\ leg = "reading"
    /\ n <= Room
    /\ buffered' = buffered + n
    /\ produced' = produced + n
    /\ UNCHANGED <<inbound, with_auth, leg, status, outbound, visited, whole>>

ResponseTooLarge(n) ==
    /\ leg = "reading"
    /\ n > Room
    /\ produced' = produced + n
    /\ Fail("502")
    /\ UNCHANGED whole

ResponseEnds ==
    /\ leg = "reading"
    /\ leg' = "answered"
    /\ whole' = TRUE
    /\ UNCHANGED <<inbound, with_auth, status, outbound, visited, buffered, produced>>

(* Faulty: serves what arrived before the upstream broke off.              *)
ResponseCutServed ==
    /\ leg = "reading"
    /\ leg' = "answered"
    /\ UNCHANGED <<inbound, with_auth, status, outbound, visited, buffered, produced, whole>>

ResponseCut ==
    /\ leg = "reading"
    /\ Fail("502")
    /\ UNCHANGED <<produced, whole>>

Proxied == leg = "answered" /\ UNCHANGED proxying

ProxyNext ==
    \/ RefusePath \/ RefuseBody \/ Forward
    \/ TooManyRedirects \/ (\E to \in Origins : FollowRedirect(to))
    \/ (\E code \in {"below_400", "from_400"} : ResponseHead(code)) \/ Unreachable
    \/ (\E n \in 1..Chunk : BufferChunk(n) \/ ResponseTooLarge(n))
    \/ ResponseEnds \/ ResponseCut \/ Proxied

ProxySpec == ProxyInit /\ [][ProxyNext]_proxying

---------------------------------------------------------------------------
(* Properties.                                                             *)

(* The upstream hears of a request only what it may: the path with the     *)
(* prefix taken off once, however the route is mounted, no payment header, *)
(* no header the buyer declared local to its connection, and the service's *)
(* credential instead of the buyer's.  And redirects, however many, never  *)
(* take the credential to another host or back to plain http.              *)
UpstreamHears ==
    leg \in {"waiting", "reading"} =>
        /\ inbound.path \in {outbound.path, <<"v1">> \o outbound.path}
        /\ Len(outbound.path) = Len(inbound.path) <=> inbound.path = strip_v1_prefix(inbound.path)
        /\ outbound.buyers \cap (PAYMENT_HEADERS \cup inbound.connection) = {}
        /\ with_auth => AuthHeader \in outbound.services \ outbound.buyers
        /\ \A i \in 1..Len(visited) :
              /\ visited[i].host = visited[1].host
              /\ \A j \in 1..i : visited[j].scheme = "https" => visited[i].scheme = "https"

(* The gate settles on a status below 400: the buyer is charged only for a *)
(* response whose every byte arrived and fits the answer.                  *)
ChargedForWhole ==
    leg = "answered" /\ status = "below_400" =>
        whole /\ buffered = produced /\ buffered <= MAX_BODY
============================================================================
