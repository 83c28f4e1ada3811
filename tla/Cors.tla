-------------------------------- MODULE Cors --------------------------------
(***************************************************************************)
(* The CORS middleware of the service, service/src/cors.rs, in front of    *)
(* the routes and behind an HTTP cache that several browsers share.  The   *)
(* cache is not part of the repository: it stores any response to a GET    *)
(* and reuses it as the response's Vary header allows.                     *)
(*                                                                         *)
(* An origin is written with or without a trailing slash.  The routes may  *)
(* answer with a Vary header and with a permission of their own: proxy.rs  *)
(* hands on those of the upstream, whatever they are.  The list of exposed *)
(* headers is set together with the permission and is left out here.       *)
(***************************************************************************)
EXTENDS FiniteSets

CONSTANTS Sites,     \* hosts of web pages
          NoOrigin,  \* a request without an Origin header, or unreadable
          Star,      \* the permission for every page
          Nothing    \* no Access-Control-Allow-Origin, nothing stored or received

WebOrigins == [site : Sites, slash : BOOLEAN]

ASSUME CorsAssumption == {NoOrigin, Star, Nothing} \cap WebOrigins = {} /\ Star # Nothing

VARIABLES cors,     \* CorsConfig
          stored,   \* the shared cache's stored response
          received  \* what a page received last, with its origin and, as history,
                    \* own: the permission the route's answer had by itself

browsing == <<cors, stored, received>>

(* CORS_ORIGIN: blank; a single star; or a list, of which blank items and  *)
(* trailing slashes are dropped, so that it may turn out empty.            *)
from_env(star, items) ==
    CASE star      -> [mode |-> "wildcard", origins |-> {}]
      [] ~star /\ items = {} -> [mode |-> "disabled", origins |-> {}]
      [] OTHER     -> [mode |-> "origins", origins |-> {o.site : o \in items}]

(* The allowed origin to answer with, as the request wrote it.             *)
match_origin(o) ==
    CASE cors.mode = "wildcard" -> Star
      [] cors.mode = "origins" /\ o.site \in cors.origins -> o
      [] OTHER -> Nothing

Matched(o) == IF o = NoOrigin THEN Nothing ELSE match_origin(o)

CorsInit ==
    /\ \E star \in BOOLEAN, items \in SUBSET WebOrigins : cors = from_env(star, items)
    /\ stored = Nothing
    /\ received = Nothing

(* Faulty: only an answer that names an origin varies with it.             *)
VaryWhenMatched(o, vary) ==
    IF cors.mode = "origins" /\ Matched(o) # Nothing /\ vary \notin {"star", "origin"}
    THEN "origin" ELSE vary

(* vary_origin, where the middleware calls it: a Vary header that covers   *)
(* the origin already stays as it is.                                      *)
Vary(o, vary) ==
    IF cors.mode = "origins" /\ vary \notin {"star", "origin"} THEN "origin" ELSE vary

Inner == [vary  : {"none", "star", "origin", "accept-encoding"},
          allow : {Nothing, Star} \cup WebOrigins]

(* The response to a request that is not a preflight: a permission for the *)
(* page replaces the route's, but without one the route's stays.           *)
Respond(o, inner) ==
    [allow |-> IF Matched(o) # Nothing THEN Matched(o) ELSE inner.allow,
     vary  |-> Vary(o, inner.vary)]

(* OPTIONS with an Origin header is answered here, never by the routes and *)
(* never from a cache.                                                     *)
Preflight(o) ==
    /\ cors.mode # "disabled" /\ o # NoOrigin
    /\ received' = [origin |-> o, own |-> Nothing, allow |-> match_origin(o)]
    /\ UNCHANGED <<cors, stored>>

FromService(o, inner) ==
    /\ received' = [origin |-> o, own |-> inner.allow, allow |-> Respond(o, inner).allow]
    /\ stored' = [origin |-> o, own |-> inner.allow, response |-> Respond(o, inner)]
    /\ UNCHANGED cors

Reusable(o) ==
    /\ stored # Nothing
    /\ CASE stored.response.vary = "star"   -> FALSE
         [] stored.response.vary = "origin" -> stored.origin = o
         [] OTHER -> TRUE

FromCache(o) ==
    /\ Reusable(o)
    /\ received' = [origin |-> o, own |-> stored.own, allow |-> stored.response.allow]
    /\ UNCHANGED <<cors, stored>>

CorsNext ==
    \E o \in WebOrigins \cup {NoOrigin} :
        \/ Preflight(o) \/ FromCache(o)
        \/ \E inner \in Inner : FromService(o, inner)

CorsSpec == CorsInit /\ [][CorsNext]_browsing

---------------------------------------------------------------------------
Listed(o) == o.site \in cors.origins

(* With a list of origins, a page of a listed one may always read what it  *)
(* receives, even where the upstream permits somebody else, and any other  *)
(* page is given exactly what the route's own answer permits, nothing by   *)
(* the service: though a shared cache answers with what it stored for      *)
(* other pages or for no page at all.  (With a star the answer to a        *)
(* request without an Origin header carries no permission of the service   *)
(* and no Vary: served from a cache, it denies a page that is allowed.)    *)
CachedAnswersFit ==
    cors.mode = "origins" /\ received # Nothing /\ received.origin # NoOrigin =>
        received.allow = IF Listed(received.origin) THEN received.origin ELSE received.own
=============================================================================
