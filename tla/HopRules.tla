------------------------------ MODULE HopRules ------------------------------
(***************************************************************************)
(* The rules every hop of a request is judged by: mixed content            *)
(* (net/mixed_content.rs), referrer policies (net/referrer.rs), the fetch  *)
(* metadata and the Origin header (net/fetch_metadata.rs), and the CORS    *)
(* regime (net/cors.rs, HopChain::enter_cors_regime).                      *)
(*                                                                         *)
(* A URL is [scheme, host, site]: its port is part of the host, its path   *)
(* matters to no rule, and site is its registrable domain, "" for an       *)
(* address or localhost.  Its origin is the URL itself.  q is a request    *)
(* and c the chain it has come to.                                         *)
(***************************************************************************)
EXTENDS Integers, Sequences

CONSTANT None

Policies == {"no-referrer", "no-referrer-when-downgrade", "same-origin", "origin", "strict-origin",
             "origin-when-cross-origin", "strict-origin-when-cross-origin", "unsafe-url"}
Modes == {"cors", "no-cors", "same-origin", "navigate", "websocket"}

\* RequestDestination, as far as a rule tells its values apart: "script" stands for the rest.
Destinations == {"document", "iframe", "frame", "embed", "object", "image", "audio", "video",
                 "json", "style", "script"}
is_navigation(destination) == destination \in {"document", "iframe", "frame", "embed", "object"}

\* is_potentially_trustworthy, of a URL and of an origin.
Trustworthy(u) == u.scheme = "https" \/ u.host = "localhost"

Upgrade(u) == [u EXCEPT !.scheme = "https"]

\* evaluate_for: the URL to send to, or None to block.  Under Block images, audio and video
\* are upgraded on hosts that may have a certificate, and a top-level navigation is left alone.
evaluate_for(policy, origin, u, destination) ==
    IF origin = None THEN u
    ELSE IF ~Trustworthy(origin) \/ Trustworthy(u) \/ policy = "allow" THEN u
    ELSE IF policy = "upgrade" THEN Upgrade(u)
    ELSE IF destination = "document" THEN u
    ELSE IF destination \in {"image", "audio", "video"} /\ u.site # "" THEN Upgrade(u)
    ELSE None

\* referrer::determine: 2 the whole referrer, 1 its origin, 0 nothing.
Reveals(policy, home, downgrade) ==
    CASE policy = "no-referrer"                     -> 0
      [] policy = "unsafe-url"                      -> 2
      [] policy = "origin"                          -> 1
      [] policy = "same-origin"                     -> IF home THEN 2 ELSE 0
      [] policy = "strict-origin"                   -> IF downgrade THEN 0 ELSE 1
      [] policy = "origin-when-cross-origin"        -> IF home THEN 2 ELSE 1
      [] policy = "strict-origin-when-cross-origin" -> IF home THEN 2 ELSE IF downgrade THEN 0 ELSE 1
      [] policy = "no-referrer-when-downgrade"      -> IF downgrade THEN 0 ELSE 2

determine(policy, source, target) ==
    Reveals(policy, source = target, Trustworthy(source) /\ ~Trustworthy(target))

\* A page [at, path] as a referrer, cut down to what the policy shows the target; path "/" is
\* its origin alone.
shown(page, policy, target) ==
    IF page = None THEN None
    ELSE CASE determine(policy, page.at, target) = 2 -> page
           [] determine(policy, page.at, target) = 1 -> [page EXCEPT !.path = "/"]
           [] OTHER                                  -> None

\* classify_site: same site is schemeful, and only a registrable domain has one.
same_site_host(a, b) == a.host = b.host \/ (a.site = b.site /\ a.site # "")
classify_site(o, u) ==
    IF o = u THEN "same-origin"
    ELSE IF o.scheme = u.scheme /\ same_site_host(o, u) THEN "same-site" ELSE "cross-site"

\* The order of SecFetchSite.
Worse(s, t) == IF "cross-site" \in {s, t} THEN "cross-site"
               ELSE IF "same-site" \in {s, t} THEN "same-site" ELSE "same-origin"

\* apply_sec_fetch_headers: only to trustworthy targets.
apply_sec_fetch_headers(u, destination, mode, site, user) ==
    IF ~Trustworthy(u) THEN None
    ELSE [dest |-> destination, mode |-> mode, site |-> site,
          user |-> is_navigation(destination) /\ user]

-----------------------------------------------------------------------------
(* The chain and the initiating origin.                                    *)

SafelistedMethod(m) == m \in {"GET", "HEAD", "POST"}

\* has_left_origin: a chain that was tainted has left even when it is back home.
left(q, c) == q.origin # None /\ (c.origin_tainted \/ q.origin # c.url)

\* enter_cors_regime: the chain's tainting from here on, or None when it is refused.  secret:
\* it carries a header that is not safelisted.
enter_cors_regime(q, c) ==
    IF ~left(q, c) THEN c.tainting
    ELSE CASE q.mode = "same-origin" -> None
           [] q.mode = "no-cors"     -> IF SafelistedMethod(c.method) /\ ~c.secret
                                        THEN "opaque" ELSE None
           [] q.mode = "cors"        -> "cors"
           [] OTHER                  -> c.tainting

serialize_origin(c) == IF c.origin_tainted THEN "null" ELSE "origin"

\* origin_header_value: the Origin a hop sends.
origin_header(q, c) ==
    LET cloaked == CASE c.policy = "no-referrer" -> TRUE
                     [] c.policy \in {"no-referrer-when-downgrade", "strict-origin",
                                      "strict-origin-when-cross-origin"}
                                                 -> q.origin.scheme = "https" /\ c.url.scheme # "https"
                     [] c.policy = "same-origin" -> q.origin # c.url
                     [] OTHER                    -> FALSE
    IN  IF q.origin = None \/ ~(\/ c.method \notin {"GET", "HEAD"} \/ q.mode = "websocket"
                                \/ q.mode = "cors" /\ left(q, c))
          THEN "none"
        ELSE IF c.origin_tainted \/ (q.mode \notin {"cors", "websocket"} /\ cloaked)
          THEN "null"
        ELSE "origin"

\* attach_credentials: whether the hop carries cookies and answers challenges.
attach_credentials(q, c) ==
    \/ q.credentials = "include"
    \/ /\ q.credentials = "same-origin"
       /\ q.origin = None \/ (~c.origin_tainted /\ q.origin = c.url)
=============================================================================
