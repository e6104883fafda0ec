---------------------------- MODULE RequestKey ----------------------------
(***************************************************************************)
(* When two requests are one fetch (net/types.rs, request_key, and         *)
(* net/fetcher.rs, admit and make_request_init).  The scheduler runs one   *)
(* fetch for requests of one key and hands its response to all of them, so *)
(* they have to be the same request on every hop of whatever redirects the *)
(* servers come up with: the model walks two of them side by side.         *)
(*                                                                         *)
(* A referrer is a page [at, path]; path "/" is its origin alone.  The     *)
(* body, the size limit and the other headers of a request are parts of    *)
(* the key as they stand, and are left out.                                *)
(***************************************************************************)
EXTENDS HopRules

CONSTANTS Requests,      \* see FetchRequest
          Locations,     \* where redirects lead
          HstsHosts,     \* the hosts with an HSTS policy
          DefaultMixed,  \* FetcherConfig::mixed_content
          MaxHops        \* bound on the redirects followed

VARIABLES pair,     \* two requests of one key, admitted
          walk,     \* the chain each of them is or would be on
          hops

keyVars == <<pair, walk, hops>>

\* hand_referer, hand_origin: headers the caller wrote itself, which only a request without an
\* origin keeps; the embedder sets the header or names a referrer, not both.
FetchRequest(q) ==
    /\ q = [url |-> q.url, method |-> q.method, mode |-> q.mode, origin |-> q.origin,
            destination |-> q.destination, mixed |-> q.mixed, user |-> q.user, referrer |-> q.referrer,
            policy |-> q.policy, credentials |-> q.credentials, jar |-> q.jar, accept |-> q.accept,
            hand_referer |-> q.hand_referer, hand_origin |-> q.hand_origin, cache_mode |-> q.cache_mode]
    /\ q.referrer # None => q.referrer = [at |-> q.referrer.at, path |-> q.referrer.path]
    /\ q.mode \in Modes /\ q.destination \in Destinations /\ q.policy \in Policies
    /\ q.method \in {"GET", "HEAD"} /\ q.mixed \in {None, "allow", "block", "upgrade"}
    /\ q.hand_referer # None => q.origin = None /\ q.referrer = None
    /\ q.hand_origin # None => q.origin = None

-----------------------------------------------------------------------------
(* The key.                                                                *)

hsts_upgrade(u) == IF u.scheme = "http" /\ u.host \in HstsHosts THEN Upgrade(u) ELSE u

\* Scheduler::admit, with effective_mixed_content.
admit(q) == [q EXCEPT !.url = hsts_upgrade(@), !.mixed = IF @ = None THEN DefaultMixed ELSE @]

never_sends(q) == q.policy = "no-referrer"

Referrer(q) ==
    IF q.referrer # None /\ ~never_sends(q)
    THEN [policy |-> q.policy, hand |-> None,
          page |-> IF q.policy \in {"origin", "strict-origin"} THEN [q.referrer EXCEPT !.path = "/"]
                   ELSE q.referrer]
    ELSE [policy |-> None, hand |-> q.hand_referer, page |-> None]

request_key_first_hop(q) ==
    [url |-> q.url, method |-> q.method, accept |-> q.accept,
     mixed |-> IF q.origin = None \/ Trustworthy(q.url) THEN "n"
               ELSE IF ~Trustworthy(q.origin) THEN "n" ELSE q.mixed,
     referrer |-> Referrer(q),
     meta |-> <<q.destination, q.mode, q.origin, IF q.origin = None THEN q.hand_origin ELSE None,
                is_navigation(q.destination) /\ q.user>>,
     credentials |-> IF q.credentials = "omit" THEN <<"omit">> ELSE <<q.credentials, q.jar>>,
     cache |-> q.cache_mode]

\* The mixed content policy counts when there is a secure document to protect, whatever the
\* first URL; a referrer by what may ever be shown of it; the jar when it may be asked.
request_key(q) ==
    [url |-> q.url, method |-> q.method, accept |-> q.accept,
     mixed |-> IF q.origin = None THEN "n" ELSE IF ~Trustworthy(q.origin) THEN "n" ELSE q.mixed,
     referrer |-> Referrer(q),
     meta |-> <<q.destination, q.mode, q.origin, IF q.origin = None THEN q.hand_origin ELSE None,
                is_navigation(q.destination) /\ q.user>>,
     credentials |-> IF q.credentials = "omit" THEN <<"omit">> ELSE <<q.credentials, q.jar>>,
     cache |-> q.cache_mode]

-----------------------------------------------------------------------------
(* The request on its way.                                                 *)

\* default_accept.
default_accept(destination) ==
    CASE destination \in {"document", "iframe", "frame"} -> "html"
      [] destination \in {"image", "json", "style"}      -> destination
      [] OTHER                                           -> "*/*"

\* make_request_init and HopChain::start.
start(q) ==
    [url |-> q.url, method |-> q.method, policy |-> q.policy, referrer |-> q.referrer,
     hand_referer |-> q.hand_referer, hand_origin |-> q.hand_origin, secret |-> FALSE,
     site |-> "same-origin", origin_tainted |-> FALSE, tainting |-> "basic", wire |-> None]

\* A hop: the upgrades, the checks, and the headers it puts on the wire, None when it is
\* blocked.
enter(q, c) ==
    LET plain    == evaluate_for(q.mixed, q.origin, c.url, q.destination)
        u        == evaluate_for(q.mixed, q.origin, hsts_upgrade(c.url), q.destination)
        d        == [c EXCEPT !.url = u,
                              !.referrer = shown(@, c.policy, IF plain = None THEN c.url ELSE plain),
                              !.site = IF q.origin = None THEN @ ELSE Worse(@, classify_site(q.origin, u))]
        tainting == enter_cors_regime(q, d)
    IN  IF u = None THEN [c EXCEPT !.wire = None]
        ELSE IF tainting = None THEN [c EXCEPT !.wire = None]
        ELSE [d EXCEPT !.tainting = tainting, !.wire =
                 [url     |-> u,
                  referer |-> IF q.referrer = None THEN d.hand_referer ELSE d.referrer,
                  origin  |-> IF q.origin = None THEN d.hand_origin
                              ELSE IF origin_header(q, d) = "origin" THEN q.origin ELSE origin_header(q, d),
                  fetch   |-> apply_sec_fetch_headers(u, q.destination, q.mode,
                                 IF q.origin = None THEN "none" ELSE d.site, q.user),
                  accept  |-> IF q.accept = None THEN default_accept(q.destination) ELSE q.accept,
                  cookies |-> IF attach_credentials(q, d) THEN q.jar ELSE None,
                  cache   |-> q.cache_mode, read |-> tainting]]

\* follow_redirect, as far as it goes into what is sent.
follow(q, c, to, policy) ==
    LET abroad == c.url # to
    IN  [c EXCEPT !.url = to, !.policy = IF policy = None THEN @ ELSE policy,
                  !.hand_referer = IF abroad THEN None ELSE @,
                  !.hand_origin = IF abroad THEN None ELSE @,
                  !.origin_tainted = @ \/ (q.origin # None /\ abroad /\ q.origin # c.url)]

KeyInit ==
    \E a, b \in Requests :
        /\ request_key(admit(a)) = request_key(admit(b))
        /\ pair = <<admit(a), admit(b)>>
        /\ walk = <<enter(admit(a), start(admit(a))), enter(admit(b), start(admit(b)))>>
        /\ hops = 0

\* The server redirects the fetch they share.
Redirect(to, policy) ==
    /\ hops < MaxHops
    /\ \A i \in {1, 2} : walk[i].wire # None
    /\ walk' = [i \in {1, 2} |-> enter(pair[i], follow(pair[i], walk[i], to, policy))]
    /\ hops' = hops + 1
    /\ UNCHANGED pair

KeyNext == \E to \in Locations, policy \in Policies \cup {None} : Redirect(to, policy)

KeySpec == KeyInit /\ [][KeyNext]_keyVars

-----------------------------------------------------------------------------
(* Property.                                                               *)

\* Requests that share a fetch are the same request: at every hop, wherever redirects lead and
\* whatever Referrer-Policy they announce, each would go to the same URL with the same Referer,
\* Origin, Sec-Fetch headers, Accept and cookies, be blocked or let through alike, and be given
\* as much of the response (types.rs request_key).
SameKeySameWire == walk[1].wire = walk[2].wire
=============================================================================
