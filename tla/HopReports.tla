----------------------------- MODULE HopReports -----------------------------
(***************************************************************************)
(* What a chain tells its observer (net/events.rs): each upgrade to https  *)
(* as SecurityUpgraded, each other change a policy makes to a hop as       *)
(* RequestModified, and in between where the chain goes, what it asks and  *)
(* what comes back.  The model runs a request from Fetcher::admit to the   *)
(* end of its chain (net/fetch/chain.rs) and, beside it, the panel of an   *)
(* observer that knows the caller's request, its own cookie jar and        *)
(* nothing but the events.                                                 *)
(*                                                                         *)
(* A URL is as in HopRules; the user and password in one are a flag of     *)
(* their own.  How a preflight, a response or a stored response is judged  *)
(* is any outcome the code has.                                            *)
(***************************************************************************)
EXTENDS HopRules

CONSTANTS Submissions,   \* see RequestType
          Replies,       \* the responses of servers and of the cache, see ReplyType
          Configs,       \* see FetcherConfig
          Contexts,      \* see FetcherContext
          Urls,
          BadPorts,      \* the hosts that are on a bad port
          MaxRedirects   \* MAX_REDIRECTS

VARIABLES req, policy, chain,
          stage,    \* hop, regime, preflight, plan, sent, done
          wire,     \* the last request sent
          panel     \* what the observer makes of the events

reportVars == <<req, policy, chain, stage, wire, panel>>

Framing == {"content-length", "transfer-encoding"}
Forbidden == Framing \cup {"cookie", "referer", "origin"}
BodyHeaders == Framing \cup {"content-type"}
SENSITIVE_REDIRECT_HEADERS == {"authorization", "cookie", "referer", "origin", "proxy-authorization"}

BlockReason == {"MixedContent", "UrlPolicy", "UnsupportedScheme", "Cors", "NotCached", "BadPort",
                "ForbiddenMethod"}

\* RequestChange: how one hop differs from what the caller asked for.
RequestChange == {"UrlCredentialsRemoved", "ReferrerReduced", "OriginTainted", "OriginHidden",
                  "CredentialsWithheld", "SensitiveHeadersStripped", "HeadersRemoved", "MethodDowngraded"}

\* CacheOutcome: the hop is answered without a request, or the cache learns from its answer.
Answering == {"Hit", "Stale"}
Learning == {"Validated", "Stored", "Invalidated"}

RequestCredentials == {"include", "same-origin", "omit"}

\* FetchRequestBuilder::new: what a request is unless its caller says otherwise.
builder(method, url) ==
    [url |-> url, method |-> method, hand |-> {}, userinfo |-> FALSE, origin |-> None, mixed |-> None,
     referrer |-> None, policy |-> "strict-origin-when-cross-origin", destination |-> "script",
     mode |-> "no-cors", credentials |-> "include", only_if_cached |-> FALSE]

\* What the builder lets a caller say; hand: the headers it set.  An embedder names a
\* referrer or sets the header, not both.
RequestType(q) ==
    /\ q.url \in Urls /\ q.method \in {"GET", "POST", "PUT", "CONNECT"} /\ q.mode \in Modes
    /\ q.origin \in Urls \cup {None} /\ q.destination \in Destinations /\ q.policy \in Policies
    /\ q.credentials \in RequestCredentials /\ q.mixed \in {None, "allow", "block", "upgrade"}
    /\ q.hand \subseteq Forbidden \cup {"authorization", "content-type"}
    /\ q.referrer # None => q.referrer.at \in Urls /\ (q.origin = None => "referer" \notin q.hand)
    /\ q.userinfo \in BOOLEAN /\ q.only_if_cached \in BOOLEAN
    /\ DOMAIN q = DOMAIN builder(q.method, q.url)

\* to: the Location, None when there is none, with userinfo in it or not; more: there are
\* several, or it does not parse.  passes: it stands up to the CORS check.
ReplyType(r) ==
    /\ r.status \in {101, 200, 302, 303, 304, 307, 401} /\ r.to \in Urls \cup {None}
    /\ r.userinfo \in BOOLEAN /\ r.more \in BOOLEAN /\ r.passes \in BOOLEAN
    /\ r.cookies \in BOOLEAN /\ r.policy \in Policies \cup {None}
    /\ r.to # None => r.status \in {302, 303, 307}

\* What goes in: a URL is a record, and the rest is of its kind.
ReportAssumption ==
    /\ \A u \in Urls : u = [scheme |-> u.scheme, host |-> u.host, site |-> u.site]
    /\ \A q \in Submissions : RequestType(q)
    /\ \A r \in Replies : ReplyType(r)

-----------------------------------------------------------------------------
(* The policies a fetcher goes by: some are its configuration's, some are  *)
(* hooks of the embedder's context.                                        *)

Hosts == {u.host : u \in Urls}

\* The hosts its HSTS store knows, the bad ports it allows, whether it has a cache and a
\* store of credentials, and what it makes of mixed content.
FetcherConfig == [hsts: SUBSET Hosts, allowed_bad_ports: SUBSET Hosts, cache: BOOLEAN,
                  credentials: BOOLEAN, mixed_content: {"allow", "block", "upgrade"}]

\* The URLs it refuses, the hosts its jar has cookies for, whether it answers challenges.
FetcherContext == [is_url_allowed: SUBSET Urls, cookies_for: SUBSET Hosts, on_auth_challenge: BOOLEAN]
NullContext == [is_url_allowed |-> Urls, cookies_for |-> {}, on_auth_challenge |-> FALSE]

TransportPolicy == [url_allowed: SUBSET Urls, allowed_bad_ports: SUBSET Hosts, hsts: SUBSET Hosts]
CookiePolicy == [cookies_for: SUBSET Hosts]
AuthPolicy == [on_auth_challenge: BOOLEAN, credentials: BOOLEAN]
CachePolicy == [store: BOOLEAN, revalidate_in_background: BOOLEAN]
NetPolicy == [transport: TransportPolicy, cookies: CookiePolicy, auth: AuthPolicy, cache: CachePolicy]

from_context(ctx) ==
    [transport |-> [url_allowed |-> ctx.is_url_allowed, allowed_bad_ports |-> {}, hsts |-> {}],
     cookies   |-> [cookies_for |-> ctx.cookies_for],
     auth      |-> [on_auth_challenge |-> ctx.on_auth_challenge, credentials |-> FALSE],
     cache     |-> [store |-> FALSE, revalidate_in_background |-> FALSE]]

with_allowed_bad_ports(p, ports) == [p EXCEPT !.transport.allowed_bad_ports = ports]
with_hsts(p, store) == [p EXCEPT !.transport.hsts = store]
with_credential_store(p, store) == [p EXCEPT !.auth.credentials = store]
with_cache(p, store) == [p EXCEPT !.cache.store = store]
with_background_revalidation(p) == [p EXCEPT !.cache.revalidate_in_background = TRUE]

\* native_policy: what only the native build has.
native_policy(p, cfg) ==
    LET cached == with_cache(with_hsts(p, cfg.hsts), cfg.cache)
    IN  IF cfg.cache THEN with_background_revalidation(cached) ELSE cached

build_policy(cfg, ctx) ==
    native_policy(with_allowed_bad_ports(with_credential_store(from_context(ctx), cfg.credentials),
                                         cfg.allowed_bad_ports), cfg)

effective_mixed_content(q, cfg) == IF q.mixed = None THEN cfg.mixed_content ELSE q.mixed

-----------------------------------------------------------------------------
(* The observer.  An event is [ev, url, x]: x is what it says beyond the   *)
(* hop it is about.                                                        *)

Ev(ev, url, x) == [ev |-> ev, url |-> url, x |-> x]
When(condition, event) == IF condition THEN <<event>> ELSE <<>>

\* Accepted: the caller's own request, of which nothing has been changed.
Accepted(q) ==
    [url |-> q.url, userinfo |-> q.userinfo, method |-> q.method, hand |-> q.hand,
     referer |-> q.referrer, tainted |-> FALSE, null |-> FALSE, withheld |-> FALSE,
     phase |-> "asked", wrong |-> FALSE]

\* A change that is one.
Changes(p, e) ==
    \/ e.ev = "UrlCredentialsRemoved" /\ p.userinfo
    \/ e.ev = "ReferrerReduced" /\ e.x # p.referer
    \/ e.ev \in {"OriginTainted", "OriginHidden"} /\ ~p.tainted
    \/ e.ev = "CredentialsWithheld" /\ ~p.withheld /\ req.credentials = "same-origin"
    \/ e.ev \in {"SensitiveHeadersStripped", "HeadersRemoved"} /\ e.x # {} /\ e.x \subseteq p.hand
    \/ e.ev = "MethodDowngraded" /\ e.x # p.method
    \/ e.ev = "SecurityUpgraded" /\ e.x = Upgrade(p.url) /\ e.x # p.url

\* Whether an event is in its place: after what it follows on, and about the hop in hand.
Expected(p, e) ==
    \/ /\ e.url = p.url
       /\ \/ e.ev \in RequestChange \cup {"SecurityUpgraded"} /\ p.phase = "asked" /\ Changes(p, e)
          \/ e.ev \in {"Started", "CorsPreflight"} \cup Answering /\ p.phase = "asked"
          \/ e.ev = "CorsPreflightDone" /\ p.phase = "preflight"
          \/ e.ev = "RequestSent" /\ p.phase \in {"asked", "again"}
          \/ e.ev = "ResponseHeaders" /\ p.phase = "sent"
          \/ e.ev \in {"AuthRequired", "Redirected", "Returned"} \cup Learning /\ p.phase = "answered"
    \/ e.ev = "Blocked" /\ p.phase \notin {"blocked", "over"} /\ e.x \in BlockReason
    \/ e.ev \in {"Failed", "Cancelled", "on_cookies", "Again"} /\ p.phase # "over"

\* The headers of the caller's own that an event takes away.  on_cookies is a callback of the
\* jar, which then answers for the caller's own Cookie too.
Loses(e) ==
    CASE e.ev \in {"SensitiveHeadersStripped", "HeadersRemoved"} -> e.x
      [] e.ev = "MethodDowngraded" -> BodyHeaders
      [] e.ev = "on_cookies" -> {"cookie"}
      [] OTHER -> {}

\* Where it leaves the hop.  Again is a 304 that makes the hop ask once more.
Leads(p, e) ==
    CASE e.ev \in {"Redirected", "CorsPreflightDone"} -> "asked"
      [] e.ev = "CorsPreflight" -> "preflight"
      [] e.ev = "RequestSent" -> "sent"
      [] e.ev \in {"ResponseHeaders"} \cup Answering -> "answered"
      [] e.ev = "AuthRequired" -> IF e.x THEN "again" ELSE "answered"
      [] e.ev = "Again" -> "again"
      [] e.ev = "Blocked" -> "blocked"
      [] e.ev \in {"Failed", "Cancelled", "Returned"} -> "over"
      [] OTHER -> p.phase

\* What the observer makes of it.
Saw(p, e) ==
    LET moved == e.ev = "Redirected"
    IN  [url      |-> IF moved THEN e.x.to ELSE IF e.ev = "SecurityUpgraded" THEN e.x ELSE p.url,
         userinfo |-> IF moved THEN e.x.userinfo ELSE p.userinfo /\ e.ev # "UrlCredentialsRemoved",
         method   |-> IF e.ev = "MethodDowngraded" THEN e.x ELSE p.method,
         hand     |-> p.hand \ Loses(e),
         referer  |-> IF moved THEN req.referrer ELSE IF e.ev = "ReferrerReduced" THEN e.x ELSE p.referer,
         tainted  |-> p.tainted \/ e.ev = "OriginTainted",
         null     |-> ~moved /\ (p.null \/ e.ev \in {"OriginTainted", "OriginHidden"}),
         withheld |-> ~moved /\ (p.withheld \/ e.ev = "CredentialsWithheld"),
         phase    |-> Leads(p, e),
         wrong    |-> p.wrong \/ ~Expected(p, e)]

\* The events, one after the other.
Seen(p, events) ==
    LET after[n \in 0..Len(events)] == IF n = 0 THEN p ELSE Saw(after[n - 1], events[n])
    IN  after[Len(events)]
Told(events) == panel' = Seen(panel, events)

-----------------------------------------------------------------------------
(* The request is taken.                                                   *)

\* hop_checks: where the hop goes, or why it does not.
hop_checks(p, q, u) ==
    LET Target == evaluate_for(q.mixed, q.origin, u, q.destination)
    IN  IF u.scheme \notin {"http", "https"} THEN [to |-> None, reason |-> "UnsupportedScheme"]
        ELSE IF Target = None THEN [to |-> None, reason |-> "MixedContent"]
        ELSE IF Target.host \in BadPorts \ p.allowed_bad_ports THEN [to |-> None, reason |-> "BadPort"]
        ELSE IF Target \notin p.url_allowed THEN [to |-> None, reason |-> "UrlPolicy"]
        ELSE [to |-> Target, reason |-> None]

known_host(p, u) == u.scheme = "http" /\ u.host \in p.hsts

\* blocked: the event and the error, of which the fetch then makes its end.
blocked(u, reason) == <<Ev("Blocked", u, reason), Ev("Failed", u, None)>>

\* The names HopChain::start takes out of the caller's headers.
removed(q) == q.hand \cap (IF q.origin = None THEN Framing ELSE Forbidden)

is_forbidden_method(method) == method \in {"CONNECT", "TRACE", "TRACK"}

Carrying(c, names) == [c EXCEPT !.hand = names, !.secret = "authorization" \in names]

\* HopChain::start.
start(q, u) ==
    Carrying([url |-> u, method |-> q.method, hand |-> {}, secret |-> FALSE, jar |-> FALSE, before_hsts |-> None,
              referrer |-> q.referrer, policy |-> q.policy, origin_tainted |-> FALSE, taint_reported |-> FALSE,
              tainting |-> "basic", origin |-> "none", attach |-> FALSE, redirects |-> 0], q.hand \ removed(q))

\* Accepted, refuse, fetch_response_top, start.  known: the host had its policy by then.
ReportInit ==
    \E q \in Submissions, cfg \in Configs, ctx \in Contexts :
    /\ policy = build_policy(cfg, ctx)
    /\ req = [q EXCEPT !.mixed = effective_mixed_content(q, cfg)]
    /\ wire = None
    /\ \E known \in {known_host(policy.transport, req.url), FALSE} :
          LET u       == IF known THEN Upgrade(req.url) ELSE req.url
              checked == hop_checks(policy.transport, req, u)
              bad     == req.origin # None /\ is_forbidden_method(req.method)
              upgrade == When(known, Ev("SecurityUpgraded", req.url, u))
              begin   == <<Ev("Started", u, None)>>
                         \o When(req.userinfo, Ev("UrlCredentialsRemoved", u, None))
                         \o When(removed(req) # {}, Ev("HeadersRemoved", u, removed(req)))
          IN  /\ chain = start(req, u)
              /\ panel = Seen(Accepted(req), upgrade \o
                            IF checked.to = None THEN blocked(u, checked.reason)
                            ELSE begin \o IF bad THEN blocked(u, "ForbiddenMethod") ELSE <<>>)
              /\ stage = IF checked.to = None \/ bad THEN "done" ELSE "hop"

-----------------------------------------------------------------------------
(* A hop on its way out.                                                   *)

Ended(events) == stage' = "done" /\ Told(events) /\ UNCHANGED <<req, policy, chain, wire>>

\* A send, a resolver or a body that fails, or the caller that cancels.
Fails(ev) ==
    /\ stage \in {"regime", "preflight", "sent"}
    /\ Ended(<<Ev(ev, chain.url, None)>>)

TooManyRedirects ==
    /\ stage = "hop" /\ chain.redirects > MaxRedirects
    /\ Ended(<<Ev("Failed", chain.url, None)>>)

\* apply_hsts, then hop_checks.
secure_url ==
    /\ stage = "hop" /\ chain.redirects <= MaxRedirects
    /\ LET known   == known_host(policy.transport, chain.url)
           u       == IF known THEN Upgrade(chain.url) ELSE chain.url
           checked == hop_checks(policy.transport, req, u)
           events  == When(known, Ev("SecurityUpgraded", chain.url, u))
       IN  IF checked.to = None
             THEN Ended(events \o blocked(u, checked.reason))
             ELSE /\ Told(events \o When(checked.to # u, Ev("SecurityUpgraded", u, checked.to)))
                  /\ chain' = [chain EXCEPT !.url = checked.to, !.before_hsts = IF known THEN chain.url ELSE None]
                  /\ stage' = "regime"
                  /\ UNCHANGED <<req, policy, wire>>

\* The Referer is judged by the URL before HSTS, with a mixed content upgrade applied.
set_referrer(q, c) ==
    LET Plain  == evaluate_for(q.mixed, q.origin, c.before_hsts, q.destination)
        target == IF c.before_hsts = None THEN c.url ELSE IF Plain = None THEN c.before_hsts ELSE Plain
    IN  [c EXCEPT !.referrer = shown(@, c.policy, target)]

ReferrerReported_since(q, c) ==
    When(q.referrer # None /\ c.referrer # chain.referrer, Ev("ReferrerReduced", c.url, c.referrer))

\* Measured against what would go out with no policy.
ReferrerReported(q, c) ==
    When(q.referrer # None /\ c.referrer # q.referrer, Ev("ReferrerReduced", c.url, c.referrer))

\* The taint is reported with the first null it causes.
set_fetch_metadata(q, c) ==
    LET o == origin_header(q, c)
    IN  [c EXCEPT !.origin = o, !.taint_reported = @ \/ (o = "null" /\ c.origin_tainted)]

\* told: the taint was reported before.
OriginReported(c, told) ==
    CASE c.origin = "null" /\ c.origin_tainted -> When(~told, Ev("OriginTainted", c.url, None))
      [] c.origin = "null" /\ ~c.origin_tainted -> <<Ev("OriginHidden", c.url, None)>>
      [] OTHER -> <<>>

NeedsPreflight(q, c) ==
    q.mode = "cors" /\ c.tainting = "cors" /\ (~SafelistedMethod(c.method) \/ c.secret)

\* enter_cors_regime, set_referrer, set_fetch_metadata; then a preflight, unless there is a grant.
Regime ==
    /\ stage = "regime"
    /\ LET tainting == enter_cors_regime(req, chain)
       IN  IF tainting = None
             THEN Ended(blocked(chain.url, "Cors"))
             ELSE LET c == set_fetch_metadata(req, set_referrer(req, [chain EXCEPT !.tainting = tainting]))
                      changes == ReferrerReported(req, c) \o OriginReported(c, chain.taint_reported)
                  IN  /\ chain' = c
                      /\ \/ stage' = "plan" /\ Told(changes)
                         \/ NeedsPreflight(req, c) /\ stage' = "preflight"
                            /\ Told(Append(changes, Ev("CorsPreflight", c.url, None)))
                      /\ UNCHANGED <<req, policy, wire>>

\* The preflight is answered, whatever the answer is.
Preflight ==
    /\ stage = "preflight"
    /\ LET done == <<Ev("CorsPreflightDone", chain.url, None)>>
       IN  \/ Ended(done \o blocked(chain.url, "Cors"))
           \/ stage' = "plan" /\ Told(done) /\ UNCHANGED <<req, policy, chain, wire>>

\* attach_credentials: the jar is asked when no Cookie is set.
WithCredentials(q, c) ==
    LET attach == attach_credentials(q, c)
    IN  [c EXCEPT !.attach = attach,
                  !.jar = @ \/ (attach /\ "cookie" \notin c.hand /\ c.url.host \in policy.cookies.cookies_for)]

Withheld(q, c) ==
    When(~attach_credentials(q, c) /\ q.credentials = "same-origin", Ev("CredentialsWithheld", c.url, None))

\* hop_request: the hop as it goes out.
HopRequest(c) ==
    [url |-> c.url, method |-> c.method, hand |-> c.hand, referer |-> c.referrer, origin |-> c.origin,
     jar |-> c.jar]

Sent(c) == <<Ev("RequestSent", c.url, None)>>

\* Nothing stored answers it; without a cache only_if_cached says nothing.
Send ==
    /\ stage = "plan"
    /\ LET c == WithCredentials(req, chain)
       IN  IF req.only_if_cached /\ policy.cache.store
             THEN Ended(Withheld(req, c) \o blocked(c.url, "NotCached"))
             ELSE /\ Told(Withheld(req, c) \o Sent(c)) /\ chain' = c /\ wire' = HopRequest(c)
                  /\ stage' = "sent" /\ UNCHANGED <<req, policy>>

-----------------------------------------------------------------------------
(* A response, and where it leads.                                         *)

to_get(status, method) == (status = 302 /\ method = "POST") \/ (status = 303 /\ method # "GET")

\* The Location is not one the chain may go to.
CredentialedRedirect(c, r) == r.userinfo /\ (req.mode = "cors" \/ c.url # r.to)

\* follow_redirect: the chain at its next hop, and what it told on the way.
Moved(c, r) ==
    LET set    == c.attach /\ r.cookies
        left_  == c.url # r.to
        get    == to_get(r.status, c.method)
        own    == (IF set THEN c.hand \ {"cookie"} ELSE c.hand) \ (IF get THEN BodyHeaders ELSE {})
    IN  [Carrying(c, IF left_ THEN own \ SENSITIVE_REDIRECT_HEADERS ELSE own) EXCEPT
            !.url = r.to, !.jar = FALSE, !.method = IF get THEN "GET" ELSE @,
            !.policy = IF r.policy = None THEN @ ELSE r.policy,
            !.origin_tainted = @ \/ (req.origin # None /\ left_ /\ req.origin # c.url),
            !.redirects = @ + 1]

Redirected(c, r, d) ==
    LET stripped == (c.hand \cap SENSITIVE_REDIRECT_HEADERS) \ (d.hand \cup IF c.attach /\ r.cookies THEN {"cookie"} ELSE {})
    IN  <<Ev("Redirected", c.url, [to |-> r.to, userinfo |-> r.userinfo])>>
        \o When(r.userinfo, Ev("UrlCredentialsRemoved", r.to, None))
        \o When(c.method # d.method, Ev("MethodDowngraded", r.to, d.method))
        \o When(stripped # {}, Ev("SensitiveHeadersStripped", r.to, stripped))

\* The chain ends with the response, or goes on; events: what was told of it so far.
Settle(c, r, events) ==
    LET jar == When(c.attach /\ r.cookies, Ev("on_cookies", c.url, None))
    IN  IF r.more
          THEN Ended(Append(events, Ev("Failed", c.url, None)))
        ELSE IF r.to = None
          THEN Ended(Append(events \o jar, Ev("Returned", c.url, None)))
        ELSE IF CredentialedRedirect(c, r)
          THEN Ended(events \o jar \o blocked(r.to, "Cors"))
        ELSE /\ chain' = Moved(c, r) /\ stage' = "hop"
             /\ Told(events \o jar \o Redirected(c, r, Moved(c, r)))
             /\ UNCHANGED <<req, policy, wire>>

Passes(r) == chain.tainting = "cors" => r.passes

\* answer_from_cache: a stored response has no cookies and is no 304.
Hit(r, outcome) ==
    /\ stage = "plan" /\ policy.cache.store
    /\ chain.method = "GET" /\ ~r.cookies /\ r.status \notin {101, 304}
    /\ outcome = "Stale" => req.origin # None /\ policy.cache.revalidate_in_background
    /\ LET c == WithCredentials(req, chain)
       IN  IF Passes(r) THEN Settle(c, r, Append(Withheld(req, c), Ev(outcome, c.url, None)))
           ELSE Ended(Withheld(req, c) \o blocked(c.url, "Cors"))

Headers == Ev("ResponseHeaders", chain.url, None)
Resent(why) == /\ Told(<<Headers, why>> \o Sent(chain)) /\ wire' = HopRequest(chain)
               /\ UNCHANGED <<req, policy, chain, stage>>

\* received: the reports and the checks every response goes through.
Rejected(r) ==
    /\ stage = "sent"
    /\ \/ r.status = 101 /\ req.mode # "websocket" /\ Ended(<<Headers, Ev("Failed", chain.url, None)>>)
       \/ r.status # 101 /\ ~Passes(r) /\ Ended(<<Headers>> \o blocked(chain.url, "Cors"))

\* A 304 confirms what is stored, or names another version and the hop is asked again.
Revalidated(r, stored) ==
    /\ stage = "sent" /\ policy.cache.store /\ chain.method = "GET" /\ r.status = 304 /\ Passes(r)
    /\ \/ Resent(Ev("Again", chain.url, None))
       \/ ~stored.cookies /\ stored.status \notin {101, 304}
          /\ Settle(chain, stored, <<Headers, Ev("Validated", chain.url, None)>>)

\* A challenge is answered and the hop sent again, or it is the response.
Challenged(r) ==
    /\ stage = "sent" /\ r.status = 401 /\ Passes(r)
    /\ \/ /\ policy.auth.on_auth_challenge \/ policy.auth.credentials
          /\ chain.attach /\ chain.tainting = "basic" /\ Resent(Ev("AuthRequired", chain.url, TRUE))
       \/ Settle(chain, r, <<Headers, Ev("AuthRequired", chain.url, FALSE)>>)

\* The hop's answer: a write drops what is stored, a redirect may be stored.
Answered(r, stored) ==
    /\ stage = "sent" /\ r.status # 401 /\ Passes(r)
    /\ r.status = 101 => req.mode = "websocket"
    /\ stored => policy.cache.store /\ r.to # None /\ chain.method = "GET"
    /\ Settle(chain, r, <<Headers>> \o When(policy.cache.store /\ chain.method # "GET", Ev("Invalidated", chain.url, None))
                                    \o When(stored, Ev("Stored", chain.url, None)))

ReportNext ==
    \/ \E ev \in {"Failed", "Cancelled"} : Fails(ev)
    \/ TooManyRedirects \/ secure_url \/ Regime \/ Preflight \/ Send
    \/ \E r \in Replies :
          \/ \E outcome \in Answering : Hit(r, outcome)
          \/ Rejected(r) \/ Challenged(r)
          \/ \E stored \in Replies : Revalidated(r, stored)
          \/ \E stored \in BOOLEAN : Answered(r, stored)

ReportSpec == ReportInit /\ [][ReportNext]_reportVars

-----------------------------------------------------------------------------
(* Property.                                                               *)

\* The observer is told of every change and of nothing else.  Each event comes in its place,
\* names the hop as it stands and says something that was not so before; and with every
\* request that is sent the panel has its URL, its method, which of the caller's headers are
\* left, its Referer, whether Origin reads null, and whether the jar's cookies are on it
\* (get_with_redirects: "Every upgrade to https is reported ... and every other change a
\* policy makes to a hop"; NetEvent: "A hop that nothing changed reports nothing").
EveryChangeTold ==
    /\ ~panel.wrong
    /\ stage = "done" => panel.phase = "over"
    /\ stage = "sent" =>
          /\ wire.url = panel.url /\ ~panel.userinfo /\ wire.method = panel.method
          /\ wire.hand = panel.hand
          /\ req.referrer # None => wire.referer = panel.referer
          /\ panel.null => wire.origin = "null"
          /\ wire.origin = "null" => panel.null \/ panel.tainted
          /\ wire.origin = "origin" => ~panel.tainted
          /\ wire.jar <=> /\ ~panel.withheld /\ req.credentials # "omit"
                          /\ "cookie" \notin panel.hand /\ wire.url.host \in policy.cookies.cookies_for
=============================================================================
