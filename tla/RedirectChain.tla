--------------------------- MODULE RedirectChain ---------------------------
(***************************************************************************)
(* The redirect chain of one request (net/fetch/chain.rs, chain/native.rs) *)
(* with the policies each hop goes through: HSTS and mixed content, the    *)
(* CORS regime and its preflights (net/cors), Referer, Origin and          *)
(* Sec-Fetch-Site, cookies, authentication (net/auth.rs), and the redirect *)
(* that takes the chain to its next hop.  A hop answered with a stale      *)
(* response leaves behind a background revalidation, which goes on from    *)
(* that hop.                                                               *)
(*                                                                         *)
(* A URL is its origin: the chain tells paths apart nowhere but in the     *)
(* caches.  What the HTTP cache holds and what a server answers is any of  *)
(* the Heads; a send may fail at any moment (timeouts, cancellation).      *)
(***************************************************************************)
EXTENDS HopRules

CONSTANTS Urls,          \* records [scheme, host, site]
          Requests,      \* what callers ask for, see RequestType
          Heads,         \* the response headers a server may send, see HeadType
          Proxied,       \* the URLs that go through a proxy
          Known,         \* the credentials the store starts with: [Spaces -> ...]
          Granted,       \* the preflight grants it starts with
          Offers,        \* what a preflight response may allow, see Allows
          Passwords, Raw,    \* Credentials::Basic, and Credentials::Raw
          MaxRedirects,  \* MAX_REDIRECTS
          MaxAuth,       \* MAX_AUTH_ATTEMPTS
          Proxy

Hosts == {u.host : u \in Urls}
Methods == {"GET", "POST", "PUT"}
Spaces == Urls \cup {Proxy}

\* A referrer: 2 the whole URL, 1 its origin, 0 none.  It is the document's, at origin.
Levels == 0..2

\* What the caller asked for.  secret: it set Authorization (or another header of
\* SENSITIVE_REDIRECT_HEADERS) by hand.  
RequestType ==
    [url: Urls, method: Methods, mode: Modes, origin: Urls \cup {None},
     credentials: {"include", "same-origin", "omit"}, mixed: {"allow", "block", "upgrade"},
     destination: Destinations,
     secret: BOOLEAN, cookie: {"none", "caller"}, referrer: Levels, policy: Policies]

\* Access-Control-Allow-Origin and -Credentials, Strict-Transport-Security, Set-Cookie,
\* Referrer-Policy.
HeadType ==
    [acao: {"none", "*", "null"} \cup {"origin"}, acac: BOOLEAN, sts: {"none", "set", "clear"},
     cookies: BOOLEAN, policy: Policies \cup {None}]

\* What a preflight response allows: the methods and whether Authorization is listed.
Allows == [methods: {"none", "listed", "*"}, auth: BOOLEAN]

\* A grant: what it allows, whom, where, and whether it was made with credentials.
GrantType == [origin: {"null", "origin"}, url: Urls, include: BOOLEAN, allows: Allows]

ASSUME ChainAssumption ==
    /\ \A u \in Urls : [u EXCEPT !.scheme = "https"] \in Urls
    /\ Urls \subseteq [scheme: {"http", "https"}, host: STRING, site: STRING]
    /\ Requests \subseteq RequestType
    /\ \A q \in Requests : IF q.origin = None THEN q.referrer = 0 ELSE q.cookie = "none"
    /\ Heads \subseteq HeadType
    /\ Offers \subseteq Allows
    /\ Proxied \subseteq Urls
    /\ MaxRedirects \in Nat /\ MaxAuth \in Nat
    /\ None \notin Urls /\ Proxy \notin Urls /\ Raw \notin Passwords /\ None \notin Passwords
    /\ Known \in [Spaces -> Passwords \cup {None}]
    /\ Granted \subseteq GrantType

VARIABLES
    req,        \* the request, RequestInit
    chain,      \* HopChain
    from,       \* the chain as this hop found it (Revalidation)
    later,      \* the background revalidation that was started, None if none
    resumed,    \* the chain is one
    pc,         \* hop, preflight, plan, send, done
    plan,       \* HopPlan: attach_credentials, the grant relied on, revalidating
    slots,      \* the AuthSlots of the hop
    outcome,    \* 0 before the end, 1 an error, 2 a redirect that cannot be followed,
                \* else the status handed to the caller
    hsts,       \* the HSTS store: known hosts
    creds,      \* the credential store
    preflights, \* the preflight cache: grants
    granted     \* every grant a server ever made

vars == <<req, chain, from, later, resumed, pc, plan, slots, outcome, hsts, creds, preflights, granted>>

NoSlot == [header |-> None, unproven |-> None, attempt |-> 0]
NoSlots == [server |-> NoSlot, proxy |-> NoSlot]
NoPlan == [attach |-> FALSE, grant |-> None, revalidating |-> FALSE]

\* HopChain::start.
start(q) ==
    [url |-> q.url, method |-> q.method, secret |-> q.secret, cookie |-> q.cookie,
     asked |-> None, cookie_from_jar |-> FALSE, url_list |-> <<>>,
     referrer |-> q.referrer, policy |-> q.policy, site |-> "same-origin",
     origin_tainted |-> FALSE, tainting |-> "basic", redirects |-> 0]

Init ==
    /\ req \in Requests
    /\ chain = start(req) /\ from = start(req)
    /\ later = None /\ resumed = FALSE
    /\ pc = "hop" /\ plan = NoPlan /\ slots = NoSlots /\ outcome = 0
    /\ hsts = {} /\ creds = Known /\ preflights = Granted /\ granted = Granted

-----------------------------------------------------------------------------
(* The decisions a hop is put through.                                     *)

\* The mixed content verdict: the URL to send to, or None to block.
evaluate(q, u) == evaluate_for(q.mixed, q.origin, u, q.destination)

apply_hsts(u) == IF u.scheme = "http" /\ u.host \in hsts THEN Upgrade(u) ELSE u

\* The target the referrer is judged against: before HSTS, after a mixed content upgrade.
ReferrerTarget(q, u) == IF evaluate(q, u) = None THEN u ELSE evaluate(q, u)

\* What is left of a referrer of this level at a document doc.
cut_down(level, doc, policy, target) ==
    LET told == determine(policy, doc, target) IN IF level < told THEN level ELSE told

\* cors_check on the headers of a response.
cors_check(q, c, h) ==
    \/ h.acao = "*" /\ q.credentials # "include"
    \/ h.acao = serialize_origin(c) /\ (q.credentials = "include" => h.acac)

\* PreflightAllows::permits.
permits(a, c, include) ==
    /\ SafelistedMethod(c.method) \/ a.methods = "listed" \/ (a.methods = "*" /\ ~include)
    /\ c.secret => a.auth

NeedsPreflight(q, c) ==
    /\ q.mode = "cors" /\ c.tainting = "cors"
    /\ ~SafelistedMethod(c.method) \/ c.secret

\* A cached grant that covers the hop.  One made with credentials also covers a request
\* without, by the rules it was made under.
fits(g, q, c) ==
    /\ g.origin = serialize_origin(c) /\ g.url = c.url
    /\ q.credentials = "include" => g.include
    /\ permits(g.allows, c, g.include)

\* The grant a hop relies on, as PreflightGrant names it.
GrantOf(c) == [origin |-> serialize_origin(c), url |-> c.url]

-----------------------------------------------------------------------------
(* The steps of a hop.                                                     *)

\* CorsPreflightCache::clear: the grants it drops, with and without credentials.
clear(g) == {x \in preflights : x.origin = g.origin /\ x.url = g.url}

\* The chain ends: with an error, when a grant the hop relied on is dropped with it
\* (PreflightGrant), or with the response of the given status.
End(status, kept) ==
    /\ pc' = "done" /\ outcome' = status
    /\ preflights' = IF plan.grant = None \/ kept THEN preflights ELSE preflights \ clear(plan.grant)
    /\ plan' = NoPlan /\ slots' = NoSlots

Fail == End(1, FALSE) /\ UNCHANGED <<req, chain, from, later, resumed, hsts, creds, granted>>

set_referrer_anew(q, c) ==
    IF q.origin = None THEN c.referrer
    ELSE cut_down(q.referrer, q.origin, c.policy, ReferrerTarget(q, c.url))

\* Determined from what the hop before was left with.
set_referrer(q, c) ==
    IF q.origin = None THEN c.referrer
    ELSE cut_down(c.referrer, q.origin, c.policy, ReferrerTarget(q, c.url))

set_fetch_metadata(q, c, u) ==
    IF q.origin = None THEN c.site ELSE Worse(c.site, classify_site(q.origin, u))

\* secure_url: the URL the hop goes to, None when it is blocked.
secure_url(q, c) == evaluate(q, apply_hsts(c.url))

\* secure_url to set_fetch_metadata: the hop as it will be sent, None when refused.
Entered(q, c) ==
    LET u == secure_url(q, c)
        t == enter_cors_regime(q, [c EXCEPT !.url = u])
    IN  IF u = None THEN None
        ELSE IF t = None THEN None
        ELSE [c EXCEPT !.url = u, !.tainting = t, !.referrer = set_referrer(q, c),
                       !.site = set_fetch_metadata(q, c, u)]

\* The checks, then a preflight unless the cache has a grant that has not expired.
Hop ==
    /\ pc = "hop" /\ chain.redirects <= MaxRedirects
    /\ from' = chain
    /\ LET c == Entered(req, chain)
       IN  IF c = None
             THEN End(1, FALSE) /\ UNCHANGED chain
             ELSE /\ chain' = c
                  /\ IF ~NeedsPreflight(req, c)
                       THEN pc' = "plan" /\ UNCHANGED plan
                       ELSE \/ /\ \E g \in preflights : fits(g, req, c)
                               /\ pc' = "plan"
                               /\ plan' = [NoPlan EXCEPT !.grant = GrantOf(c)]
                            \/ pc' = "preflight" /\ UNCHANGED plan
                  /\ UNCHANGED <<slots, outcome, preflights>>
    /\ UNCHANGED <<req, later, resumed, hsts, creds, granted>>

\* A check of the embedder, the resolver or the ports refuses the hop.
HopRefused == pc = "hop" /\ chain.redirects <= MaxRedirects /\ Fail

TooManyRedirects == pc = "hop" /\ chain.redirects > MaxRedirects /\ Fail

\* The preflight response passes its checks and allows the request; anything else ends
\* the chain.
Preflight ==
    /\ pc = "preflight"
    /\ \E a \in Offers :
          LET include == req.credentials = "include"
              g == [origin |-> serialize_origin(chain), url |-> chain.url,
                    include |-> include, allows |-> a]
          IN  /\ permits(a, chain, include)
              /\ granted' = granted \cup {g}
              /\ preflights' = {g} \cup
                    {x \in preflights : x.origin # g.origin \/ x.url # g.url \/ x.include # include}
              /\ plan' = [NoPlan EXCEPT !.grant = GrantOf(chain)]
    /\ pc' = "plan"
    /\ UNCHANGED <<req, chain, from, later, resumed, slots, outcome, hsts, creds>>

PreflightRefused == pc = "preflight" /\ Fail

-----------------------------------------------------------------------------
(* Where a response leads.                                                 *)

\* 302 stands for 301 and 302, 307 for 307 and 308.
Redirections == {302, 303, 307}

\* The responses with header h: to is the Location, with a user and password in it when
\* location says so; "bad" is one that does not parse, or more than one.
Responses(h) ==
    [status: {200, 304, 401, 407}, to: {None}, location: {"none"}, head: {h}]
    \cup [status: Redirections, to: {None}, location: {"none", "bad"}, head: {h}]
    \cup [status: Redirections, to: Urls, location: {"plain", "userinfo"}, head: {h}]

\* A stored response has no Set-Cookie and is no 304.  It answers a GET, which every redirect
\* leaves a GET: 302 stands for them all.
Stored == {r \in UNION {Responses(h) : h \in Heads} : ~r.head.cookies /\ r.status \notin {303, 304, 307}}

to_get(status, method) == (status = 302 /\ method = "POST") \/ (status = 303 /\ method # "GET")

NoCookie(c) == [c EXCEPT !.cookie = "none", !.asked = None, !.cookie_from_jar = FALSE]

\* The jar answered for this hop alone; a caller's cookie stays unless the hop set some.
drop_cookie(c, set) == IF c.cookie_from_jar \/ set THEN NoCookie(c) ELSE c

\* A redirect to another origin takes no SENSITIVE_REDIRECT_HEADERS along.
strip(c, abroad) == IF abroad THEN [NoCookie(c) EXCEPT !.secret = FALSE] ELSE c

follow_redirect(q, c, r, attach) ==
    LET abroad == c.url # r.to
        d      == strip(drop_cookie(c, attach /\ r.head.cookies), abroad)
    IN  [d EXCEPT !.policy = IF r.head.policy = None THEN @ ELSE r.head.policy,
                  !.method = IF to_get(r.status, @) THEN "GET" ELSE @,
                  !.origin_tainted = @ \/ (q.origin # None /\ abroad /\ q.origin # c.url),
                  !.url_list = Append(@, c.url),
                  !.url = r.to,
                  !.redirects = @ + 1]

RefusedLocation(q, c, r) ==
    r.location = "bad" \/ (r.location = "userinfo" /\ (q.mode = "cors" \/ c.url # r.to))

\* The response is the chain's, or the chain moves on.
Settle(c, r, attach) ==
    IF r.location = "none"
      THEN End(r.status, TRUE) /\ chain' = c
    ELSE IF RefusedLocation(req, c, r)
      THEN End(2, TRUE) /\ chain' = c
    ELSE /\ chain' = follow_redirect(req, c, r, attach)
         /\ pc' = "hop" /\ plan' = NoPlan /\ slots' = NoSlots
         /\ UNCHANGED <<outcome, preflights>>

-----------------------------------------------------------------------------
(* The hop's plan: its cookies, and what the cache makes of it.            *)

\* attach_credentials: the jar is asked when no cookie is set.
WithCookies(c, attach, jar) ==
    IF attach /\ jar /\ c.cookie = "none"
      THEN [c EXCEPT !.cookie = "jar", !.asked = <<c.url, c.method>>, !.cookie_from_jar = TRUE]
      ELSE c

revalidation_untainted(c) == [NoCookie(c) EXCEPT !.origin_tainted = FALSE, !.tainting = "basic"]

\* A revalidation starts where the hop did, without the headers that are the user agent's.
revalidation(c) == NoCookie(c)

\* Only a GET has anything stored.
Cacheable(c) == c.method = "GET"

\* answer_from_cache.  A stale answer needs a request with an origin; a revalidation
\* (CacheMode::NoCache) takes none.
Hit(r) ==
    /\ pc = "plan" /\ ~resumed /\ Cacheable(chain)
    /\ \E jar \in BOOLEAN, stale \in BOOLEAN :
          LET attach == attach_credentials(req, chain)
              c      == WithCookies(chain, attach, jar)
          IN  /\ stale => req.origin # None
              /\ IF chain.tainting = "cors" /\ ~cors_check(req, chain, r.head)
                   THEN End(1, FALSE) /\ chain' = c /\ UNCHANGED later
                   ELSE /\ Settle(c, r, attach)
                        /\ later' = IF stale THEN revalidation(from) ELSE later
    /\ from' = None
    /\ UNCHANGED <<req, resumed, hsts, creds, granted>>

\* only-if-cached, and nothing stored.
NotCached == pc = "plan" /\ ~resumed /\ Fail

\* The request goes out, perhaps with the conditions of a stored response, and with
\* credentials upfront where some were accepted before.
Send ==
    /\ pc = "plan"
    /\ LET attach == attach_credentials(req, chain)
       IN  /\ \E jar \in BOOLEAN : chain' = WithCookies(chain, attach, jar)
           /\ \E revalidating \in BOOLEAN :
                 /\ revalidating => Cacheable(chain)
                 /\ plan' = [plan EXCEPT !.attach = attach, !.revalidating = revalidating]
           /\ \/ slots' = NoSlots
              \/ /\ attach /\ chain.tainting = "basic" /\ ~chain.secret /\ creds[chain.url] # None
                 /\ slots' = [NoSlots EXCEPT !.server.header =
                                 [space |-> chain.url, secret |-> creds[chain.url]]]
    /\ pc' = "send" /\ from' = None
    /\ UNCHANGED <<req, later, resumed, outcome, hsts, creds, preflights, granted>>

-----------------------------------------------------------------------------
(* The send loop (HopChain::send).                                         *)

\* hsts::record.
Recorded(h) ==
    IF chain.url.scheme = "http" \/ h.sts = "none" THEN hsts
    ELSE IF h.sts = "set" THEN hsts \cup {chain.url.host} ELSE hsts \ {chain.url.host}

\* check_response: the response is let through, and the grant kept.
Passes(r) == chain.tainting = "cors" => cors_check(req, chain, r.head)

ReceiveBlocked(r) ==
    /\ pc = "send" /\ ~Passes(r)
    /\ hsts' = Recorded(r.head)
    /\ End(1, FALSE)
    /\ UNCHANGED <<req, chain, from, later, resumed, creds, granted>>

\* A 304 that names another version: asked again, without conditions.
Contradicted(r) ==
    /\ pc = "send" /\ Passes(r) /\ plan.revalidating /\ r.status = 304
    /\ hsts' = Recorded(r.head)
    /\ plan' = [plan EXCEPT !.revalidating = FALSE, !.grant = None]
    /\ UNCHANGED <<req, chain, from, later, resumed, pc, slots, outcome, creds, preflights, granted>>

\* A 304 that confirms the stored response e, which is then the hop's.
Validated(r, e) ==
    /\ pc = "send" /\ Passes(r) /\ plan.revalidating /\ r.status = 304
    /\ hsts' = Recorded(r.head)
    /\ Settle(chain, e, plan.attach)
    /\ UNCHANGED <<req, from, later, resumed, creds, granted>>

\* A password is kept in its space; an answer computed for one challenge is in none of these.
Kept(x) == x.secret # Raw

\* AuthSlot::accepted.
accepted(store, slot) ==
    IF slot.unproven = None THEN store
    ELSE IF ~Kept(slot.unproven) THEN store
    ELSE [store EXCEPT ![slot.unproven.space] = slot.unproven.secret]

\* Neither party objected.
Final(r) ==
    /\ pc = "send" /\ Passes(r)
    /\ r.status \notin {401, 407} /\ ~(plan.revalidating /\ r.status = 304)
    /\ hsts' = Recorded(r.head)
    /\ creds' = accepted(accepted(creds, slots.server), slots.proxy)
    /\ Settle(chain, r, plan.attach)
    /\ UNCHANGED <<req, from, later, resumed, granted>>

\* The party that asks, and what its credentials are kept under.
Asker(r) == IF r.status = 401 THEN "server" ELSE "proxy"
SpaceOf(r) == IF r.status = 401 THEN chain.url ELSE Proxy

challenge_proxy_any == chain.url \in Proxied

\* Only over plain http does a proxy's 407 come back as a response.
challenge_proxy == chain.url.scheme = "http" /\ chain.url \in Proxied

may_answer(r) ==
    IF r.status = 401 THEN plan.attach /\ chain.tainting = "basic" ELSE challenge_proxy

believed_both(r) == accepted(accepted(creds, slots.server), slots.proxy)

\* A server's challenge means that the proxy let the request through.
believed(r) == IF r.status = 401 THEN accepted(creds, slots.proxy) ELSE creds

answered_uncounted(slot, space, x) ==
    [header |-> [space |-> space, secret |-> x], unproven |-> [space |-> space, secret |-> x],
     attempt |-> slot.attempt]

answered(slot, space, x) ==
    [header |-> [space |-> space, secret |-> x], unproven |-> [space |-> space, secret |-> x],
     attempt |-> slot.attempt + 1]

\* What was sent is forgotten; then the store is asked, then the host, for one challenge
\* after the other; Raw answers one of another scheme than Basic.  Without an answer the
\* challenge is the response.
Challenged(r) ==
    /\ pc = "send" /\ Passes(r) /\ r.status \in {401, 407}
    /\ hsts' = Recorded(r.head)
    /\ LET who   == Asker(r)
           slot  == slots[who]
           tried == may_answer(r) /\ slot.attempt < MaxAuth
           store == IF tried /\ slot.unproven # None /\ Kept(slot.unproven)
                      THEN [believed(r) EXCEPT ![slot.unproven.space] = None] ELSE believed(r)
           known == store[SpaceOf(r)]
           other == IF r.status = 401 THEN [slots.proxy EXCEPT !.unproven = None] ELSE slots.server
           Slots(x) == [w \in {"server", "proxy"} |-> IF w = who THEN x ELSE other]
       IN  /\ creds' = store
           /\ \/ /\ tried
                 /\ \E x \in {Raw} \cup (IF known # None THEN {known} ELSE Passwords) :
                       slots' = Slots(answered(slot, SpaceOf(r), x))
                 /\ plan' = [plan EXCEPT !.grant = None]
                 /\ UNCHANGED <<pc, chain, outcome, preflights>>
              \/ End(r.status, TRUE) /\ chain' = chain
    /\ UNCHANGED <<req, from, later, resumed, granted>>

SendFails == pc = "send" /\ Fail

Receive(r) ==
    \/ ReceiveBlocked(r) \/ Contradicted(r) \/ (\E e \in Stored : Validated(r, e))
    \/ Final(r) \/ Challenged(r)

\* revalidate_later: the request again, from the hop that was answered stale.
Resume ==
    /\ pc = "done" /\ later # None
    /\ chain' = later /\ later' = None /\ resumed' = TRUE
    /\ pc' = "hop" /\ outcome' = 0 /\ from' = None
    /\ UNCHANGED <<req, plan, slots, hsts, creds, preflights, granted>>

Step ==
    \/ Hop \/ HopRefused \/ TooManyRedirects \/ Preflight \/ PreflightRefused
    \/ NotCached \/ Send \/ SendFails \/ Resume
    \/ \E r \in Stored : Hit(r)
    \/ \E h \in Heads : \E r \in Responses(h) : Receive(r)

Spec == Init /\ [][Step]_vars

-----------------------------------------------------------------------------
(* What makes the chain correct.  While pc is "send" the request on its    *)
(* way is the one chain and slots describe.                                *)

Sending == pc = "send"

\* The URLs the chain has been at.
Path == Append(chain.url_list, chain.url)

\* v is u, or what HSTS makes of it.  follow_redirect compares with the Location, before
\* that: a host whose policy was learnt between two hops is moved to https unnoticed.
Moved(u, v) == v \in {u, Upgrade(u)}

\* What the caller put in by hand goes to the host it named and no other, and not in the
\* clear when it named https: upgrades and redirects, there and back, included.  An answer
\* to a challenge goes to the party that is its protection space: the origin itself, and a
\* proxy only where it, not the origin, reads the header.
CredentialsStayHome ==
    Sending =>
        /\ (chain.secret /\ slots.server.header = None) \/ chain.cookie = "caller" =>
              /\ chain.url.host = req.url.host
              /\ req.url.scheme = "https" => chain.url.scheme = "https"
        /\ slots.server.header # None => slots.server.header.space = chain.url
        /\ slots.proxy.header # None => chain.url.scheme = "http" /\ chain.url \in Proxied

\* The jar's cookies were asked for this hop's URL and method; and with same-origin
\* credentials none goes out once the chain has been anywhere else (where HSTS moved it
\* home from its own host's http, it has not).
CookiesFitHop ==
    Sending /\ chain.cookie = "jar" =>
        /\ chain.asked = <<chain.url, chain.method>>
        /\ req.credentials # "omit"
        /\ req.credentials = "same-origin" /\ req.origin # None =>
              \A i \in 1..Len(Path) : Moved(Path[i], req.origin)

\* A response handed on as basic never left the initiating origin on its way, for the
\* modes CORS is about; also when a background revalidation took the chain up.
BasicMeansHome ==
    /\ outcome > 2 /\ chain.tainting = "basic" /\ req.origin # None
    /\ req.mode \in {"cors", "no-cors", "same-origin"}
    => \A i \in 1..Len(Path) : Path[i] = req.origin

\* A request markup could not make goes to another origin only with a grant of that
\* server for this origin that covers it; a grant without credentials does not cover a
\* request with them, nor does the other kind read a wildcard.
UnsafeNeedsGrant ==
    Sending /\ NeedsPreflight(req, chain) =>
        \E g \in granted :
            /\ g.origin = serialize_origin(chain) /\ g.url = chain.url
            /\ req.credentials = "include" => g.include
            /\ permits(g.allows, chain, g.include)

\* A grant whose request ended in an error before a response passed is not trusted
\* again, in either form.
GrantDropped ==
    [][plan.grant # None /\ outcome' = 1 =>
          \A g \in preflights' : g.origin # plan.grant.origin \/ g.url # plan.grant.url]_vars

\* Sec-Fetch-Site tells of the farthest the chain has been, and Origin is not revealed
\* after a redirect from one foreign origin to another (Fetch's redirect-taint).
ChainShows ==
    Sending /\ req.origin # None =>
        /\ \A i \in 1..Len(Path) :
              Worse(chain.site, classify_site(req.origin, Path[i])) = chain.site
        /\ (\E i \in 1..Len(Path) - 1 : ~Moved(Path[i], Path[i + 1]) /\ Path[i] # req.origin)
              => origin_header(req, chain) # "origin"

\* Nothing secret leaves its place: what the caller set and what a challenge asked for
\* reaches its addressee only, and the jar's cookies fit the hop they go out on, over
\* any detour of the chain (follow_redirect, attach_credentials, challenge_proxy).
SecretsStayHome == CredentialsStayHome /\ CookiesFitHop

\* A detour is never forgotten: in the tainting of the answer, in what Origin and
\* Sec-Fetch-Site tell, and in the grant that a write to another origin needs
\* (enter_cors_regime, set_fetch_metadata, preflight).
DetourCounts == BasicMeansHome /\ ChainShows /\ UnsafeNeedsGrant

\* A referrer once cut down or withheld stays so, whatever policy a redirect announces.
ReferrerNeverGrows == [][pc # "done" => chain'.referrer <= chain.referrer]_vars

\* The store learns a password only from the party it was sent to, and only when that
\* party did not challenge it.
StoredOnlyAccepted ==
    [][\A s \in Spaces : creds'[s] \notin {creds[s], None} =>
          LET who == IF s = Proxy THEN "proxy" ELSE "server"
          IN  /\ Sending /\ slots[who].header = [space |-> s, secret |-> creds'[s]]
              /\ outcome' # (IF s = Proxy THEN 407 ELSE 401)
              /\ pc' = "send" => slots'[who].attempt = slots[who].attempt]_vars

\* What a chain leaves behind in the stores it shares is true: a password that was accepted
\* by its own party, and no grant that just let a hop down (AuthSlot, PreflightGrant).
StoresStayTrue == StoredOnlyAccepted /\ GrantDropped

\* What the chain may still do: its redirects, and in a hop its stages and answers.
HopSize == 2 * MaxAuth + 5
StepsLeft ==
    CASE pc = "hop" -> HopSize - 1 [] pc = "preflight" -> HopSize - 2 [] pc = "plan" -> HopSize - 3
      [] OTHER -> (IF plan.revalidating THEN 1 ELSE 0)
                  + (MaxAuth - slots.server.attempt) + (MaxAuth - slots.proxy.attempt)
Rank == (IF resumed THEN 0 ELSE (MaxRedirects + 3) * HopSize)
        + (IF pc = "done" THEN 0 ELSE 1 + (MaxRedirects + 1 - chain.redirects) * HopSize + StepsLeft)

\* Redirects, challenges and revalidation follow on each other as servers like, and the
\* chain still comes to its end: every step of it uses up something finite.
ChainRunsOut == [][Rank' >= 0 /\ Rank' < Rank]_vars
=============================================================================
