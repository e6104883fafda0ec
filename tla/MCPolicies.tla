---------------------------- MODULE MCPolicies ----------------------------
(***************************************************************************)
(* RequestPolicies, each part on an instance of its own, and one-shot      *)
(* calls.  A behaviour is about one of them: its focus.                    *)
(***************************************************************************)
EXTENDS RequestPolicies, TLC

CONSTANTS Focus,      \* the parts to be looked at
          MaxTime     \* bound on the clock

VARIABLES call, focus

-----------------------------------------------------------------------------
(* HSTS and TLS.                                                           *)

Site == <<"x", "com">>
Sub  == <<"www", "x", "com">>
Else == <<"y", "com">>
MCDomains == {Site, Sub, Else}

Age(n) == [name |-> "max-age", value |-> n]
Subdomains == [name |-> "includeSubDomains", value |-> -1]
\* Good, with subdomains, taken back, given twice, not a number, and not a header.
MCValues == {<<Age(1)>>, <<Age(3), Subdomains>>, <<Age(0)>>, <<Age(1), Age(1)>>, <<Age(-2)>>, None}

At(scheme, host) == [scheme |-> scheme, host |-> host]
\* The first two share a shard.
Shared == [d \in MCDomains |-> IF d = Else THEN 2 ELSE 1]
Servers == {At("https", Site), At("https", Sub), At("https", Else), At("http", Site), At("https", Ip)}

\* What the platform has against a certificate, and the code of a message of Apple's.
Faults == {None, "Expired", "OtherApple", "AlertReceived"}

\* What a server that speaks for host sends, besides what is not heard.
Sends(host) ==
    {<<Age(1), Age(1)>>, <<Age(-2)>>, None}
    \cup CASE host = Site -> {<<Age(3), Subdomains>>, <<Age(0)>>}
           [] host = Sub  -> {<<Age(1)>>}
           [] OTHER       -> {<<Age(1)>>, <<Age(0)>>}

HstsNext ==
    \E c \in Chains : \/ store(c)
                      \/ \E url \in Servers : \E value \in Sends(url.host) : record(c, url, value)

TlsNext ==
    \/ /\ \E c \in Chains :
             \/ store(c)
             \/ calls = [d \in Chains |-> AtRest] /\ record(c, At("https", Site), <<Age(1), Subdomains>>)
       /\ UNCHANGED tlsVars
    \/ \E host \in {Site, Sub}, cert \in Certificates :
          \/ \E error \in Faults, click \in BOOLEAN :
                verify_server_cert(host, cert, error, "Revoked", click)
          \/ ClickThrough(host, cert)
    \/ \E host \in {Site, Sub} : revoke(host)

-----------------------------------------------------------------------------
(* Preflights: a method, a header and too many safelisted bytes that need  *)
(* a grant, with and without credentials.                                  *)

Header(name, bytes) == [name |-> name, bytes |-> bytes, plain |-> TRUE]
Call(method, headers, include) ==
    [origin |-> "o", url |-> "u", method |-> method, headers |-> headers, include |-> include]
Allow(methods, headers, origin, credentials, age) ==
    [status |-> 200, allow_origin |-> <<origin>>, allow_credentials |-> <<credentials>>,
     methods |-> methods, headers |-> headers, max_age |-> age]
View(origin, expose) ==
    [allow_origin |-> <<origin>>, allow_credentials |-> <<"true">>, expose |-> expose,
     names |-> {"content-type", "x-own", "set-cookie"}]

MCGrantAsks ==
    {Call("PUT", {}, FALSE), Call("GET", {Header("authorization", 1)}, TRUE),
     [Call("GET", {Header("accept", 2), Header("range", 2)}, FALSE) EXCEPT !.url = "v"]}
MCGrants ==
    {Allow({"PUT"}, {"*"}, "*", "false", <<>>),
     Allow({"*"}, {"authorization"}, "o", "true", <<9>>),
     Allow({"PUT", "?"}, {}, "o", "true", <<1>>)}
MCViews == {View("o", {"*", "x-own"}), View("*", {"set-cookie"}), View("else", {})}

-----------------------------------------------------------------------------
(* Credentials for a server that also knows a scheme nobody can answer,    *)
(* and for a proxy that asks for a scheme nobody knows.                    *)

Para(name, value) == [kind |-> "param", name |-> name, value |-> value]
Scheme(scheme, rest) == [kind |-> "scheme", scheme |-> scheme, rest |-> rest]
Challenge(status, asker, lines) == [status |-> status, asker |-> asker, lines |-> lines]
MCChallenges ==
    {Challenge(401, "s", <<<<Para("realm", "stray"), Scheme("Negotiate", [kind |-> "token68"]), [kind |-> "empty"]>>,
                           <<Scheme("Basic", Para("charset", "utf-8")), Para("realm", "r"), Para("realm", "q")>>>>),
     Challenge(407, "p", <<<<Scheme("NewAuth", None)>>>>)}

MCHooks == {[Negotiate |-> "a:b", Basic |-> c, NewAuth |-> c] : c \in {"new", "raw", None}}
MCPaths == {<<"a", "i">>, <<"a", "b", "i">>, <<"c", "i">>}

-----------------------------------------------------------------------------
(* Proxies: rules with and without credentials, one after the other.       *)

HttpProxy == [kind |-> "http", name |-> "h"]
Fallback  == [kind |-> "https", name |-> "f"]
Socks     == [kind |-> "socks", name |-> "s"]
Rule(scope, url, auth, no_proxy) ==
    [scope |-> scope, url |-> url, auth |-> auth, no_proxy |-> no_proxy]
Address == <<"10.0.0.1">>
Bypass == {{}, {[kind |-> "everything"]}, {[kind |-> "block", addresses |-> {Address}]},
           {[kind |-> "host", host |-> Site, port |-> None]},
           {[kind |-> "host", host |-> Site, port |-> 8080]},
           {[kind |-> "host", host |-> Address, port |-> 80]}}
Rules == {Rule(scope, url, auth, no) :
            scope \in {"Http", "Https", "All"}, url \in {HttpProxy, Socks}, auth \in {None, "pw"}, no \in Bypass}
Environment(cgi, upper, lower, https, all, no) ==
    [cgi |-> cgi, HTTP_PROXY |-> upper, http_proxy |-> lower, HTTPS_PROXY |-> https,
     ALL_PROXY |-> all, NO_PROXY |-> no]

MCProxies == {[kind |-> "Rules", rules |-> <<a, Rule("All", Fallback, "other", no)>>] :
             a \in Rules, no \in Bypass}
        \cup {[kind |-> "System", os |-> os,
               var |-> Environment(cgi, upper, lower, None, all, no)] :
             os \in {<<>>, <<Rule("All", Fallback, None, {})>>}, cgi \in BOOLEAN,
             upper \in {None, Socks, HttpProxy}, lower \in {None, Fallback},
             all \in {None, Fallback}, no \in Bypass \cup {None}}
        \cup {[kind |-> "Disabled"]}

MCLiterals == {Address}
MCUsable == {HttpProxy, Fallback}
MCVisits ==
    {[scheme |-> scheme, host |-> host, port |-> port] :
        scheme \in {"http", "https"}, host \in {Site, Sub, Else, Address}, port \in {80, 8080}}

-----------------------------------------------------------------------------
(* Requests of a page at https://a, of one at http://a, and of nobody's,   *)
(* that differ in what one part of the key is about.                       *)

U(scheme, host, site) == [scheme |-> scheme, host |-> host, site |-> site]
HomePage == U("https", "a", "s")
PlainPage == U("http", "a", "s")
Away == U("https", "b", "s")
AwayPlain == U("http", "c", "t")

Plainly == [url |-> HomePage, method |-> "GET", mode |-> "no-cors", origin |-> HomePage, destination |-> "script",
            mixed |-> None, user |-> FALSE, referrer |-> None, policy |-> "strict-origin-when-cross-origin",
            credentials |-> "include", jar |-> "j", accept |-> None, hand_referer |-> None,
            hand_origin |-> None, cache_mode |-> "default"]
Page(path) == [at |-> HomePage, path |-> path]

AllPolicies == {"no-referrer", "no-referrer-when-downgrade", "same-origin", "origin", "strict-origin",
                "origin-when-cross-origin", "strict-origin-when-cross-origin", "unsafe-url"}
MCRequests ==
    {[Plainly EXCEPT !.origin = o, !.mixed = m, !.destination = d, !.url = u] :
        o \in {None, HomePage, PlainPage}, m \in {None, "allow", "block", "upgrade"},
        d \in {"script", "document", "image"}, u \in {HomePage, AwayPlain}}
    \cup {[Plainly EXCEPT !.referrer = r, !.policy = p] :
        r \in {None, Page("p"), Page("q")}, p \in AllPolicies}
    \cup {[Plainly EXCEPT !.origin = None, !.hand_referer = r, !.hand_origin = h] :
        r \in {None, "x", "y"}, h \in {None, "x"}}
    \cup {[Plainly EXCEPT !.credentials = c, !.jar = j, !.mode = m, !.user = u, !.destination = d] :
        c \in {"omit", "same-origin", "include"}, j \in {"j", "k"}, m \in {"cors", "no-cors", "navigate"},
        u \in BOOLEAN, d \in {"script", "iframe"}}

MCLocations == {HomePage, Away, AwayPlain}

-----------------------------------------------------------------------------
(* Timeouts: the fetcher's own, and requests that set all of them or lift  *)
(* what can be lifted; one-shot calls; dials; and sends.                   *)

Timed(own, streaming, preflights, caches) ==
    [req_timeout |-> own[1], read_idle_timeout |-> own[2], total_body_timeout |-> own[3],
     redirect_timeout |-> own[4], streaming |-> streaming, resolves |-> FALSE,
     preflights |-> preflights, caches |-> caches, followed |-> 0]

Patience == [req_timeout |-> 4, read_idle_timeout |-> 1, total_body_timeout |-> 6, redirect_timeout |-> 2]
MCFetchers == {Patience}
MCTimed ==
    {Timed(<<None, None, None, None>>, streaming, streaming, ~streaming) : streaming \in BOOLEAN}
    \cup {Timed(<<3, 2, 0, 0>>, streaming, FALSE, FALSE) : streaming \in BOOLEAN}
    \cup {Timed(<<2, None, 3, 1>>, streaming, TRUE, TRUE) : streaming \in BOOLEAN}
    \cup {[Timed(<<2, None, None, 1>>, FALSE, FALSE, TRUE) EXCEPT !.resolves = TRUE]}
    \cup {[Timed(<<3, None, None, None>>, FALSE, FALSE, FALSE) EXCEPT !.followed = 1]}

Location(scheme, port) == [scheme |-> scheme, port |-> port]
MCCalls == {[api |-> api, url |-> Location(scheme, port), max_body |-> 2, allowed_bad_ports |-> allowed,
             headers |-> by_hand, user_agent |-> agent, cookies |-> "good"] :
               api \in {"simple_get", "sync_fetch"}, scheme \in {"http", "https", "file", "data"},
               port \in {None, 22}, allowed \in {{}, {22}}, by_hand \in {{}, {"user-agent"}},
               agent \in {None, "bad"}}
Reply(status, lines, announced, length, applied, sizes) ==
    [status |-> status, lines |-> lines, announced |-> announced, length |-> length,
     applied |-> applied, sizes |-> sizes]

O == INSTANCE OneShot WITH
        Calls <- MCCalls,
        Targets <- {Location(scheme, port) : scheme \in {"http", "https", "ftp"}, port \in {None, 22, 25}},
        Responses <- {Reply(200, <<>>, <<>>, 2, <<>>, <<2>>),
                      Reply(404, <<>>, <<>>, 3, <<>>, <<3>>),
                      Reply(200, <<<<"GZIP">>, <<"identity", "gzip">>>>, <<"gzip", "gzip">>, 3,
                            <<"gzip", "gzip">>, <<2, 3, 4>>),
                      Reply(200, <<<<"br", "x-gzip">>>>, <<"br", "gzip">>, None,
                            <<"br", "gzip">>, <<3, 1, 1>>),
                      Reply(200, <<<<"br">>, <<"zstd">>>>, None, 2, <<"br", "zstd">>, <<5, 3, 2>>),
                      Reply(200, <<None>>, None, 1, <<"deflate">>, <<5, 1>>),
                      Reply(200, <<<<"deflate">>>>, <<"deflate">>, 0, <<>>, <<0>>),
                      Reply(200, <<<<"deflate">>>>, <<"deflate">>, 2, <<>>, <<2>>)},
        FileSizes <- {0, 2, 3, 9}, BadPorts <- {22, 25}, MaxSimpleRedirects <- 2

ProxyName == [kind |-> "name", name |-> "p"]
MCAnswers == {{"outer"}, {"outer", "inner"}}
MCResolvers == {None, {"inner"}, {"inner", "lo6"}}
MCHosts == {[kind |-> "name", name |-> "n"], [kind |-> "localhost", name |-> "l"],
            [kind |-> "literal", name |-> "inner"]}

Payload(kind, len, typed) == [kind |-> kind, len |-> len, typed |-> typed]
MCPayloads == {None, Payload("bytes", 0, TRUE), Payload("bytes", 1, TRUE), Payload("stream", None, FALSE),
               Payload("stream", 2, FALSE), [kind |-> "file", typed |-> FALSE]}

MCSends ==
    {[method |-> method, hand |-> hand, origin |-> own, auto_decode |-> own,
      mode |-> IF own THEN "reload" ELSE "no-cache", body |-> body, ordered |-> ordered] :
        method \in {"GET", "post", "PUT", "CONNECT"}, own \in BOOLEAN, ordered \in BOOLEAN, body \in MCPayloads,
        hand \in {{}, {"cookie", "content-length", "transfer-encoding"},
                  {"accept", "range", "accept-encoding", "user-agent", "pragma"}}}
MCClients == {[user_agent |-> TRUE, proxied |-> {"a"}, h2 |-> {"b"}],
              [user_agent |-> FALSE, proxied |-> {}, h2 |-> {}]}

\* The inputs are of the kinds the modules are about.
ASSUME InputAssumption ==
    /\ \A q \in MCRequests : K!FetchRequest(q)
    /\ Faults \ {None} \subseteq RustlsErrors
    /\ \A err \in RustlsErrors, apple \in AppleKinds : kind_of(err, apple) \in TlsErrorKind
    /\ P!GrantAssumption /\ C!SomeRoom /\ \A r \in MCChallenges : C!ResponseType(r)
    /\ \A no \in Bypass : \A e \in no : R!BypassEntry(e)
    /\ \A config \in MCProxies : R!ConfigType(config)
    /\ {Patience, D!DefaultConfig} \subseteq D!FetcherConfig /\ MCTimed \subseteq D!Overrides
    /\ D!TimesAssumption /\ G!NoneIsNoFailure
    /\ MCCalls \subseteq O!SimpleCall
    /\ \A q \in MCSends : q \in S!RequestType
    /\ MCClients \subseteq S!ClientType

-----------------------------------------------------------------------------
Init ==
    /\ focus \in Focus /\ now = 0
    /\ TlsInit /\ P!GrantInit /\ C!CredInit
    /\ IF focus = "routes" THEN R!RouteInit ELSE routes = <<>> /\ wire = None
    /\ IF focus = "keys" THEN K!KeyInit
       ELSE pair = <<>> /\ walk = <<[wire |-> None], [wire |-> None]>> /\ hops = 0
    /\ IF focus = "timeouts" THEN D!DeadlineInit ELSE timing = [phase |-> "done", cut |-> None]
    /\ IF focus = "calls" THEN O!OneShotInit ELSE call = <<>>
    /\ IF focus = "dials" THEN G!DialInit
       ELSE refused = None /\ names = <<>> /\ pool = {} /\ dials = <<>>
            /\ asked = [r \in DialRequests |-> [conn |-> None, peer_addr |-> None, failed |-> None, host |-> None]]
    /\ IF focus = "sends" THEN S!SendInit
       ELSE req = None /\ client = None /\ chain = None /\ file = 0 /\ sends = 0 /\ last = None

grantVars == <<cache, fetch, given>>
credVars  == <<entries, login, proven, raced>>
routeVars == <<routes, wire>>
keyVars   == <<pair, walk, hops>>
dialVars  == <<refused, names, pool, dials, asked>>
sendVars  == <<req, client, chain, file, sends, last>>

Tick ==
    /\ focus \in {"hsts", "tls", "grants"} /\ now < IF focus = "hsts" THEN 1 ELSE MaxTime
    /\ now' = now + 1
    /\ UNCHANGED <<hstsVars, tlsVars, grantVars>>

Next ==
    /\ \/ Tick
       \/ focus = "hsts" /\ HstsNext /\ UNCHANGED <<tlsVars, grantVars>>
       \/ focus = "tls" /\ TlsNext /\ UNCHANGED grantVars
       \/ focus = "grants" /\ P!GrantNext /\ UNCHANGED <<hstsVars, tlsVars>>
    /\ UNCHANGED <<credVars, routeVars, keyVars, timing, call, dialVars, sendVars, focus>>

NextTimeless ==
    /\ \/ focus = "credentials" /\ C!CredNext /\ UNCHANGED <<routeVars, keyVars, timing, call, dialVars, sendVars>>
       \/ focus = "routes" /\ R!RouteNext /\ UNCHANGED <<credVars, keyVars, timing, call, dialVars, sendVars>>
       \/ focus = "keys" /\ K!KeyNext /\ UNCHANGED <<credVars, routeVars, timing, call, dialVars, sendVars>>
       \/ focus = "timeouts" /\ D!DeadlineNext /\ UNCHANGED <<credVars, routeVars, keyVars, call, dialVars, sendVars>>
       \/ focus = "calls" /\ O!OneShotNext /\ UNCHANGED <<credVars, routeVars, keyVars, timing, dialVars, sendVars>>
       \/ focus = "dials" /\ G!DialNext /\ UNCHANGED <<credVars, routeVars, keyVars, timing, call, sendVars>>
       \/ focus = "sends" /\ S!SendNext /\ UNCHANGED <<credVars, routeVars, keyVars, timing, call, dialVars>>
    /\ UNCHANGED <<vars, grantVars, focus>>

all == <<vars, grantVars, credVars, routeVars, keyVars, timing, call, dialVars, sendVars, focus>>
Spec == Init /\ [][Next \/ NextTimeless]_all

Symmetry == Permutations(Chains) \cup Permutations(Fetches) \cup Permutations(Logins) \cup Permutations(DialRequests)

\* A one-shot call asks only where it may and hands out only what is whole (net/simple.rs).
OneShotKept == focus = "calls" => O!OneShotKept
=============================================================================
