---------------------------- MODULE Preflights ----------------------------
(***************************************************************************)
(* Cross-origin requests in cors mode and the grants they need             *)
(* (net/cors.rs, net/cors/preflight.rs, HopChain::preflight): which        *)
(* requests need one, what a preflight response has to say, the cache of   *)
(* grants with its lifetimes and its limit, and what a page may read of    *)
(* the response.                                                           *)
(*                                                                         *)
(* An origin is its serialisation, "null" when the chain is tainted; a URL *)
(* has no fragment.  A header of a request is a name with a value of so    *)
(* many bytes, plain when the bytes are ones its name is safelisted for.   *)
(***************************************************************************)
EXTENDS Integers, Sequences, FiniteSets, FiniteSetsExt, Functions

CONSTANTS Fetches,      \* the requests under way at once
          Asks,         \* [origin, url, method, headers, include] of what they may be
          Grants,       \* the preflight responses a server may give
          Views,        \* the responses it may give
          MaxValue,     \* 128, the bytes of a safelisted value
          MaxSafelisted,    \* MAX_SAFELISTED_VALUE_BYTES
          MaxEntries,   \* MAX_PREFLIGHT_ENTRIES
          DefaultAge,   \* DEFAULT_PREFLIGHT_MAX_AGE
          MaxPreflightAge,  \* MAX_PREFLIGHT_MAX_AGE
          None

VARIABLES now,      \* Utc::now()
          cache,    \* <<origin, url, credentials>> -> [allows, expires]
          fetch,    \* the requests under way: [pc, ask, at, response]: at is when
                    \* the clock was read for it, response the headers the page may read
          given     \* the grants servers made, and when last: history

grantVars == <<cache, fetch, given>>

\* Ages are numbers.
GrantAssumption ==
    /\ DefaultAge \in Nat /\ MaxPreflightAge \in Nat
    /\ \A r \in Grants : r.max_age \in Seq(Int)

-----------------------------------------------------------------------------
(* The safelists.                                                          *)

is_cors_safelisted_method(method) == method \in {"GET", "HEAD", "POST"}

is_cors_safelisted_request_header(h) ==
    /\ h.bytes <= MaxValue
    /\ h.name \in {"accept", "accept-language", "content-language", "content-type", "range"}
    /\ h.plain

\* The headers that are the user agent's: here the ones the models need of the list.
is_forbidden_request_header(name) ==
    name \in {"cookie", "host", "origin", "referer", "proxy-authorization", "sec-fetch-site"}

\* Safelisted values that add up to too much need approval too.
TooMuch(headers) == MapThenSumSet(LAMBDA h : h.bytes, headers) > MaxSafelisted

\* unsafe_request_header_names: what a preflight must get approved.
unsafe_request_header_names(headers) ==
    LET own  == {h \in headers : ~is_forbidden_request_header(h.name)}
        safe == {h \in own : is_cors_safelisted_request_header(h)}
    IN  {h.name : h \in own \ safe}
        \cup IF TooMuch(safe) THEN {h.name : h \in safe} ELSE {}

preflight_needed(a) ==
    ~is_cors_safelisted_method(a.method) \/ unsafe_request_header_names(a.headers) # {}

-----------------------------------------------------------------------------
(* What a response says.  A list of tokens is the set of its members, in   *)
(* which "*" is the wildcard and "?" one that is not a token.              *)

\* parse_token_list: None when the list does not parse.
parse_token_list(list) ==
    IF "?" \in list THEN None ELSE [items |-> list \ {"*"}, wildcard |-> "*" \in list]

\* cors_check: r.allow_origin and r.allow_credentials are the values of the field lines.
cors_check(origin, include, r) ==
    /\ Len(r.allow_origin) = 1
    /\ IF r.allow_origin[1] = "*" THEN ~include
       ELSE r.allow_origin[1] = origin /\ (include => r.allow_credentials = <<"true">>)

\* preflight_max_age: one value of digits, else the default.  A negative stands for any other.
preflight_max_age(r) ==
    IF Len(r.max_age) = 1 /\ r.max_age[1] >= 0 THEN r.max_age[1] ELSE DefaultAge

\* validate_preflight_response: what it allows, None when it is refused.
validate_preflight_response(r, origin, include) ==
    LET methods == parse_token_list(r.methods)
        headers == parse_token_list(r.headers)
        age     == preflight_max_age(r)
    IN  IF r.status \notin 200..299 \/ ~cors_check(origin, include, r)
           \/ methods = None \/ headers = None
        THEN None
        ELSE [methods |-> methods, headers |-> headers,
              max_age |-> IF age < MaxPreflightAge THEN age ELSE MaxPreflightAge]

\* PreflightAllows::permits.
permits(allows, a, include) ==
    /\ \/ a.method \in allows.methods.items
       \/ allows.methods.wildcard /\ ~include
       \/ is_cors_safelisted_method(a.method)
    /\ \A name \in unsafe_request_header_names(a.headers) :
          \/ name \in allows.headers.items
          \/ allows.headers.wildcard /\ ~include /\ name # "authorization"

CorsSafelistedResponseHeaders ==
    {"cache-control", "content-language", "content-length", "content-type", "expires",
     "last-modified", "pragma"}
NeverReadable == {"set-cookie", "set-cookie2"}

\* readable_headers of a cors response.
readable_headers(r, include) ==
    LET exposed == parse_token_list(r.expose)
    IN  IF exposed # None /\ exposed.wildcard /\ ~include THEN r.names \ NeverReadable
        ELSE r.names \cap (CorsSafelistedResponseHeaders
                \cup IF exposed = None THEN {} ELSE exposed.items \ NeverReadable)

-----------------------------------------------------------------------------
(* InMemoryPreflightCache.                                                 *)

Key(a, include) == <<a.origin, a.url, include>>

get_unexpired(key) == IF key \in DOMAIN cache THEN cache[key].allows ELSE None

get(key) ==
    IF key \in DOMAIN cache /\ cache[key].expires > now THEN cache[key].allows ELSE None

\* put, with the clock as it was read at `at`: expired grants go, then the one that expires
\* soonest when there is no room for a new key.
put(key, allows, at) ==
    LET live    == {k \in DOMAIN cache : cache[k].expires > at}
        soonest == {k \in live : \A l \in live : cache[k].expires <= cache[l].expires}
        room    == IF Cardinality(live) >= MaxEntries /\ key \notin live
                   THEN {live \ {k} : k \in soonest} ELSE {live}
    IN  {[k \in kept \cup {key} |->
             IF k = key THEN [allows |-> allows, expires |-> at + allows.max_age] ELSE cache[k]] :
            kept \in room}

\* clear: with and without credentials.
clear(origin, url) ==
    Restrict(cache, {k \in DOMAIN cache : ~(k[1] = origin /\ k[2] = url)})

-----------------------------------------------------------------------------
(* HopChain::preflight and what follows it.                                *)

Idle == [pc |-> "idle", ask |-> None, at |-> 0, response |-> None]

GrantInit ==
    /\ cache = [k \in {} |-> None] /\ given = [g \in {} |-> 0]
    /\ fetch = [f \in Fetches |-> Idle]

fits(a, include) ==
    LET allows == get(Key(a, include)) IN allows # None /\ permits(allows, a, include)

\* A grant made with credentials also covers a request without, by its own rules.
Granted(a) == fits(a, a.include) \/ (~a.include /\ fits(a, TRUE))

\* A request in cors mode comes to a hop abroad: it is sent at once when it needs no grant or
\* the cache has one, else a preflight goes first.  The clock is read here.
Ask(f, a) ==
    /\ fetch[f].pc = "idle"
    /\ fetch' = [fetch EXCEPT ![f] =
          [pc |-> IF ~preflight_needed(a) \/ Granted(a) THEN "sent" ELSE "preflight",
           ask |-> a, at |-> IF ~preflight_needed(a) \/ Granted(a) THEN 0 ELSE now, response |-> None]]
    /\ UNCHANGED <<now, cache, given>>

\* The preflight is answered, and the grant is cached if it permits the request.
Answered(f, r) ==
    /\ fetch[f].pc = "preflight"
    /\ LET a      == fetch[f].ask
           allows == validate_preflight_response(r, a.origin, a.include)
       IN  IF allows # None /\ permits(allows, a, a.include)
           THEN /\ cache' \in put(Key(a, a.include), allows, fetch[f].at)
                /\ given' = LET g == [origin |-> a.origin, url |-> a.url, include |-> a.include,
                                      allows |-> allows]
                            IN  [h \in DOMAIN given \cup {g} |-> IF h = g THEN now ELSE given[h]]
                /\ fetch' = [fetch EXCEPT ![f].pc = "sent", ![f].at = 0]
           ELSE /\ fetch' = [fetch EXCEPT ![f] = Idle]
                /\ UNCHANGED <<cache, given>>
    /\ UNCHANGED now

\* The response passes its check, and the page gets to see some of its headers.
Response(f, r) ==
    /\ fetch[f].pc = "sent"
    /\ cors_check(fetch[f].ask.origin, fetch[f].ask.include, r)
    /\ fetch' = [fetch EXCEPT ![f].pc = "read",
                                ![f].response = readable_headers(r, fetch[f].ask.include)]
    /\ UNCHANGED <<now, cache, given>>

\* Anything else after the grant drops it (PreflightGrant), and the request is over.
Failed(f) ==
    /\ fetch[f].pc \in {"preflight", "sent"}
    /\ cache' = IF fetch[f].pc = "sent" /\ preflight_needed(fetch[f].ask)
                THEN clear(fetch[f].ask.origin, fetch[f].ask.url) ELSE cache
    /\ fetch' = [fetch EXCEPT ![f] = Idle]
    /\ UNCHANGED <<now, given>>

Over(f) ==
    /\ fetch[f].pc = "read"
    /\ fetch' = [fetch EXCEPT ![f] = Idle]
    /\ UNCHANGED <<now, cache, given>>

GrantNext ==
    \E f \in Fetches :
        \/ \E a \in Asks : Ask(f, a)
        \/ \E r \in Grants : Answered(f, r)
        \/ \E r \in Views : Response(f, r)
        \/ Failed(f) \/ Over(f)

\* Time passes; the clock is not set back.
Later == now' \in Nat /\ now' > now /\ UNCHANGED grantVars

GrantSpec == now \in Nat /\ GrantInit /\ [][GrantNext \/ Later]_<<now, cache, fetch, given>>

-----------------------------------------------------------------------------
(* Properties.                                                             *)

\* The grant covers the request under the rules it was made under.
Covers(g, a) ==
    /\ g.origin = a.origin /\ g.url = a.url
    /\ a.include => g.include
    /\ \/ is_cors_safelisted_method(a.method) \/ a.method \in g.allows.methods.items
       \/ g.allows.methods.wildcard /\ ~g.include
    /\ \A h \in a.headers :
          \/ is_forbidden_request_header(h.name)
          \/ h.name \in g.allows.headers.items
          \/ g.allows.headers.wildcard /\ ~g.include /\ h.name # "authorization"
          \/ /\ is_cors_safelisted_request_header(h)
             /\ ~TooMuch({x \in a.headers : is_cors_safelisted_request_header(x)})

\* A request that markup could not have sent goes out only under a grant the server made for
\* this origin, this URL and these credentials, no longer ago than the grant was good for:
\* whichever requests ask, fail and clear meanwhile (cors/preflight.rs, HopChain::preflight).
SentIsGranted ==
    [][\A f \in Fetches :
          /\ fetch'[f].pc = "sent" /\ fetch[f].pc # "sent"
          /\ preflight_needed(fetch'[f].ask)
          => \E g \in DOMAIN given' : /\ Covers(g, fetch'[f].ask)
                                      /\ now <= given'[g] + g.allows.max_age
                                      /\ g.allows.max_age <= MaxPreflightAge]_grantVars
=============================================================================
