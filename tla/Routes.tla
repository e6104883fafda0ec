------------------------------- MODULE Routes -------------------------------
(***************************************************************************)
(* Which proxy a request goes through (net/proxy.rs): the rules of a       *)
(* configuration or of the environment, their bypass lists, and the two    *)
(* that must agree about them: the HTTP client, built from the rules, and  *)
(* this crate, which writes Proxy-Authorization and answers a proxy's      *)
(* challenges by its own reading of them.                                  *)
(*                                                                         *)
(* A destination is [scheme, host, port]; a host is the sequence of its    *)
(* labels, most specific first, or an address, which has nothing in common *)
(* with names.  A CIDR block is the set of its addresses.                  *)
(***************************************************************************)
EXTENDS Integers, Sequences, FiniteSets, SequencesExt

CONSTANTS Configs,       \* the ProxyConfigs, see below
          Destinations,  \* the URLs asked for
          Addresses,     \* the hosts that are IP addresses
          UsableProxies, \* the proxy URLs this build can use (to_reqwest)
          None

VARIABLES routes,   \* ProxyRoutes, resolved once when the fetcher is built
          wire      \* the last request sent: [url, via, header]

\* An entry of a bypass list: everything, a host with a port or without, or a block of addresses.
BypassEntry(e) ==
    \/ e.kind = "everything"
    \/ e.kind = "host" /\ e.host # <<>> /\ e.port \in Nat \cup {None}
    \/ e.kind = "block" /\ e.addresses \subseteq Addresses

\* A ProxyRule is [scope, url, auth, no_proxy]: url is [kind, name], no_proxy a set of
\* entries, auth the credentials or None.  A ProxyConfig is [kind, var, os, rules]: var is the
\* environment, os the operating system's settings as rules without credentials of ours.
RuleList(rules) == DOMAIN rules = 1..Len(rules) /\ \A i \in DOMAIN rules : rules[i].url # None
ConfigType(config) ==
    /\ config.kind \in {"Rules", "Disabled", "System"}
    /\ config.kind = "Rules" => RuleList(config.rules)
    /\ config.kind = "System" => RuleList(config.os)

-----------------------------------------------------------------------------
(* Bypass lists.                                                           *)

\* bypass_list as the client's matcher reads it: names by suffix, addresses by address; an
\* entry with a port is left out.
bypassed(rule, dst) ==
    \E e \in rule.no_proxy :
        \/ e.kind = "everything"
        \/ e.kind = "block" /\ dst.host \in e.addresses
        \/ /\ e.kind = "host" /\ e.port = None
           /\ IF e.host \in Addresses \/ dst.host \in Addresses THEN dst.host = e.host
              ELSE IsSuffix(e.host, dst.host)

port_entries(rule) == {e \in rule.no_proxy : e.kind = "host" /\ e.port # None}

bypassed_by_port(rule, dst) ==
    \E e \in port_entries(rule) :
        /\ e.port = dst.port
        /\ IF e.host \in Addresses \/ dst.host \in Addresses THEN dst.host = e.host
           ELSE IsSuffix(e.host, dst.host)

-----------------------------------------------------------------------------
(* One rule.                                                               *)

in_scope(rule, dst) ==
    CASE rule.scope = "Http" -> dst.scheme = "http" [] rule.scope = "Https" -> dst.scheme = "https"
      [] OTHER -> TRUE

\* hyper-util's matcher, which knows no ports.
Matcher(rule, dst) == in_scope(rule, dst) /\ ~bypassed(rule, dst)

\* intercept_any, which is also routes().
intercept_any(rule, dst) == ~bypassed_by_port(rule, dst) /\ Matcher(rule, dst)

\* intercept: socks proxies take no header.
intercept(rule, dst) == intercept_any(rule, dst) /\ rule.url.kind \in {"http", "https"}

non_tunnel_authorization(rule, dst) == IF intercept(rule, dst) THEN rule.auth ELSE None
non_tunnel_proxy(rule, dst) == IF intercept(rule, dst) THEN rule.url ELSE None

\* to_reqwest: what the client makes of the rule.  With a port entry it asks a closure.
Intercepts(rule, dst) ==
    IF port_entries(rule) = {} THEN Matcher(rule, dst)
    ELSE ~bypassed(rule, dst) /\ intercept_any(rule, dst)

-----------------------------------------------------------------------------
(* ProxyRoutes.                                                            *)

\* env_rules: var gives the trimmed values of the variables, None when unset or empty.
\* HTTP_PROXY is not believed under CGI; an unusable proxy is left out.
env_rules(var) ==
    LET Either(a, b) == IF a # None THEN a ELSE b
        http == IF var.cgi THEN var.http_proxy ELSE Either(var.HTTP_PROXY, var.http_proxy)
        Rule(scope, url) ==
            IF url = None \/ url \notin UsableProxies THEN <<>>
            ELSE <<[scope |-> scope, url |-> url, auth |-> None,
                    no_proxy |-> IF var.NO_PROXY = None THEN {} ELSE var.NO_PROXY]>>
    IN  IF http = None /\ var.HTTPS_PROXY = None /\ var.ALL_PROXY = None THEN None
        ELSE Rule("Http", http) \o Rule("Https", var.HTTPS_PROXY) \o Rule("All", var.ALL_PROXY)

\* resolve.  Without a variable the operating system's settings count, one proxy or none.
resolve(config) ==
    CASE config.kind = "Rules"    -> config.rules
      [] config.kind = "Disabled" -> <<>>
      [] config.kind = "System"   ->
            IF env_rules(config.var) # None THEN env_rules(config.var) ELSE config.os

\* The first rule that routes the request counts, None when it goes straight to its host.
Routing(dst) ==
    LET at == {i \in DOMAIN routes : intercept_any(routes[i], dst)}
    IN  IF at = {} THEN None ELSE routes[CHOOSE i \in at : \A j \in at : i <= j]

proxy_authorization_any(dst) ==
    LET at == {i \in DOMAIN routes : non_tunnel_authorization(routes[i], dst) # None}
    IN  IF dst.scheme # "http" \/ at = {} THEN None
        ELSE routes[CHOOSE i \in at : \A j \in at : i <= j].auth

\* proxy_authorization: the header written into a plain request.
proxy_authorization(dst) ==
    LET rule == Routing(dst)
    IN  IF dst.scheme # "http" \/ rule = None THEN None ELSE non_tunnel_authorization(rule, dst)

\* http_proxy: whom a 407 is believed to come from.
http_proxy(dst) ==
    LET rule == Routing(dst) IN IF rule = None THEN None ELSE non_tunnel_proxy(rule, dst)

routes_through_proxy(dst) == \E i \in DOMAIN routes : intercept_any(routes[i], dst)

\* The proxy the client connects through, None for a direct connection.
Client(dst) ==
    LET at == {i \in DOMAIN routes : Intercepts(routes[i], dst)}
    IN  IF at = {} THEN None ELSE routes[CHOOSE i \in at : \A j \in at : i <= j].url

-----------------------------------------------------------------------------
RouteInit == (\E c \in Configs : routes = resolve(c)) /\ wire = None

\* A request goes out.
Route(dst) ==
    /\ wire' = [url |-> dst, via |-> Client(dst), header |-> proxy_authorization(dst),
                answers |-> http_proxy(dst), proxied |-> routes_through_proxy(dst)]
    /\ UNCHANGED routes

RouteNext == \E dst \in Destinations : Route(dst)

RouteSpec == RouteInit /\ [][RouteNext]_<<routes, wire>>

-----------------------------------------------------------------------------
(* Property.                                                               *)

\* What this crate believes of a request's way is what the client does: credentials are
\* written only into a plain request, only the ones configured for the very proxy it connects
\* through, so that no origin server and no other proxy reads them; a 407 is answered only
\* when that proxy sent it; and a peer's address passes for the host's only on a direct
\* connection (proxy.rs proxy_authorization, http_proxy, routes_through_proxy).
ProxyIsTheClients ==
    wire # None =>
        /\ wire.header # None =>
              /\ wire.url.scheme = "http" /\ wire.via # None /\ wire.via.kind # "socks"
              /\ \E i \in DOMAIN routes : routes[i].url = wire.via /\ routes[i].auth = wire.header
        /\ wire.answers # None => wire.answers = wire.via
        /\ wire.proxied = (wire.via # None)
=============================================================================
