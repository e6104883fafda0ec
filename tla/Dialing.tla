------------------------------ MODULE Dialing ------------------------------
(***************************************************************************)
(* Whom a hop really talks to: the embedder's resolver and the names it is *)
(* never asked about (net/dns.rs), the check of IP literals (HopChain::    *)
(* check_ip_literal), the client's dials and its pool of connections as    *)
(* build_client sets them up (net/fetcher/native.rs), what a response says *)
(* of its peer (origin_peer), what dials report (net/connect_timing.rs,    *)
(* net/observer.rs), and what a failed send is called (net/transport.rs,   *)
(* net/fetch/native.rs).                                                   *)
(*                                                                         *)
(* What names resolve to changes at any time.  The client is external: a   *)
(* request waits for an idle connection and for a dial of its own,         *)
(* whichever comes first, and a dial nobody waits for any more goes on.    *)
(***************************************************************************)
EXTENDS Integers, Sequences, FiniteSets

CONSTANTS DialRequests,   \* requests, each of one hop
          Hosts,          \* see Host
          Addresses,      \* IP addresses
          Loopback,       \* the two loopback addresses
          Answers,        \* what a lookup may find, and
          Resolvers,      \* the sets of addresses a resolver of the config may refuse; None: no resolver
          ProxyHost,      \* the host of the proxy
          PoolMax,        \* pool_max_idle_per_host
          None

VARIABLES refused,    \* the resolver of this config
          names,      \* what a lookup of each name would find now
          pool,       \* the idle connections
          dials,      \* request -> its dial: None, a host, or the addresses it found
          req         \* request -> its state

-----------------------------------------------------------------------------
(* Names.                                                                  *)

\* kind: a "name", a "localhost" name or a "literal", which is its address.
Host == [kind: {"name", "localhost", "literal"}, name: STRING]

\* The resolver: the system's, and one that refuses what resolves to an address of refused.
\* {} is Err.
SystemResolver(found) == found
DnsResolver(found) ==
    IF refused # None /\ found \cap refused # {} THEN {} ELSE SystemResolver(found)

\* ReqwestResolver::resolve: localhost is not looked up, but each of its addresses is put to
\* the resolver.
resolve(host) ==
    IF host.kind = "localhost"
      THEN IF \E a \in Loopback : DnsResolver({a}) = {} THEN {} ELSE Loopback
      ELSE DnsResolver(names[host.name])

check_ip_literal_no(host) == TRUE

\* The client does not ask the resolver about a literal, so the hop does.
check_ip_literal(host) ==
    refused = None \/ host.kind # "literal" \/ DnsResolver({host.name}) # {}

-----------------------------------------------------------------------------
(* Failures.  An error of the client is the set of what it says of itself. *)

\* The kinds of TransportErrorKind in the order the error is asked for them.
Asked == <<"timeout", "connect", "redirect", "body", "decode", "builder", "request">>

\* What a failed request is told to have failed for.
Reasons == {"timeout", "connect", "redirect", "body", "decode", "builder", "request", "other",
            "Tls", "ProxyAuthRequired"}

\* None stands for no failure.
NoneIsNoFailure == None \notin Reasons

from_client(e) ==
    LET said == {i \in DOMAIN Asked : Asked[i] \in e}
    IN  IF said = {} THEN "other" ELSE Asked[CHOOSE i \in said : \A j \in said : i <= j]

\* A TLS failure, a proxy that wants credentials before it opens a tunnel, or None.
classify_send_error(e, proxy) ==
    IF "tls" \in e THEN "Tls"
    ELSE IF "tunnel" \in e /\ proxy # None THEN "ProxyAuthRequired" ELSE None

send_error(e, proxy) ==
    IF classify_send_error(e, proxy) # None THEN classify_send_error(e, proxy)
    ELSE from_client(e \ {"tls", "tunnel"})

-----------------------------------------------------------------------------
(* Requests.  told: what its observer heard of DNS and connecting; conn:   *)
(* the connection it was sent on; peer_addr: as in its result.             *)

vars == <<refused, names, pool, dials, req>>

Named == {h.name : h \in {h \in Hosts : h.kind # "literal"} \cup {ProxyHost}}

DialInit ==
    /\ refused \in Resolvers /\ names \in [Named -> Answers]
    /\ pool = {} /\ dials = [r \in DialRequests |-> None]
    /\ req \in [DialRequests -> [host: Hosts, proxied: BOOLEAN, phase: {"new"}, told: {{}},
                                 conn: {None}, peer_addr: {None}, failed: {None}]]

\* Names are rebound.
Rebind(name, found) ==
    /\ names' = [names EXCEPT ![name] = found]
    /\ UNCHANGED <<pool, dials, req>>

Fail(r, why) == req' = [req EXCEPT ![r].phase = "failed", ![r].failed = why]

\* The part of a hop before its send that is about its host.
Admit(r) ==
    /\ req[r].phase = "new"
    /\ IF check_ip_literal(req[r].host) THEN req' = [req EXCEPT ![r].phase = "waiting"]
       ELSE Fail(r, "connect")
    /\ UNCHANGED <<names, pool, dials>>

\* Whom the client dials for a request.
Dialled(r) == IF req[r].proxied THEN ProxyHost ELSE req[r].host

Fits(c, r) == c.host = req[r].host /\ c.proxied = req[r].proxied

\* An idle connection is used: no lookup, nothing to report.
Checkout(r, c) ==
    /\ req[r].phase = "waiting" /\ c \in pool /\ Fits(c, r)
    /\ pool' = pool \ {c}
    /\ req' = [req EXCEPT ![r].phase = "sent", ![r].conn = c]
    /\ UNCHANGED <<names, dials>>

Dial(r) ==
    /\ req[r].phase = "waiting" /\ dials[r] = None
    /\ dials' = [dials EXCEPT ![r] = IF Dialled(r).kind = "literal" THEN [found |-> {Dialled(r).name}]
                                     ELSE [host |-> Dialled(r)]]
    /\ UNCHANGED <<names, pool, req>>

Dialling(r) == dials[r] # None
Resolved(r) == Dialling(r) /\ "found" \in DOMAIN dials[r]
\* emit_to_current: a dial that outlives its request runs in no request's scope.
emit_to_current(r, event) ==
    req' = IF req[r].phase = "waiting" THEN [req EXCEPT ![r].told = @ \cup {event}] ELSE req

Lookup(r) ==
    /\ Dialling(r) /\ ~Resolved(r) /\ resolve(dials[r].host) # {}
    /\ dials' = [dials EXCEPT ![r] = [found |-> resolve(dials[r].host)]]
    /\ emit_to_current(r, "DnsResolved")
    /\ UNCHANGED <<names, pool>>

\* A dial fails: refused by the resolver, or by the network in one way or another.
DialErrors(r) ==
    IF Resolved(r)
      THEN {{"connect", "request"}, {"timeout", "connect", "request"}, {"tls", "connect", "request"}}
           \cup (IF req[r].proxied THEN {{"tunnel", "connect", "request"}} ELSE {})
      ELSE {{"connect", "request"}}

DialFails(r) ==
    /\ Dialling(r)
    /\ dials' = [dials EXCEPT ![r] = None]
    /\ IF req[r].phase # "waiting" THEN req' = req
       ELSE \E e \in DialErrors(r) : Fail(r, send_error(e, IF req[r].proxied THEN ProxyHost ELSE None))
    /\ UNCHANGED <<names, pool>>

\* ConnectTiming: the dial is over, at one of the addresses it was given.  With nobody left
\* to wait for it the connection goes to the pool.
Connected(r, peer) ==
    /\ Resolved(r) /\ peer \in dials[r].found
    /\ LET c == [host |-> req[r].host, proxied |-> req[r].proxied, peer |-> peer]
       IN  IF req[r].phase = "waiting"
             THEN /\ req' = [req EXCEPT ![r].phase = "sent", ![r].conn = c,
                                        ![r].told = @ \cup {"Connected"}]
                  /\ UNCHANGED pool
             ELSE pool' = pool \cup {c} /\ UNCHANGED req
    /\ dials' = [dials EXCEPT ![r] = None]
    /\ UNCHANGED names

\* Nothing is said of a peer that is a proxy.
origin_peer(r) == IF req[r].proxied THEN None ELSE req[r].conn.peer

\* A response; the connection is kept if there is room.
Respond(r) ==
    /\ req[r].phase = "sent"
    /\ req' = [req EXCEPT ![r].phase = "done", ![r].peer_addr = origin_peer(r)]
    /\ \/ Cardinality({c \in pool : Fits(c, r)}) < PoolMax /\ pool' = pool \cup {req[r].conn}
       \/ UNCHANGED pool
    /\ UNCHANGED <<names, dials>>

\* The send fails on its connection, which is closed.
SendFails(r) ==
    /\ req[r].phase = "sent"
    /\ \E e \in {{"request"}, {"timeout", "request"}} : Fail(r, send_error(e, None))
    /\ UNCHANGED <<names, pool, dials>>

\* pool_idle_timeout, or the other side closes it.
Close(c) ==
    /\ c \in pool
    /\ pool' = pool \ {c}
    /\ UNCHANGED <<names, dials, req>>

DialNext ==
    /\ \/ \E name \in Named, found \in Answers : Rebind(name, found)
       \/ \E r \in DialRequests :
             \/ Admit(r) \/ Dial(r) \/ Lookup(r) \/ DialFails(r) \/ Respond(r) \/ SendFails(r)
             \/ \E peer \in Addresses : Connected(r, peer)
             \/ \E c \in pool : Checkout(r, c)
       \/ \E c \in pool : Close(c)
    /\ UNCHANGED refused

DialSpec == DialInit /\ [][DialNext]_vars

-----------------------------------------------------------------------------
(* Property.                                                               *)

\* However names are rebound, and whoever opened the connection a request finds in the pool:
\* a direct request goes to no address that the resolver refuses, be it named, looked up or
\* a localhost, a literal goes where it says and a localhost to loopback; a result names the
\* peer that answered and never a proxy; a request that failed to connect was not sent, and
\* only one through a proxy is asked for a proxy's credentials (check_ip_literal,
\* ReqwestResolver, build_client, origin_peer, classify_send_error).
DialledIsApproved ==
    \A r \in DialRequests :
        LET c == req[r].conn
            host == req[r].host
        IN  /\ c # None /\ ~c.proxied =>
                  /\ refused # None => c.peer \notin refused
                  /\ host.kind = "literal" => c.peer = host.name
                  /\ host.kind = "localhost" => c.peer \in Loopback
            /\ req[r].peer_addr # None => ~c.proxied /\ req[r].peer_addr = c.peer
            /\ req[r].failed = "connect" => c = None
            /\ req[r].failed = "ProxyAuthRequired" => req[r].proxied /\ c = None
=============================================================================
