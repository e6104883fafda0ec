------------------------------ MODULE Sending ------------------------------
(***************************************************************************)
(* A request on its way to the wire: the headers a FetchRequest begins     *)
(* with (make_request_init in net/fetcher.rs, HopChain::start), what each  *)
(* send adds to them (HopChain::hop_request, add_send_headers,             *)
(* order_hop_headers), the body and its framing (RequestBody), and what    *)
(* the client, set up by build_client, puts there itself.  A hop is sent   *)
(* again with credentials and after a redirect; files change in between.   *)
(*                                                                         *)
(* A header map is a function from names to values; a value is the pair of *)
(* its author and, for a length, the number (1: another was appended).     *)
(***************************************************************************)
EXTENDS Integers, Functions

CONSTANTS Requests,    \* see RequestType
          Clients,     \* see ClientType
          Places,      \* the origins hops go to
          MaxSends,    \* bound on the sends of a chain
          MaxLen,      \* bound on the length of a body
          None

VARIABLES req, client,
          chain,    \* [method, headers, body, at, auth]: what is left of the request, where it goes
          file,     \* the length of the file on disk
          sends,    \* how many there were
          last      \* the last one: [reported, wire, method, body], None before it

vars == <<req, client, chain, file, sends, last>>

Forbidden == {"cookie", "accept-encoding", "content-length", "transfer-encoding", "host"}
Framing == {"content-length", "transfer-encoding"}
\* What goes with the body when a redirect drops it (the request-body-header names).
BodyHeaders == {"content-encoding", "content-type"} \cup Framing

By(who) == <<who, 0>>
Length(n) == <<"length", n>>

\* RequestBody: bytes, a stream that declares its length or not, or a file.
Body == [kind: {"bytes", "stream"}, len: 0..MaxLen \cup {None}, typed: BOOLEAN]
        \cup [kind: {"file"}, typed: {FALSE}]

\* hand: the headers its caller set.
RequestType ==
    [method: {"GET", "post", "POST", "PUT", "CONNECT"},
     hand: SUBSET (Forbidden \cup {"accept", "content-type", "range", "user-agent", "pragma"}),
     origin: BOOLEAN, auto_decode: BOOLEAN, body: Body \cup {None},
     mode: {"default", "no-cache", "reload"}, ordered: BOOLEAN]

\* What the fetcher built its client with: its user agent, where a rule has credentials for
\* the proxy, and the origins that answered over HTTP/2.
ClientType == [user_agent: BOOLEAN, proxied: SUBSET Places, h2: SUBSET Places]

-----------------------------------------------------------------------------
(* Header maps.                                                            *)

Insert(h, name, value) == [n \in DOMAIN h \cup {name} |-> IF n = name THEN value ELSE h[n]]
OrInsert(h, name, value) == IF name \in DOMAIN h THEN h ELSE Insert(h, name, value)
Appended(h, name, who) == Insert(h, name, IF name \in DOMAIN h THEN <<h[name][1], 1>> ELSE By(who))
Without(h, names) == Restrict(h, DOMAIN h \ names)

-----------------------------------------------------------------------------
(* The chain begins.                                                       *)

normalize_method(method) == IF method = "post" THEN "POST" ELSE method
is_forbidden_method(method) == method \in {"CONNECT", "TRACE", "TRACK"}

\* make_request_init: the caller's headers, with an Accept and the body's Content-Type.
make_request_init(q) ==
    LET accept == OrInsert([n \in q.hand |-> By("hand")], "accept", By("destination"))
    IN  IF q.body # None /\ q.body.typed THEN OrInsert(accept, "content-type", By("body")) ELSE accept

start_keeps_framing(q, headers) ==
    LET kept == Without(headers, IF q.origin THEN Forbidden ELSE {})
    IN  OrInsert(kept, "accept-encoding", By(IF q.auto_decode THEN "codings" ELSE "identity"))

\* HopChain::start: without what is not the caller's to set; a range is of what is not encoded.
start(q, headers) ==
    LET kept == Without(headers, Framing \cup (IF q.origin THEN Forbidden ELSE {}))
    IN  IF "range" \in DOMAIN kept THEN Appended(kept, "accept-encoding", "identity")
        ELSE OrInsert(kept, "accept-encoding", By(IF q.auto_decode THEN "codings" ELSE "identity"))

SendInit ==
    /\ req \in Requests /\ client \in Clients /\ file \in 0..MaxLen
    /\ sends = 0 /\ last = None
    /\ chain \in [method: {normalize_method(req.method)}, headers: {start(req, make_request_init(req))},
                  body: {req.body}, at: Places, auth: {{}}, over: {req.origin /\ is_forbidden_method(req.method)}]

-----------------------------------------------------------------------------
(* One send.                                                               *)

\* RequestBody::to_reqwest_body: the length to declare, None for none.
to_reqwest_body(body) ==
    CASE body.kind = "file"   -> file
      [] body.kind = "stream" -> body.len
      [] body.kind = "bytes"  -> IF body.len = 0 THEN None ELSE body.len

\* What the cache mode asks of the caches on the way, and the proxy's credentials.
add_send_headers(h) ==
    LET pragma  == IF req.mode = "reload" THEN OrInsert(h, "pragma", By("mode")) ELSE h
        control == IF req.mode = "default" THEN pragma ELSE OrInsert(pragma, "cache-control", By("mode"))
    IN  IF chain.at \in client.proxied THEN OrInsert(control, "proxy-authorization", By("rule")) ELSE control

\* order_hop_headers: what would come last is put where it can be ordered.
order_hop_headers(h) ==
    LET agent == IF client.user_agent THEN OrInsert(h, "user-agent", By("client")) ELSE h
    IN  IF ~req.ordered THEN h
        ELSE IF chain.at \in client.h2 THEN agent ELSE OrInsert(agent, "host", By("url"))

\* RequestSent: the headers of the request, and the user agent the client is about to add.
reported(h) == IF client.user_agent THEN OrInsert(h, "user-agent", By("client")) ELSE h

\* The headers of the request as it is built.
hop_request ==
    LET auth == [n \in DOMAIN chain.headers \cup chain.auth |->
                    IF n \in chain.auth THEN By("challenge") ELSE chain.headers[n]]
        h    == add_send_headers(auth)
        len  == IF chain.body # None THEN to_reqwest_body(chain.body)
                ELSE IF chain.method \in {"POST", "PUT"} THEN 0 ELSE None
    IN  order_hop_headers(IF len = None THEN h ELSE Insert(h, "content-length", Length(len)))

\* How many bytes the body of this send has.
BodyLen == IF chain.body = None THEN 0 ELSE IF chain.body.kind = "file" THEN file ELSE chain.body.len

\* What the client adds of its own, with what build_client gave it, when it executes a request.
Execute(h) ==
    LET defaults == OrInsert(IF client.user_agent THEN OrInsert(h, "user-agent", By("client")) ELSE h,
                             "accept", By("client"))
        proxy    == IF chain.at \in client.proxied THEN OrInsert(defaults, "proxy-authorization", By("client"))
                    ELSE defaults
        host     == IF chain.at \in client.h2 THEN proxy ELSE OrInsert(proxy, "host", By("url"))
    IN  IF BodyLen = None /\ "content-length" \notin DOMAIN h THEN OrInsert(host, "transfer-encoding", By("client"))
        ELSE IF BodyLen # None /\ BodyLen > 0 THEN OrInsert(host, "content-length", Length(BodyLen)) ELSE host

Send ==
    /\ ~chain.over /\ sends < MaxSends /\ last = None
    /\ sends' = sends + 1
    /\ last' = [reported |-> reported(hop_request), wire |-> Execute(hop_request), method |-> chain.method,
                body |-> chain.body, len |-> BodyLen, at |-> chain.at]
    /\ UNCHANGED <<req, client, chain, file>>

\* A challenge of the server or of the proxy is answered.
Challenged(name) ==
    /\ last # None
    /\ name = "proxy-authorization" => chain.at \in client.proxied
    /\ chain' = [chain EXCEPT !.auth = @ \cup {name}] /\ last' = None
    /\ UNCHANGED <<req, client, file, sends>>

\* follow_redirect: the body goes with the method, and what was the other origin's stays there.
follow_redirect(status, to) ==
    LET to_get   == \/ status = 302 /\ chain.method = "POST"
                    \/ status = 303 /\ chain.method # "GET"
        stripped == Without(chain.headers, (IF to_get THEN BodyHeaders ELSE {})
                                           \cup (IF to # chain.at THEN {"cookie"} ELSE {}))
    IN  /\ last # None /\ last' = None
        /\ chain' = [chain EXCEPT !.method = IF to_get THEN "GET" ELSE @, !.body = IF to_get THEN None ELSE @,
                                  !.headers = stripped, !.at = to, !.auth = {}]
        /\ UNCHANGED <<req, client, file, sends>>

\* Another program writes the file.
FileChanges(len) ==
    /\ chain.body # None /\ chain.body.kind = "file" /\ len # file
    /\ file' = len
    /\ UNCHANGED <<req, client, chain, sends, last>>

SendNext ==
    \/ Send
    \/ \E name \in {"authorization", "proxy-authorization"} : Challenged(name)
    \/ \E status \in {302, 303, 307}, to \in Places : follow_redirect(status, to)
    \/ \E len \in 0..MaxLen : FileChanges(len)

SendSpec == SendInit /\ [][SendNext]_vars

-----------------------------------------------------------------------------
(* Property.                                                               *)

\* RequestSent tells of each send what goes on the wire, but for what the protocol of the
\* connection decides; and the framing there is the body's own: its length as of this send,
\* or chunks, and never both, never one that a caller wrote or that belonged to a body a
\* redirect has dropped; and web content gets no header through that it may not set
\* (hop_request, to_reqwest_body, HopChain::start, build_policy).
ReportedIsSent ==
    last # None =>
        LET w == last.wire
            r == last.reported
            Connection == {"host", "transfer-encoding"}
            chunked == "transfer-encoding" \in DOMAIN w
            known   == "content-length" \in DOMAIN w
        IN  /\ \A n \in DOMAIN w \ Connection : n \in DOMAIN r /\ r[n] = w[n]
            /\ \A n \in DOMAIN r : n \in DOMAIN w /\ r[n] = w[n]
            /\ ~(chunked /\ known)
            /\ last.len = None => chunked
            /\ last.len # None /\ last.len > 0 => known /\ w["content-length"] = Length(last.len)
            /\ last.body = None => /\ ~chunked
                                   /\ known <=> last.method \in {"POST", "PUT"}
                                   /\ known => w["content-length"] = Length(0)
                                   /\ "content-type" \in DOMAIN w => "content-type" \in req.hand
            /\ req.origin => ~is_forbidden_method(last.method)
                             /\ \A n \in Forbidden \cap DOMAIN w : w[n] # By("hand")
=============================================================================
