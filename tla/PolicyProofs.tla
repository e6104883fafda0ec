--------------------------- MODULE PolicyProofs ---------------------------
(***************************************************************************)
(* Proofs about the stores and rules that requests consult, each under the *)
(* letter it has in RequestPolicies.                                       *)
(***************************************************************************)
EXTENDS RequestPolicies, FiniteSetTheorems, WellFoundedInduction, TLAPS

-----------------------------------------------------------------------------
(* Sets of numbers have least elements.                                    *)

Less == {p \in Nat \X Nat : p[1] < p[2]}

LEMMA LessIsWellFounded == IsWellFoundedOn(Less, Nat)
  BY NatLessThanWellFounded DEF OpToRel, Less

\* Every set of numbers that is not empty has a least element, which a first of several
\* rules, kinds or challenges is.
LEMMA Least ==
    ASSUME NEW T, T \subseteq Nat, T # {}
    PROVE  \E x \in T : \A y \in T : x <= y
<1>1. PICK x \in T : \A y \in T : ~(<<y, x>> \in Less)
  BY LessIsWellFounded, WFMin
<1>2. ASSUME NEW y \in T
      PROVE  x <= y
  <2>1. <<y, x>> \in Nat \X Nat /\ ~(<<y, x>> \in Less)
    BY <1>1
  <2>2. ~(y < x)
    BY <2>1 DEF Less
  <2> QED BY <2>2
<1> QED BY <1>2

\* A set of numbers that begins at 0 and has no last one has them all.
LEMMA Induction == ASSUME NEW T, 0 \in T, \A n \in T : n + 1 \in T PROVE Nat \subseteq T
<1>1. SUFFICES ASSUME Nat \ T # {} PROVE FALSE
  OBVIOUS
<1>2. PICK x \in Nat \ T : \A y \in Nat \ T : x <= y
  BY <1>1, Least
<1>3. x # 0 /\ x - 1 \in Nat /\ ~(x <= x - 1) /\ (x - 1) + 1 = x
  OBVIOUS
<1>4. x - 1 \in T
  BY <1>2, <1>3
<1>5. (x - 1) + 1 \in T
  BY <1>4
<1> QED
  BY <1>3, <1>5

-----------------------------------------------------------------------------
(* Dialing.  The invariant says of everything a request may come to be     *)
(* sent on, idle connections, dials under way and the addresses they       *)
(* found, what the property says of the connection it was sent on.         *)

Connections == [host: Hosts, proxied: BOOLEAN, peer: Addresses]

AskedType ==
    [host: Hosts, proxied: BOOLEAN, phase: {"new", "waiting", "sent", "done", "failed"},
     told: SUBSET {"DnsResolved", "Connected"}, conn: Connections \cup {None},
     peer_addr: Addresses \cup {None}, failed: G!Reasons \cup {None}]

DialTypeOK ==
    /\ pool \subseteq Connections
    /\ DOMAIN dials = DialRequests /\ dials = [r \in DialRequests |-> dials[r]]
    /\ asked \in [DialRequests -> AskedType]

\* A direct connection to this host may be to this address.
Approved(host, peer) ==
    /\ refused # None => peer \notin refused
    /\ host.kind = "literal" => peer = host.name
    /\ host.kind = "localhost" => peer \in Loopback

\* Nobody has looked, or the dial is where Dial or Lookup left it.
DialGood(r) ==
    \/ dials[r] = None
    \/ dials[r] = [host |-> G!Dialled(r)] /\ G!Dialled(r).kind # "literal"
    \/ /\ dials[r] = [found |-> dials[r].found]
       /\ ~asked[r].proxied => \A a \in dials[r].found : Approved(asked[r].host, a)

RequestGood(q) ==
    /\ q.phase \in {"sent", "done"} \/ q.conn # None =>
          /\ q.conn \in Connections /\ q.conn.host = q.host /\ q.conn.proxied = q.proxied
          /\ ~q.proxied => Approved(q.host, q.conn.peer)
    /\ q.phase \in {"new", "waiting"} => q.conn = None
    /\ q.phase # "failed" => q.failed = None
    /\ q.phase # "done" => q.peer_addr = None
    /\ q.peer_addr # None => ~q.proxied /\ q.peer_addr = q.conn.peer /\ ~q.conn.proxied
    /\ q.failed = "connect" => q.conn = None
    /\ q.failed = "ProxyAuthRequired" => q.proxied /\ q.conn = None

DialInv ==
    /\ DialTypeOK
    /\ \A c \in pool : ~c.proxied => Approved(c.host, c.peer)
    /\ \A r \in DialRequests :
          /\ RequestGood(asked[r]) /\ DialGood(r)
          /\ asked[r].phase = "waiting" \/ dials[r] # None => G!check_ip_literal(asked[r].host)

\* from_client finds one of the kinds the error has, the first it is asked for.
LEMMA FromClient ==
    ASSUME NEW e
    PROVE  G!from_client(e) = "other" \/ (G!from_client(e) \in e /\ G!from_client(e) \in G!Reasons)
<1> DEFINE said == {i \in DOMAIN G!Asked : G!Asked[i] \in e}
<1>1. DOMAIN G!Asked = 1..7
  BY DEF G!Asked
<1>2. ASSUME said # {}
      PROVE  \E i \in said : \A j \in said : i <= j
  <2> HIDE DEF said
  <2>1. said \subseteq Nat
    BY <1>1 DEF said
  <2> QED BY <1>2, <2>1, Least
<1>3. \A i \in 1..7 : G!Asked[i] \in G!Reasons
  BY DEF G!Asked, G!Reasons
<1>4. CASE said = {}
  BY <1>4 DEF G!from_client
<1>5. CASE said # {}
  <2>1. PICK i \in said : i = CHOOSE k \in said : \A j \in said : k <= j
    BY <1>2, <1>5
  <2>2. G!from_client(e) = G!Asked[i]
    BY <1>5, <2>1 DEF G!from_client
  <2> QED BY <1>1, <1>3, <2>1, <2>2
<1> QED BY <1>4, <1>5

\* What a failed dial is called.
LEMMA DialError ==
    ASSUME G!NoneIsNoFailure, NEW r, NEW p, NEW e \in G!DialErrors(r), p # None => asked[r].proxied
    PROVE  /\ G!send_error(e, p) \in G!Reasons
           /\ G!send_error(e, p) = "ProxyAuthRequired" => asked[r].proxied
<1>1. "ProxyAuthRequired" \notin e
  BY DEF G!DialErrors
<1>2. G!from_client(e \ {"tls", "tunnel"}) \in G!Reasons \ {"ProxyAuthRequired"}
  BY <1>1, FromClient DEF G!Reasons
<1> QED BY <1>2 DEF G!send_error, G!classify_send_error, G!Reasons, G!NoneIsNoFailure

\* A send that fails is not taken for a failure to connect.
LEMMA SendError ==
    ASSUME G!NoneIsNoFailure, NEW e \in {{"request"}, {"timeout", "request"}}
    PROVE  G!send_error(e, None) \in G!Reasons \ {"connect", "ProxyAuthRequired"}
<1>1. "connect" \notin e /\ "ProxyAuthRequired" \notin e /\ "tls" \notin e /\ "tunnel" \notin e
  OBVIOUS
<1>2. G!from_client(e \ {"tls", "tunnel"}) \in G!Reasons \ {"connect", "ProxyAuthRequired"}
  BY <1>1, FromClient DEF G!Reasons
<1> QED BY <1>1, <1>2 DEF G!send_error, G!classify_send_error

\* What the resolver finds may be connected to.
LEMMA ResolveApproved ==
    ASSUME NEW host, host.kind # "literal", NEW a \in G!resolve(host)
    PROVE  Approved(host, a)
<1>1. CASE host.kind = "localhost"
  BY <1>1 DEF G!resolve, G!DnsResolver, G!SystemResolver, Approved
<1>2. CASE host.kind # "localhost"
  BY <1>2 DEF G!resolve, G!DnsResolver, G!SystemResolver, Approved
<1> QED BY <1>1, <1>2

\* A step of one request, which becomes q with the dial d: the rest is as it was, and so is
\* whom it is for.
OneRequest(r, q, d) ==
    /\ refused' = refused
    /\ asked' = [asked EXCEPT ![r] = q] /\ dials' = [dials EXCEPT ![r] = d]
    /\ q \in AskedType /\ q.host = asked[r].host /\ q.proxied = asked[r].proxied

\* ... and it keeps the invariant for this request.
KeptFor(r, q, d) ==
    /\ RequestGood(q)
    /\ \/ d = None
       \/ d = [host |-> G!Dialled(r)] /\ G!Dialled(r).kind # "literal"
       \/ d = [found |-> d.found] /\ (~q.proxied => \A a \in d.found : Approved(q.host, a))
    /\ q.phase = "waiting" \/ d # None => G!check_ip_literal(q.host)

PoolGood(p) == p \subseteq Connections /\ \A c \in p : ~c.proxied => Approved(c.host, c.peer)

\* Such a step keeps the invariant.
LEMMA OneRequestStep ==
    ASSUME DialInv, NEW r \in DialRequests, NEW q, NEW d,
           OneRequest(r, q, d), KeptFor(r, q, d), PoolGood(pool')
    PROVE  DialInv'
<1>1. DialTypeOK'
  BY DEF DialInv, DialTypeOK, OneRequest, PoolGood
<1>2. \A host, peer : Approved(host, peer)' = Approved(host, peer)
  BY DEF OneRequest, Approved
<1>3. \A host : G!check_ip_literal(host)' = G!check_ip_literal(host)
  BY DEF OneRequest, G!check_ip_literal, G!DnsResolver, G!SystemResolver
<1>4. asked'[r] = q /\ dials'[r] = d
  BY DEF DialInv, DialTypeOK, OneRequest
<1>5. \A s \in DialRequests : s # r => asked'[s] = asked[s] /\ dials'[s] = dials[s]
  BY DEF DialInv, DialTypeOK, OneRequest
<1>6. \A s \in DialRequests : G!Dialled(s)' = G!Dialled(s)
  BY <1>4, <1>5 DEF G!Dialled, OneRequest
<1>7. \A c \in pool' : ~c.proxied => Approved(c.host, c.peer)'
  BY <1>2 DEF PoolGood
<1>8. ASSUME NEW s \in DialRequests
      PROVE  /\ RequestGood(asked[s])' /\ DialGood(s)'
             /\ asked'[s].phase = "waiting" \/ dials'[s] # None => G!check_ip_literal(asked[s].host)'
  <2>1. CASE s = r
    <3>1. RequestGood(asked[s])'
      BY <1>2, <1>4, <2>1 DEF KeptFor, RequestGood, Approved, OneRequest
    <3>2. DialGood(s)'
      BY <1>2, <1>4, <1>6, <2>1 DEF KeptFor, DialGood
    <3>3. asked'[s].phase = "waiting" \/ dials'[s] # None => G!check_ip_literal(asked[s].host)'
      BY <1>4, <2>1 DEF KeptFor, OneRequest, G!check_ip_literal, G!DnsResolver, G!SystemResolver
    <3> QED BY <3>1, <3>2, <3>3
  <2>2. CASE s # r
    <3>0. RequestGood(asked[s]) /\ DialGood(s)
          /\ (asked[s].phase = "waiting" \/ dials[s] # None => G!check_ip_literal(asked[s].host))
      BY DEF DialInv
    <3>1. RequestGood(asked[s])'
      BY <1>5, <2>2, <3>0 DEF RequestGood, Approved, OneRequest
    <3>2. DialGood(s)'
      BY <1>2, <1>5, <1>6, <2>2, <3>0 DEF DialGood
    <3>3. asked'[s].phase = "waiting" \/ dials'[s] # None => G!check_ip_literal(asked[s].host)'
      BY <1>5, <2>2, <3>0 DEF OneRequest, G!check_ip_literal, G!DnsResolver, G!SystemResolver
    <3> QED BY <3>1, <3>2, <3>3
  <2> QED BY <2>1, <2>2
<1> QED BY <1>1, <1>7, <1>8 DEF DialInv

\* The part of the invariant that is about one request.
LEMMA OfRequest ==
    ASSUME DialInv, NEW r \in DialRequests
    PROVE  /\ asked[r] \in AskedType /\ RequestGood(asked[r]) /\ DialGood(r)
           /\ asked[r].phase = "waiting" \/ dials[r] # None => G!check_ip_literal(asked[r].host)
           /\ PoolGood(pool)
           /\ dials = [dials EXCEPT ![r] = dials[r]] /\ asked = [asked EXCEPT ![r] = asked[r]]
  BY DEF DialInv, DialTypeOK, PoolGood

\* Admission: a literal that the resolver refuses gets no further.
LEMMA AdmitKeeps ==
    ASSUME DialInv, G!NoneIsNoFailure, NEW r \in DialRequests, G!Admit(r), refused' = refused
    PROVE  DialInv'
<1> DEFINE old == asked[r]
<1>1. old \in AskedType /\ RequestGood(old) /\ old.phase = "new" /\ PoolGood(pool')
  BY OfRequest DEF G!Admit
<1>2. DialGood(r) /\ dials' = [dials EXCEPT ![r] = dials[r]]
      /\ (dials[r] # None => G!check_ip_literal(old.host))
  BY OfRequest DEF G!Admit
<1>3. CASE G!check_ip_literal(old.host)
  <2>1. PICK q : q = [old EXCEPT !.phase = "waiting"]
    OBVIOUS
  <2>2. OneRequest(r, q, dials[r])
    BY <1>1, <1>2, <1>3, <2>1 DEF OneRequest, G!Admit, AskedType
  <2>3. KeptFor(r, q, dials[r])
    BY <1>1, <1>2, <1>3, <2>1 DEF KeptFor, RequestGood, AskedType, DialGood
  <2> QED BY <1>1, <2>2, <2>3, OneRequestStep
<1>4. CASE ~G!check_ip_literal(old.host)
  <2>1. PICK q : q = [old EXCEPT !.phase = "failed", !.failed = "connect"]
    OBVIOUS
  <2>2. OneRequest(r, q, dials[r])
    BY <1>1, <1>2, <1>4, <2>1 DEF OneRequest, G!Admit, G!Fail, AskedType, G!Reasons
  <2>3. KeptFor(r, q, dials[r])
    BY <1>1, <1>2, <1>4, <2>1 DEF KeptFor, RequestGood, AskedType, DialGood
  <2> QED BY <1>1, <2>2, <2>3, OneRequestStep
<1> QED BY <1>3, <1>4

\* An idle connection is as good for this request as for the one that opened it.
LEMMA CheckoutKeeps ==
    ASSUME DialInv, G!NoneIsNoFailure, NEW r \in DialRequests, NEW c, G!Checkout(r, c), refused' = refused
    PROVE  DialInv'
<1> DEFINE old == asked[r]
<1>1. old \in AskedType /\ RequestGood(old) /\ old.phase = "waiting"
      /\ c \in Connections /\ c.host = old.host /\ c.proxied = old.proxied
  BY OfRequest DEF G!Checkout, G!Fits, PoolGood
<1>2. ~old.proxied => Approved(old.host, c.peer)
  BY <1>1, OfRequest DEF G!Checkout, PoolGood
<1>3. PoolGood(pool')
  BY OfRequest DEF G!Checkout, PoolGood
<1>4. DialGood(r) /\ dials' = [dials EXCEPT ![r] = dials[r]]
      /\ (dials[r] # None => G!check_ip_literal(old.host))
  BY OfRequest DEF G!Checkout
<1>5. PICK q : q = [old EXCEPT !.phase = "sent", !.conn = c]
  OBVIOUS
<1>6. OneRequest(r, q, dials[r])
  BY <1>1, <1>4, <1>5 DEF OneRequest, G!Checkout, AskedType
<1>7. KeptFor(r, q, dials[r])
  <2>1. RequestGood(q)
    BY <1>1, <1>2, <1>5 DEF RequestGood, AskedType, G!NoneIsNoFailure, G!Reasons
  <2> QED BY <1>1, <1>4, <1>5, <2>1 DEF KeptFor, AskedType, DialGood
<1> QED BY <1>3, <1>6, <1>7, OneRequestStep
\* A dial begins: at the address a literal is, which was put to the resolver at admission, or
\* with a name.
LEMMA DialKeeps ==
    ASSUME DialInv, NEW r \in DialRequests, G!Dial(r), refused' = refused
    PROVE  DialInv'
<1> DEFINE old == asked[r]
<1>1. old \in AskedType /\ RequestGood(old) /\ old.phase = "waiting" /\ PoolGood(pool')
      /\ asked' = [asked EXCEPT ![r] = old] /\ G!check_ip_literal(old.host)
  BY OfRequest DEF G!Dial
<1>2. PICK d : d = IF G!Dialled(r).kind = "literal" THEN [found |-> {G!Dialled(r).name}]
                   ELSE [host |-> G!Dialled(r)]
  OBVIOUS
<1>3. OneRequest(r, old, d)
  BY <1>1, <1>2 DEF OneRequest, G!Dial
<1>4. KeptFor(r, old, d)
  <2>1. CASE G!Dialled(r).kind = "literal"
    <3>1. d = [found |-> d.found] /\ d.found = {G!Dialled(r).name}
      BY <1>2, <2>1
    <3>2. ASSUME ~old.proxied
          PROVE  Approved(old.host, old.host.name)
      BY <1>1, <2>1, <3>2 DEF G!Dialled, G!check_ip_literal, G!DnsResolver, G!SystemResolver, Approved
    <3> QED BY <1>1, <3>1, <3>2 DEF KeptFor, G!Dialled
  <2>2. CASE G!Dialled(r).kind # "literal"
    BY <1>1, <1>2, <2>2 DEF KeptFor
  <2> QED BY <2>1, <2>2
<1> QED BY <1>1, <1>3, <1>4, OneRequestStep

\* What an observer is told changes nothing of a request that the invariant is about.
LEMMA ToldGood ==
    ASSUME NEW q \in AskedType, RequestGood(q), NEW event \in {"DnsResolved", "Connected"}
    PROVE  [q EXCEPT !.told = @ \cup {event}] \in AskedType
           /\ RequestGood([q EXCEPT !.told = @ \cup {event}])
  BY DEF AskedType, RequestGood

\* The name of a dial is looked up.
LEMMA LookupKeeps ==
    ASSUME DialInv, NEW r \in DialRequests, G!Lookup(r), refused' = refused
    PROVE  DialInv'
<1> DEFINE old == asked[r]
<1>1. old \in AskedType /\ RequestGood(old) /\ PoolGood(pool') /\ G!check_ip_literal(old.host)
  BY OfRequest DEF G!Lookup, G!Dialling
<1>2. dials[r] = [host |-> G!Dialled(r)] /\ G!Dialled(r).kind # "literal"
  <2>1. ASSUME dials[r] = [found |-> dials[r].found]
        PROVE  FALSE
    <3>1. "found" \in DOMAIN [found |-> dials[r].found]
      OBVIOUS
    <3> QED BY <2>1, <3>1 DEF G!Lookup, G!Resolved
  <2> QED BY <2>1, OfRequest DEF G!Lookup, G!Dialling, DialGood
<1>3. PICK found : found = G!resolve(G!Dialled(r))
  OBVIOUS
<1>4. \A a \in found : Approved(G!Dialled(r), a)
  BY <1>2, <1>3, ResolveApproved
<1>5. dials[r].host = G!Dialled(r)
  BY <1>2
<1>6. PICK d : d = [found |-> found]
  OBVIOUS
<1>7. dials' = [dials EXCEPT ![r] = d]
  BY <1>3, <1>5, <1>6 DEF G!Lookup
<1>8. PICK q : q = IF old.phase = "waiting" THEN [old EXCEPT !.told = @ \cup {"DnsResolved"}] ELSE old
  OBVIOUS
<1>9. q \in AskedType /\ RequestGood(q) /\ q.host = old.host /\ q.proxied = old.proxied
  BY <1>1, <1>8, ToldGood DEF AskedType
<1>10. asked' = [asked EXCEPT ![r] = q]
  BY <1>8, OfRequest DEF G!Lookup, G!emit_to_current
<1>11. OneRequest(r, q, d)
  BY <1>7, <1>9, <1>10 DEF OneRequest
<1>12. KeptFor(r, q, d)
  <2>1. d = [found |-> d.found] /\ d.found = found
    BY <1>6
  <2> QED BY <1>1, <1>4, <1>9, <2>1 DEF KeptFor, G!Dialled
<1> QED BY <1>1, <1>11, <1>12, OneRequestStep

\* A dial fails, and with it the request that waits for it.
LEMMA DialFailsKeeps ==
    ASSUME DialInv, G!NoneIsNoFailure, NEW r \in DialRequests, G!DialFails(r), refused' = refused
    PROVE  DialInv'
<1> DEFINE old == asked[r]
<1>1. old \in AskedType /\ RequestGood(old) /\ PoolGood(pool') /\ G!check_ip_literal(old.host)
      /\ dials' = [dials EXCEPT ![r] = None]
  BY OfRequest DEF G!DialFails, G!Dialling
<1>2. CASE old.phase # "waiting"
  <2>1. OneRequest(r, old, None)
    BY <1>1, <1>2, OfRequest DEF OneRequest, G!DialFails
  <2>2. KeptFor(r, old, None)
    BY <1>1, <1>2 DEF KeptFor
  <2> QED BY <1>1, <2>1, <2>2, OneRequestStep
<1>3. CASE old.phase = "waiting"
  <2>1. PICK e \in G!DialErrors(r) : G!Fail(r, G!send_error(e, IF old.proxied THEN ProxyHost ELSE None))
    BY <1>3 DEF G!DialFails
  <2>2. PICK why : why = G!send_error(e, IF old.proxied THEN ProxyHost ELSE None)
    OBVIOUS
  <2>3. why \in G!Reasons /\ (why = "ProxyAuthRequired" => old.proxied)
    BY <2>2, DialError
  <2>4. PICK q : q = [old EXCEPT !.phase = "failed", !.failed = why]
    OBVIOUS
  <2>5. OneRequest(r, q, None)
    BY <1>1, <2>1, <2>2, <2>3, <2>4 DEF OneRequest, G!Fail, AskedType
  <2>6. KeptFor(r, q, None)
    BY <1>1, <1>3, <2>3, <2>4 DEF KeptFor, RequestGood, AskedType
  <2> QED BY <1>1, <2>5, <2>6, OneRequestStep
<1> QED BY <1>2, <1>3
\* A dial is over at an address it found: for its request, or for the pool.
LEMMA ConnectedKeeps ==
    ASSUME DialInv, G!NoneIsNoFailure, NEW r \in DialRequests, NEW peer \in Addresses,
           G!Connected(r, peer), refused' = refused
    PROVE  DialInv'
<1> DEFINE old == asked[r]
<1>1. old \in AskedType /\ RequestGood(old) /\ PoolGood(pool) /\ G!check_ip_literal(old.host)
      /\ dials' = [dials EXCEPT ![r] = None]
  BY OfRequest DEF G!Connected, G!Resolved, G!Dialling
<1>2. ~old.proxied => Approved(old.host, peer)
  <2>1. dials[r] # [host |-> G!Dialled(r)]
    <3>1. "found" \notin DOMAIN [host |-> G!Dialled(r)]
      OBVIOUS
    <3> QED BY <3>1 DEF G!Connected, G!Resolved
  <2> QED BY <2>1, OfRequest DEF G!Connected, G!Resolved, G!Dialling, DialGood
<1>3. PICK c : c = [host |-> old.host, proxied |-> old.proxied, peer |-> peer]
  OBVIOUS
<1>4. c \in Connections /\ c.host = old.host /\ c.proxied = old.proxied /\ c.peer = peer
  BY <1>1, <1>3 DEF Connections, AskedType
<1>5. CASE old.phase = "waiting"
  <2>1. PICK q : q = [old EXCEPT !.phase = "sent", !.conn = c, !.told = @ \cup {"Connected"}]
    OBVIOUS
  <2>2. asked' = [asked EXCEPT ![r] = q] /\ pool' = pool
    BY <1>3, <1>5, <2>1 DEF G!Connected
  <2>3. q \in AskedType /\ q.host = old.host /\ q.proxied = old.proxied /\ q.phase = "sent"
        /\ q.conn = c /\ q.failed = old.failed /\ q.peer_addr = old.peer_addr
    BY <1>1, <1>4, <2>1 DEF AskedType
  <2>4. OneRequest(r, q, None)
    BY <1>1, <2>2, <2>3 DEF OneRequest
  <2>5. KeptFor(r, q, None)
    BY <1>1, <1>2, <1>4, <1>5, <2>3 DEF KeptFor, RequestGood, G!NoneIsNoFailure, G!Reasons
  <2> QED BY <1>1, <2>2, <2>4, <2>5, OneRequestStep
<1>6. CASE old.phase # "waiting"
  <2>1. pool' = pool \cup {c} /\ asked' = asked
    BY <1>3, <1>6 DEF G!Connected
  <2>2. PoolGood(pool')
    BY <1>1, <1>2, <1>4, <2>1 DEF PoolGood
  <2>3. OneRequest(r, old, None)
    BY <1>1, <2>1, OfRequest DEF OneRequest
  <2>4. KeptFor(r, old, None)
    BY <1>1, <1>6 DEF KeptFor
  <2> QED BY <2>2, <2>3, <2>4, OneRequestStep
<1> QED BY <1>5, <1>6

\* A response names its peer, and its connection may be kept.
LEMMA RespondKeeps ==
    ASSUME DialInv, G!NoneIsNoFailure, NEW r \in DialRequests, G!Respond(r), refused' = refused
    PROVE  DialInv'
<1> DEFINE old == asked[r]
<1>1. old \in AskedType /\ RequestGood(old) /\ PoolGood(pool) /\ old.phase = "sent" /\ DialGood(r)
      /\ dials' = [dials EXCEPT ![r] = dials[r]] /\ (dials[r] # None => G!check_ip_literal(old.host))
  BY OfRequest DEF G!Respond
<1>2. old.conn \in Connections /\ old.conn.host = old.host /\ old.conn.proxied = old.proxied
      /\ (~old.proxied => Approved(old.host, old.conn.peer))
  BY <1>1 DEF RequestGood
<1>3. PoolGood(pool')
  <2>1. pool' \subseteq pool \cup {old.conn}
    BY DEF G!Respond
  <2> QED BY <1>1, <1>2, <2>1 DEF PoolGood
<1>4. PICK p : p = G!origin_peer(r)
  OBVIOUS
<1>5. p \in Addresses \cup {None} /\ (p # None => ~old.proxied /\ p = old.conn.peer)
  BY <1>2, <1>4 DEF G!origin_peer, Connections
<1>6. PICK q : q = [old EXCEPT !.phase = "done", !.peer_addr = p]
  OBVIOUS
<1>7. OneRequest(r, q, dials[r])
  BY ZenonT(60), <1>1, <1>4, <1>5, <1>6 DEF OneRequest, G!Respond, AskedType
<1>8. KeptFor(r, q, dials[r])
  <2>1. RequestGood(q)
    BY <1>1, <1>2, <1>5, <1>6 DEF RequestGood, AskedType
  <2> QED BY <1>1, <1>6, <2>1 DEF KeptFor, AskedType, DialGood
<1> QED BY <1>3, <1>7, <1>8, OneRequestStep

\* A send fails on the connection it was given.
LEMMA SendFailsKeeps ==
    ASSUME DialInv, G!NoneIsNoFailure, NEW r \in DialRequests, G!SendFails(r), refused' = refused
    PROVE  DialInv'
<1> DEFINE old == asked[r]
<1>1. old \in AskedType /\ RequestGood(old) /\ PoolGood(pool') /\ old.phase = "sent" /\ DialGood(r)
      /\ dials' = [dials EXCEPT ![r] = dials[r]] /\ (dials[r] # None => G!check_ip_literal(old.host))
  BY OfRequest DEF G!SendFails
<1>2. PICK e \in {{"request"}, {"timeout", "request"}} : G!Fail(r, G!send_error(e, None))
  BY DEF G!SendFails
<1>3. PICK why : why = G!send_error(e, None)
  OBVIOUS
<1>4. why \in G!Reasons \ {"connect", "ProxyAuthRequired"}
  BY <1>3, SendError
<1>5. PICK q : q = [old EXCEPT !.phase = "failed", !.failed = why]
  OBVIOUS
<1>6. OneRequest(r, q, dials[r])
  BY <1>1, <1>2, <1>3, <1>4, <1>5 DEF OneRequest, G!Fail, AskedType
<1>7. KeptFor(r, q, dials[r])
  <2>1. RequestGood(q)
    BY <1>1, <1>4, <1>5 DEF RequestGood, AskedType
  <2> QED BY <1>1, <1>5, <2>1 DEF KeptFor, AskedType, DialGood
<1> QED BY <1>1, <1>6, <1>7, OneRequestStep

\* Nobody has asked for anything yet.
LEMMA DialStart ==
    ASSUME G!NoneIsNoFailure, G!DialInit
    PROVE  DialInv
<1>1. DialTypeOK
  BY DEF G!DialInit, DialTypeOK, AskedType
<1>2. ASSUME NEW r \in DialRequests
      PROVE  RequestGood(asked[r]) /\ dials[r] = None /\ asked[r].phase = "new"
  BY DEF G!DialInit, RequestGood, G!NoneIsNoFailure, G!Reasons
<1> QED BY <1>1, <1>2 DEF DialInv, DialGood, G!DialInit

\* Names are rebound and connections closed: nothing that the invariant speaks of changes for
\* the worse.
LEMMA ElsewhereKeeps ==
    ASSUME DialInv, UNCHANGED <<refused, dials, asked>>, pool' \subseteq pool
    PROVE  DialInv'
<1>1. DialTypeOK'
  BY DEF DialInv, DialTypeOK
<1>2. \A c \in pool' : ~c.proxied => Approved(c.host, c.peer)'
  BY DEF DialInv, Approved
<1>3. ASSUME NEW r \in DialRequests
      PROVE  /\ RequestGood(asked[r])' /\ DialGood(r)'
             /\ asked'[r].phase = "waiting" \/ dials'[r] # None => G!check_ip_literal(asked[r].host)'
  <2>1. RequestGood(asked[r])'
    BY OfRequest DEF RequestGood, Approved
  <2>2. DialGood(r)'
    BY OfRequest DEF DialGood, Approved, G!Dialled
  <2> QED BY <2>1, <2>2, OfRequest DEF G!check_ip_literal, G!DnsResolver, G!SystemResolver
<1> QED BY <1>1, <1>2, <1>3 DEF DialInv

\* Every step keeps the invariant.
LEMMA DialStep ==
    ASSUME G!NoneIsNoFailure, DialInv, [G!DialNext]_(G!vars)
    PROVE  DialInv'
<1>1. CASE G!DialNext
  <2>1. refused' = refused
    BY <1>1 DEF G!DialNext
  <2>2. ASSUME NEW name, NEW found, G!Rebind(name, found)
        PROVE  DialInv'
    BY <2>1, <2>2, ElsewhereKeeps DEF G!Rebind
  <2>3. ASSUME NEW c, G!Close(c)
        PROVE  DialInv'
    BY <2>1, <2>3, ElsewhereKeeps DEF G!Close
  <2>4. ASSUME NEW r \in DialRequests,
               \/ G!Admit(r) \/ G!Dial(r) \/ G!Lookup(r) \/ G!DialFails(r) \/ G!Respond(r) \/ G!SendFails(r)
               \/ \E peer \in Addresses : G!Connected(r, peer)
               \/ \E c \in pool : G!Checkout(r, c)
        PROVE  DialInv'
    BY <2>1, <2>4, AdmitKeeps, DialKeeps, LookupKeeps, DialFailsKeeps, RespondKeeps, SendFailsKeeps,
       ConnectedKeeps, CheckoutKeeps
  <2> QED BY <1>1, <2>2, <2>3, <2>4 DEF G!DialNext
<1>2. CASE UNCHANGED G!vars
  BY <1>2, ElsewhereKeeps DEF G!vars
<1> QED BY <1>1, <1>2

\* Whatever names come to mean and whoever opened the connection, a direct request is sent to
\* no address that the resolver refuses, a literal goes where it says, a result names the peer
\* that answered, and a failure to connect is called one only if nothing was sent: for any
\* number of requests, hosts, addresses and answers (net/dns.rs, check_ip_literal,
\* build_client, origin_peer, classify_send_error).
THEOREM DialsApproved ==
    ASSUME G!NoneIsNoFailure
    PROVE  G!DialSpec => []DialledIsApproved
<1>1. G!DialInit => DialInv
  BY DialStart
<1>2. DialInv /\ [G!DialNext]_(G!vars) => DialInv'
  BY DialStep
<1>3. DialInv => G!DialledIsApproved
  BY DEF DialInv, RequestGood, Approved, G!DialledIsApproved
<1> QED BY <1>1, <1>2, <1>3, PTL DEF G!DialSpec, DialledIsApproved
-----------------------------------------------------------------------------
(* Routes.  The client asks each rule for itself, this crate asks them     *)
(* through intercept_any; both take the first that says yes.               *)

\* The rules made of the environment name their proxies.
LEMMA EnvRules ==
    ASSUME NEW var, R!env_rules(var) # None
    PROVE  R!RuleList(R!env_rules(var))
<1> DEFINE http == IF var.cgi THEN var.http_proxy
                   ELSE IF var.HTTP_PROXY # None THEN var.HTTP_PROXY ELSE var.http_proxy
           no == IF var.NO_PROXY = None THEN {} ELSE var.NO_PROXY
           Named == [scope: {"Http", "Https", "All"}, url: UsableProxies \ {None}, auth: {None}, no_proxy: {no}]
           Rule(scope, url) == IF url = None \/ url \notin UsableProxies THEN <<>>
                               ELSE <<[scope |-> scope, url |-> url, auth |-> None, no_proxy |-> no]>>
<1>1. R!env_rules(var) = Rule("Http", http) \o Rule("Https", var.HTTPS_PROXY) \o Rule("All", var.ALL_PROXY)
  BY DEF R!env_rules
<1>2. ASSUME NEW scope \in {"Http", "Https", "All"}, NEW url
      PROVE  Rule(scope, url) \in Seq(Named)
  <2>2. CASE url = None \/ url \notin UsableProxies
    BY <2>2
  <2>3. CASE ~(url = None \/ url \notin UsableProxies)
    <3>1. [scope |-> scope, url |-> url, auth |-> None, no_proxy |-> no] \in Named
      BY <2>3
    <3> HIDE DEF Named
    <3> QED BY <2>3, <3>1
  <2> QED BY <2>2, <2>3
<1>3. \A s \in Named : s.url # None
  OBVIOUS
<1>4. R!env_rules(var) \in Seq(Named)
  <2>1. Rule("Http", http) \in Seq(Named) /\ Rule("Https", var.HTTPS_PROXY) \in Seq(Named) /\ Rule("All", var.ALL_PROXY) \in Seq(Named)
    <3> HIDE DEF Named, Rule, http
    <3> QED BY <1>2
  <2> HIDE DEF Named, Rule, http
  <2> QED BY <1>1, <2>1
<1> HIDE DEF Named
<1> QED BY <1>3, <1>4 DEF R!RuleList

\* The two readings of a rule agree.
LEMMA SameReading ==
    ASSUME NEW rule, NEW dst
    PROVE  R!Intercepts(rule, dst) <=> R!intercept_any(rule, dst)
<1>1. CASE R!port_entries(rule) = {}
  BY <1>1 DEF R!Intercepts, R!intercept_any, R!bypassed_by_port
<1>2. CASE R!port_entries(rule) # {}
  BY <1>2 DEF R!Intercepts, R!intercept_any, R!Matcher
<1> QED BY <1>1, <1>2

\* So the client connects through the proxy of the rule this crate finds.
LEMMA SameRule ==
    ASSUME R!RuleList(routes), NEW dst
    PROVE  \/ ~R!routes_through_proxy(dst) /\ R!Client(dst) = None /\ R!Routing(dst) = None
           \/ /\ R!routes_through_proxy(dst)
              /\ \E i \in DOMAIN routes : /\ R!Routing(dst) = routes[i] /\ R!Client(dst) = routes[i].url
                                          /\ routes[i].url # None
<1> DEFINE at == {i \in DOMAIN routes : R!intercept_any(routes[i], dst)}
<1>1. at = {i \in DOMAIN routes : R!Intercepts(routes[i], dst)}
  BY SameReading
<1>2. CASE at = {}
  BY <1>1, <1>2 DEF R!routes_through_proxy, R!Client, R!Routing
<1>3. CASE at # {}
  <2>1. at \subseteq DOMAIN routes /\ at \subseteq Nat
    BY DEF R!RuleList
  <2>2. PICK i \in at : i = CHOOSE k \in at : \A j \in at : k <= j
    <3> HIDE DEF at
    <3> QED BY <1>3, <2>1, Least
  <2>3. R!Routing(dst) = routes[i] /\ R!Client(dst) = routes[i].url
    BY <1>1, <1>3, <2>2 DEF R!Routing, R!Client
  <2>4. i \in DOMAIN routes /\ routes[i].url # None
    BY <2>1, <2>2 DEF R!RuleList
  <2>5. R!routes_through_proxy(dst)
    BY <1>3 DEF R!routes_through_proxy
  <2> QED BY <2>3, <2>4, <2>5
<1> QED BY <1>2, <1>3

\* The last request is as the routes of the fetcher send it.
RouteInv ==
    /\ R!RuleList(routes)
    /\ wire = None \/ \E dst \in Visits :
          wire = [url |-> dst, via |-> R!Client(dst), header |-> R!proxy_authorization(dst),
                  answers |-> R!http_proxy(dst), proxied |-> R!routes_through_proxy(dst)]

\* This is what the property asks for.
LEMMA RouteGood ==
    ASSUME RouteInv
    PROVE  R!ProxyIsTheClients
<1>1. CASE wire = None
  BY <1>1 DEF R!ProxyIsTheClients
<1>2. CASE wire # None
  <2>1. PICK dst \in Visits :
          wire = [url |-> dst, via |-> R!Client(dst), header |-> R!proxy_authorization(dst),
                  answers |-> R!http_proxy(dst), proxied |-> R!routes_through_proxy(dst)]
    BY <1>2 DEF RouteInv
  <2>2. wire.url = dst /\ wire.via = R!Client(dst) /\ wire.header = R!proxy_authorization(dst)
        /\ wire.answers = R!http_proxy(dst) /\ wire.proxied = R!routes_through_proxy(dst)
    BY <2>1
  <2>3. CASE ~R!routes_through_proxy(dst) /\ R!Client(dst) = None /\ R!Routing(dst) = None
    <3>1. R!routes_through_proxy(dst) = FALSE
      BY <2>3 DEF R!routes_through_proxy
    <3>2. wire.header = None /\ wire.answers = None /\ wire.via = None /\ wire.proxied = FALSE
      BY <2>2, <2>3, <3>1 DEF R!proxy_authorization, R!http_proxy
    <3> QED BY <3>2 DEF R!ProxyIsTheClients
  <2>4. ASSUME R!routes_through_proxy(dst), NEW i \in DOMAIN routes,
               R!Routing(dst) = routes[i], R!Client(dst) = routes[i].url, routes[i].url # None
        PROVE  R!ProxyIsTheClients
    <3>1. ASSUME wire.header # None
          PROVE  /\ wire.url.scheme = "http" /\ wire.via # None /\ wire.via.kind # "socks"
                 /\ \E j \in DOMAIN routes : routes[j].url = wire.via /\ routes[j].auth = wire.header
      BY <2>2, <2>4, <3>1 DEF R!proxy_authorization, R!non_tunnel_authorization, R!intercept
    <3>2. wire.answers # None => wire.answers = wire.via
      BY <2>2, <2>4 DEF R!http_proxy, R!non_tunnel_proxy
    <3>3. wire.proxied = (wire.via # None)
      BY <2>2, <2>4
    <3> QED BY <3>1, <3>2, <3>3 DEF R!ProxyIsTheClients
  <2> QED BY <2>3, <2>4, SameRule DEF RouteInv
<1> QED BY <1>1, <1>2

\* Whatever the rules, the bypass lists and the environment: the proxy this crate has
\* credentials and answers for is the one the client connects through, and no other party
\* reads them (proxy.rs proxy_authorization, http_proxy, routes_through_proxy, to_reqwest).
THEOREM RoutesAgree ==
    ASSUME \A config \in Configs : R!ConfigType(config)
    PROVE  R!RouteSpec => []ProxyIsTheClients
<1>1. R!RouteInit => RouteInv
  BY EnvRules DEF R!RouteInit, RouteInv, R!resolve, R!ConfigType, R!RuleList
<1>2. RouteInv /\ [R!RouteNext]_<<routes, wire>> => RouteInv'
  <2> SUFFICES ASSUME RouteInv, [R!RouteNext]_<<routes, wire>>
               PROVE  RouteInv'
    OBVIOUS
  <2>1. routes' = routes
    BY DEF R!RouteNext, R!Route
  <2>2. R!RuleList(routes)' /\ \A dst : /\ R!Client(dst)' = R!Client(dst)
                 /\ R!proxy_authorization(dst)' = R!proxy_authorization(dst)
                 /\ R!http_proxy(dst)' = R!http_proxy(dst)
                 /\ R!routes_through_proxy(dst)' = R!routes_through_proxy(dst)
    BY <2>1 DEF R!Client, R!proxy_authorization, R!http_proxy, R!routes_through_proxy, R!Routing, RouteInv, R!RuleList
  <2> QED BY <2>2 DEF RouteInv, R!RouteNext, R!Route
<1> QED BY <1>1, <1>2, RouteGood, PTL DEF R!RouteSpec, ProxyIsTheClients
-----------------------------------------------------------------------------
(* Request keys.  Two requests of one key may still differ: in a policy    *)
(* that protects nobody, a path that no referrer policy shows, a referrer  *)
(* that is never sent, a jar that is not asked.  The invariant says that   *)
(* the chains they are on differ in nothing that a hop looks at.           *)

\* Requests that every rule treats alike.
SameRules(q, p) ==
    /\ q.method = p.method /\ q.method \in {"GET", "HEAD"}
    /\ q.destination = p.destination /\ q.mode = p.mode /\ q.origin = p.origin
    /\ q.accept = p.accept /\ q.cache_mode = p.cache_mode
    /\ q.credentials = p.credentials /\ (q.credentials = "omit" \/ q.jar = p.jar)
    /\ (K!is_navigation(q.destination) /\ q.user) = (K!is_navigation(p.destination) /\ p.user)
    /\ q.origin = None \/ ~K!Trustworthy(q.origin) \/ q.mixed = p.mixed

Chain(c) == DOMAIN c = {"url", "method", "policy", "referrer", "hand_referer", "hand_origin", "secret",
                        "site", "origin_tainted", "tainting", "wire"}

\* The chains are at the same hop.
SameHop(c, d) ==
    /\ Chain(c) /\ Chain(d)
    /\ c.url = d.url /\ c.method = d.method /\ c.method \in {"GET", "HEAD"}
    /\ c.hand_referer = d.hand_referer /\ c.hand_origin = d.hand_origin
    /\ c.secret = d.secret /\ c.site = d.site
    /\ c.origin_tainted = d.origin_tainted /\ c.tainting = d.tainting

\* Either both have a referrer, the same one once a policy was applied to it ...
SameReferrer(q, p, c, d) ==
    /\ q.referrer # None /\ p.referrer # None /\ c.policy = d.policy
    /\ c.referrer = d.referrer

\* ... or, before that, one that differs in a path the policy does not show ...
SameOrigin(q, p, c, d) ==
    /\ q.referrer # None /\ p.referrer # None /\ c.policy = d.policy
    /\ c.policy \in {"origin", "strict-origin"}
    /\ c.referrer = [at |-> c.referrer.at, path |-> c.referrer.path]
    /\ d.referrer = [at |-> c.referrer.at, path |-> d.referrer.path]
    /\ c.referrer # None /\ d.referrer # None

\* ... or neither has one to show.
Unshown(q, c) == q.referrer # None => c.hand_referer = None /\ (c.referrer = None \/ c.policy = "no-referrer")
Shown(q, c) == q.referrer # None => c.hand_referer = None /\ c.referrer = None

AlikeAtStart(q, p, c, d) ==
    SameHop(c, d) /\ (SameReferrer(q, p, c, d) \/ SameOrigin(q, p, c, d) \/ (Unshown(q, c) /\ Unshown(p, d)))
Alike(q, p, c, d) ==
    SameHop(c, d) /\ (SameReferrer(q, p, c, d) \/ (Shown(q, c) /\ Shown(p, d)))

\* None is neither a policy nor what it says of a mode.
NoneIsNoPolicy == None \notin K!Policies

LEMMA AdmitFields ==
    ASSUME NEW q, K!FetchRequest(q)
    PROVE  LET a == K!admit(q)
           IN  /\ a.url = K!hsts_upgrade(q.url) /\ a.mixed = (IF q.mixed = None THEN DefaultMixed ELSE q.mixed)
               /\ a.method = q.method /\ a.mode = q.mode /\ a.origin = q.origin
               /\ a.destination = q.destination /\ a.user = q.user /\ a.referrer = q.referrer
               /\ a.policy = q.policy /\ a.credentials = q.credentials /\ a.jar = q.jar
               /\ a.accept = q.accept /\ a.hand_referer = q.hand_referer
               /\ a.hand_origin = q.hand_origin /\ a.cache_mode = q.cache_mode
  BY DEF K!admit, K!FetchRequest
\* The mixed content policy of requests of one key decides alike.
LEMMA SameMixed ==
    ASSUME NEW q, NEW p, SameRules(q, p), NEW u
    PROVE  K!evaluate_for(q.mixed, q.origin, u, q.destination) = K!evaluate_for(p.mixed, p.origin, u, p.destination)
  BY DEF SameRules, K!evaluate_for

\* What a policy shows of the referrers of two chains that are alike is the same, or nothing.
LEMMA ShownAlike ==
    ASSUME NEW q, NEW p, NEW c, NEW d, AlikeAtStart(q, p, c, d), NEW target
    PROVE  LET r == K!shown(c.referrer, c.policy, target)
               s == K!shown(d.referrer, d.policy, target)
           IN  \/ q.referrer # None /\ p.referrer # None /\ c.policy = d.policy /\ r = s
               \/ /\ q.referrer # None => c.hand_referer = None /\ r = None
                  /\ p.referrer # None => d.hand_referer = None /\ s = None
<1>1. CASE SameReferrer(q, p, c, d)
  BY <1>1 DEF SameReferrer
<1>2. CASE SameOrigin(q, p, c, d)
  <2>1. K!determine(c.policy, c.referrer.at, target) = K!determine(d.policy, d.referrer.at, target)
        /\ K!determine(c.policy, c.referrer.at, target) # 2
    BY <1>2 DEF SameOrigin, K!determine, K!Reveals
  <2>2. [c.referrer EXCEPT !.path = "/"] = [d.referrer EXCEPT !.path = "/"]
    BY <1>2 DEF SameOrigin
  <2>3. K!shown(c.referrer, c.policy, target) = K!shown(d.referrer, d.policy, target)
    BY <1>2, <2>1, <2>2 DEF SameOrigin, K!shown
  <2> QED BY <1>2, <2>3 DEF SameOrigin
<1>3. CASE Unshown(q, c) /\ Unshown(p, d)
  <2>1. ASSUME NEW x
        PROVE  K!shown(x, "no-referrer", target) = None /\ K!shown(None, x, target) = None
    BY DEF K!shown, K!determine, K!Reveals
  <2> QED BY <1>3, <2>1 DEF Unshown
<1> QED BY <1>1, <1>2, <1>3 DEF AlikeAtStart

\* The Origin header of a request that is never anything but GET or HEAD does not depend on
\* its referrer policy.
LEMMA SameOriginHeader ==
    ASSUME NEW q, NEW p, SameRules(q, p), NEW c, NEW d, SameHop(c, d)
    PROVE  K!origin_header(q, c) = K!origin_header(p, d)
<1>1. K!left(q, c) = K!left(p, d)
  BY DEF SameRules, SameHop, K!left
<1>2. CASE q.mode \in {"cors", "websocket"}
  BY <1>1, <1>2 DEF SameRules, SameHop, K!origin_header
<1>3. CASE q.mode \notin {"cors", "websocket"}
  BY <1>1, <1>3 DEF SameRules, SameHop, K!origin_header
<1> QED BY <1>2, <1>3

LEMMA SameRegime ==
    ASSUME NEW q, NEW p, SameRules(q, p), NEW c, NEW d, SameHop(c, d)
    PROVE  /\ K!enter_cors_regime(q, c) = K!enter_cors_regime(p, d)
           /\ (IF K!attach_credentials(q, c) THEN q.jar ELSE None) = (IF K!attach_credentials(p, d) THEN p.jar ELSE None)
  BY DEF SameRules, SameHop, K!enter_cors_regime, K!left, K!attach_credentials
\* A hop in steps: where it goes, whom the referrer is cut down for, the chain on its way
\* there, and what the initiator may see of the response.
Goal(q, c) == K!evaluate_for(q.mixed, q.origin, K!hsts_upgrade(c.url), q.destination)
Target(q, c) ==
    IF K!evaluate_for(q.mixed, q.origin, c.url, q.destination) = None THEN c.url
    ELSE K!evaluate_for(q.mixed, q.origin, c.url, q.destination)
Moved(q, c) ==
    [c EXCEPT !.url = Goal(q, c), !.referrer = K!shown(@, c.policy, Target(q, c)),
              !.site = IF q.origin = None THEN @ ELSE K!Worse(@, K!classify_site(q.origin, Goal(q, c)))]
Regime(q, c) == K!enter_cors_regime(q, Moved(q, c))

MovedIs(q, c, e) ==
    /\ Chain(e) /\ e.url = Goal(q, c) /\ e.referrer = K!shown(c.referrer, c.policy, Target(q, c))
    /\ e.site = IF q.origin = None THEN c.site ELSE K!Worse(c.site, K!classify_site(q.origin, Goal(q, c)))
    /\ e.method = c.method /\ e.policy = c.policy /\ e.hand_referer = c.hand_referer
    /\ e.hand_origin = c.hand_origin /\ e.secret = c.secret
    /\ e.origin_tainted = c.origin_tainted /\ e.tainting = c.tainting

LEMMA MovedChain ==
    ASSUME NEW q, NEW c, Chain(c)
    PROVE  MovedIs(q, c, Moved(q, c))
<1>1. PICK e : e = Moved(q, c)
  OBVIOUS
<1>2. MovedIs(q, c, e)
  BY <1>1 DEF Chain, Moved, MovedIs
<1> QED BY <1>1, <1>2

\* What a hop puts on the wire.
Wire(q, e, u, tainting) ==
    [url     |-> u,
     referer |-> IF q.referrer = None THEN e.hand_referer ELSE e.referrer,
     origin  |-> IF q.origin = None THEN e.hand_origin
                 ELSE IF K!origin_header(q, e) = "origin" THEN q.origin ELSE K!origin_header(q, e),
     fetch   |-> K!apply_sec_fetch_headers(u, q.destination, q.mode,
                    IF q.origin = None THEN "none" ELSE e.site, q.user),
     accept  |-> IF q.accept = None THEN K!default_accept(q.destination) ELSE q.accept,
     cookies |-> IF K!attach_credentials(q, e) THEN q.jar ELSE None,
     cache   |-> q.cache_mode, read |-> tainting]

Sent(q, e, u, tainting) == [e EXCEPT !.tainting = tainting, !.wire = Wire(q, e, u, tainting)]

\* A hop is made of these steps.
LEMMA EnterIs ==
    ASSUME NEW q, NEW c, Chain(c)
    PROVE  /\ Goal(q, c) = None \/ Regime(q, c) = None => K!enter(q, c).wire = None
           /\ ~(Goal(q, c) = None \/ Regime(q, c) = None) =>
                 K!enter(q, c) = Sent(q, Moved(q, c), Goal(q, c), Regime(q, c))
<1>1. [c EXCEPT !.wire = None].wire = None
  BY DEF Chain
<1>2. K!enter(q, c) = IF Goal(q, c) = None THEN [c EXCEPT !.wire = None]
                      ELSE IF Regime(q, c) = None THEN [c EXCEPT !.wire = None]
                      ELSE Sent(q, Moved(q, c), Goal(q, c), Regime(q, c))
  BY Zenon DEF K!enter, Wire, Moved, Goal, Target, Regime, Sent
<1> QED BY <1>1, <1>2

\* Requests of one key on chains that are alike enter the next hop alike.
LEMMA EnterAlike ==
    ASSUME NEW q, NEW p, SameRules(q, p), NEW c, NEW d, AlikeAtStart(q, p, c, d)
    PROVE  /\ K!enter(q, c).wire = K!enter(p, d).wire
           /\ K!enter(q, c).wire # None => Alike(q, p, K!enter(q, c), K!enter(p, d))
<1>0. SameHop(c, d)
  BY DEF AlikeAtStart
<1>1. PICK u : u = Goal(q, c) /\ u = Goal(p, d)
  BY <1>0, SameMixed DEF SameHop, Goal
<1>2. PICK target : target = Target(q, c) /\ target = Target(p, d)
  BY <1>0, SameMixed DEF SameHop, Target
<1>3. PICK r, s : r = K!shown(c.referrer, c.policy, target) /\ s = K!shown(d.referrer, d.policy, target)
  OBVIOUS
<1>4. PICK site :
         /\ site = IF q.origin = None THEN c.site ELSE K!Worse(c.site, K!classify_site(q.origin, u))
         /\ site = IF p.origin = None THEN d.site ELSE K!Worse(d.site, K!classify_site(p.origin, u))
  BY <1>0 DEF SameHop, SameRules
<1>5. PICK e, f : e = Moved(q, c) /\ f = Moved(p, d)
  OBVIOUS
<1>6. /\ Chain(e) /\ e.url = u /\ e.referrer = r /\ e.site = site
      /\ e.method = c.method /\ e.policy = c.policy /\ e.hand_referer = c.hand_referer
      /\ e.hand_origin = c.hand_origin /\ e.secret = c.secret
      /\ e.origin_tainted = c.origin_tainted /\ e.tainting = c.tainting
  <2>1. MovedIs(q, c, e)
    BY <1>0, <1>5, MovedChain DEF SameHop
  <2> QED BY <1>1, <1>2, <1>3, <1>4, <2>1 DEF MovedIs
<1>7. /\ Chain(f) /\ f.url = u /\ f.referrer = s /\ f.site = site
      /\ f.method = d.method /\ f.policy = d.policy /\ f.hand_referer = d.hand_referer
      /\ f.hand_origin = d.hand_origin /\ f.secret = d.secret
      /\ f.origin_tainted = d.origin_tainted /\ f.tainting = d.tainting
  <2>1. MovedIs(p, d, f)
    BY <1>0, <1>5, MovedChain DEF SameHop
  <2> QED BY <1>1, <1>2, <1>3, <1>4, <2>1 DEF MovedIs
<1>8. SameHop(e, f)
  BY <1>0, <1>6, <1>7 DEF SameHop
<1>9. PICK t : t = Regime(q, c) /\ t = Regime(p, d)
  BY <1>5, <1>8, SameRegime DEF Regime
<1>10. /\ u = None \/ t = None => K!enter(q, c).wire = None
       /\ ~(u = None \/ t = None) =>
             K!enter(q, c) = Sent(q, e, u, t)
  BY <1>0, <1>1, <1>5, <1>9, EnterIs DEF SameHop
<1>11. /\ u = None \/ t = None => K!enter(p, d).wire = None
       /\ ~(u = None \/ t = None) =>
             K!enter(p, d) = Sent(p, f, u, t)
  BY <1>0, <1>1, <1>5, <1>9, EnterIs DEF SameHop
<1>12. \/ q.referrer # None /\ p.referrer # None /\ e.policy = f.policy /\ r = s
       \/ /\ q.referrer # None => e.hand_referer = None /\ r = None
          /\ p.referrer # None => f.hand_referer = None /\ s = None
  BY <1>3, <1>6, <1>7, ShownAlike
<1>13. Wire(q, e, u, t) = Wire(p, f, u, t)
  <2>1. (IF q.referrer = None THEN e.hand_referer ELSE e.referrer)
           = (IF p.referrer = None THEN f.hand_referer ELSE f.referrer)
    BY <1>6, <1>7, <1>8, <1>12 DEF SameHop
  <2>2. K!origin_header(q, e) = K!origin_header(p, f)
    BY <1>8, SameOriginHeader
  <2>3. K!apply_sec_fetch_headers(u, q.destination, q.mode, IF q.origin = None THEN "none" ELSE e.site, q.user)
          = K!apply_sec_fetch_headers(u, p.destination, p.mode, IF p.origin = None THEN "none" ELSE f.site, p.user)
    BY <1>6, <1>7 DEF SameRules, K!apply_sec_fetch_headers
  <2>4. (IF K!attach_credentials(q, e) THEN q.jar ELSE None) = (IF K!attach_credentials(p, f) THEN p.jar ELSE None)
    BY <1>8, SameRegime
  <2>5. e.hand_origin = f.hand_origin /\ q.origin = p.origin /\ q.accept = p.accept
        /\ q.destination = p.destination /\ q.cache_mode = p.cache_mode
    BY <1>8 DEF SameHop, SameRules
  <2> QED BY <2>1, <2>2, <2>3, <2>4, <2>5, Zenon DEF Wire
<1>14. CASE u = None \/ t = None
  BY <1>10, <1>11, <1>14
<1>15. CASE ~(u = None \/ t = None)
  <2>1. PICK w : w = Wire(q, e, u, t) /\ w = Wire(p, f, u, t)
    BY <1>13
  <2>2. PICK g, h : g = [e EXCEPT !.tainting = t, !.wire = w] /\ h = [f EXCEPT !.tainting = t, !.wire = w]
    OBVIOUS
  <2>3. K!enter(q, c) = g /\ K!enter(p, d) = h
    BY <1>10, <1>11, <1>15, <2>1, <2>2 DEF Sent
  <2>4. /\ Chain(g) /\ g.url = e.url /\ g.referrer = e.referrer /\ g.site = e.site
        /\ g.method = e.method /\ g.policy = e.policy /\ g.hand_referer = e.hand_referer
        /\ g.hand_origin = e.hand_origin /\ g.secret = e.secret
        /\ g.origin_tainted = e.origin_tainted /\ g.tainting = t /\ g.wire = w
    BY <1>6, <2>2 DEF Chain
  <2>5. /\ Chain(h) /\ h.url = f.url /\ h.referrer = f.referrer /\ h.site = f.site
        /\ h.method = f.method /\ h.policy = f.policy /\ h.hand_referer = f.hand_referer
        /\ h.hand_origin = f.hand_origin /\ h.secret = f.secret
        /\ h.origin_tainted = f.origin_tainted /\ h.tainting = t /\ h.wire = w
    BY <1>7, <2>2 DEF Chain
  <2>6. SameHop(g, h)
    BY <1>8, <2>4, <2>5 DEF SameHop
  <2>7. SameReferrer(q, p, g, h) \/ (Shown(q, g) /\ Shown(p, h))
    BY <1>6, <1>7, <1>12, <2>4, <2>5 DEF SameReferrer, Shown
  <2> QED BY <2>3, <2>4, <2>5, <2>6, <2>7 DEF Alike
<1> QED BY <1>14, <1>15
\* ... and they follow a redirect alike.
LEMMA FollowAlike ==
    ASSUME NEW q, NEW p, SameRules(q, p), NEW c, NEW d, Alike(q, p, c, d), NEW to, NEW policy
    PROVE  AlikeAtStart(q, p, K!follow(q, c, to, policy), K!follow(p, d, to, policy))
<1>1. SameHop(c, d) /\ q.origin = p.origin
  BY DEF Alike, SameRules
<1>2. PICK e, f : e = K!follow(q, c, to, policy) /\ f = K!follow(p, d, to, policy)
  OBVIOUS
<1>3. /\ Chain(e) /\ e.url = to /\ e.method = c.method /\ e.secret = c.secret /\ e.site = c.site
      /\ e.tainting = c.tainting /\ e.referrer = c.referrer
      /\ e.policy = (IF policy = None THEN c.policy ELSE policy)
      /\ e.hand_referer = (IF c.url # to THEN None ELSE c.hand_referer)
      /\ e.hand_origin = (IF c.url # to THEN None ELSE c.hand_origin)
      /\ e.origin_tainted = (c.origin_tainted \/ (q.origin # None /\ c.url # to /\ q.origin # c.url))
  BY <1>1, <1>2 DEF K!follow, SameHop, Chain
<1>4. /\ Chain(f) /\ f.url = to /\ f.method = d.method /\ f.secret = d.secret /\ f.site = d.site
      /\ f.tainting = d.tainting /\ f.referrer = d.referrer
      /\ f.policy = (IF policy = None THEN d.policy ELSE policy)
      /\ f.hand_referer = (IF d.url # to THEN None ELSE d.hand_referer)
      /\ f.hand_origin = (IF d.url # to THEN None ELSE d.hand_origin)
      /\ f.origin_tainted = (d.origin_tainted \/ (p.origin # None /\ d.url # to /\ p.origin # d.url))
  BY <1>1, <1>2 DEF K!follow, SameHop, Chain
<1>5. SameHop(e, f)
  BY <1>1, <1>3, <1>4 DEF SameHop
<1>6. SameReferrer(q, p, e, f) \/ (Unshown(q, e) /\ Unshown(p, f))
  BY <1>3, <1>4 DEF Alike, SameReferrer, Shown, Unshown
<1> QED BY <1>2, <1>5, <1>6 DEF AlikeAtStart

\* A key tells what the rules look at.
LEMMA KeyTellsRules ==
    ASSUME NEW q, NEW p, K!request_key(q) = K!request_key(p), q.method \in {"GET", "HEAD"}
    PROVE  SameRules(q, p) /\ q.url = p.url /\ K!Referrer(q) = K!Referrer(p)
           /\ (q.origin = None => q.hand_origin = p.hand_origin)
<1>1. PICK k, l : k = K!request_key(q) /\ l = K!request_key(p)
  OBVIOUS
<1>2. /\ k.url = q.url /\ k.method = q.method /\ k.accept = q.accept /\ k.cache = q.cache_mode
      /\ k.referrer = K!Referrer(q)
      /\ k.mixed = (IF q.origin = None THEN "n" ELSE IF ~K!Trustworthy(q.origin) THEN "n" ELSE q.mixed)
      /\ k.meta = <<q.destination, q.mode, q.origin, IF q.origin = None THEN q.hand_origin ELSE None,
                    K!is_navigation(q.destination) /\ q.user>>
      /\ k.credentials = (IF q.credentials = "omit" THEN <<"omit">> ELSE <<q.credentials, q.jar>>)
  BY <1>1 DEF K!request_key
<1>3. /\ l.url = p.url /\ l.method = p.method /\ l.accept = p.accept /\ l.cache = p.cache_mode
      /\ l.referrer = K!Referrer(p)
      /\ l.mixed = (IF p.origin = None THEN "n" ELSE IF ~K!Trustworthy(p.origin) THEN "n" ELSE p.mixed)
      /\ l.meta = <<p.destination, p.mode, p.origin, IF p.origin = None THEN p.hand_origin ELSE None,
                    K!is_navigation(p.destination) /\ p.user>>
      /\ l.credentials = (IF p.credentials = "omit" THEN <<"omit">> ELSE <<p.credentials, p.jar>>)
  BY <1>1 DEF K!request_key
<1>4. k = l
  BY <1>1
<1>5. k.meta[1] = q.destination /\ k.meta[2] = q.mode /\ k.meta[3] = q.origin
      /\ k.meta[4] = (IF q.origin = None THEN q.hand_origin ELSE None)
      /\ k.meta[5] = (K!is_navigation(q.destination) /\ q.user)
  BY <1>2
<1>6. l.meta[1] = p.destination /\ l.meta[2] = p.mode /\ l.meta[3] = p.origin
      /\ l.meta[4] = (IF p.origin = None THEN p.hand_origin ELSE None)
      /\ l.meta[5] = (K!is_navigation(p.destination) /\ p.user)
  BY <1>3
<1>7. q.credentials = p.credentials /\ (q.credentials = "omit" \/ q.jar = p.jar)
  BY <1>2, <1>3, <1>4
<1>8. q.destination = p.destination /\ q.mode = p.mode /\ q.origin = p.origin
      /\ (q.origin = None => q.hand_origin = p.hand_origin)
      /\ (K!is_navigation(q.destination) /\ q.user) = (K!is_navigation(p.destination) /\ p.user)
  BY <1>4, <1>5, <1>6
<1>9. q.origin = None \/ ~K!Trustworthy(q.origin) \/ q.mixed = p.mixed
  BY <1>2, <1>3, <1>4, <1>8
<1>10. q.method = p.method /\ q.accept = p.accept /\ q.cache_mode = p.cache_mode /\ q.url = p.url
       /\ K!Referrer(q) = K!Referrer(p)
  BY <1>2, <1>3, <1>4
<1> QED BY <1>7, <1>8, <1>9, <1>10 DEF SameRules

\* ... and their chains begin alike.
LEMMA KeyTellsStart ==
    ASSUME NoneIsNoPolicy, NEW a, K!FetchRequest(a), NEW b, K!FetchRequest(b),
           NEW q, q = K!admit(a), NEW p, p = K!admit(b), K!request_key(q) = K!request_key(p)
    PROVE  SameRules(q, p) /\ AlikeAtStart(q, p, K!start(q), K!start(p))
<1>1. /\ q.method \in {"GET", "HEAD"} /\ q.policy \in K!Policies /\ p.policy \in K!Policies
      /\ q.hand_referer # None => q.origin = None /\ q.referrer = None
      /\ p.hand_referer # None => p.origin = None /\ p.referrer = None
      /\ q.hand_origin # None => q.origin = None
      /\ p.hand_origin # None => p.origin = None
      /\ q.referrer # None => q.referrer = [at |-> q.referrer.at, path |-> q.referrer.path]
      /\ p.referrer # None => p.referrer = [at |-> p.referrer.at, path |-> p.referrer.path]
  <2>1. q.method = a.method /\ q.policy = a.policy /\ q.hand_referer = a.hand_referer /\ q.origin = a.origin
        /\ q.referrer = a.referrer /\ q.hand_origin = a.hand_origin
    BY AdmitFields
  <2>2. p.method = b.method /\ p.policy = b.policy /\ p.hand_referer = b.hand_referer /\ p.origin = b.origin
        /\ p.referrer = b.referrer /\ p.hand_origin = b.hand_origin
    BY AdmitFields
  <2> QED BY <2>1, <2>2 DEF K!FetchRequest
<1>2. SameRules(q, p) /\ q.url = p.url /\ K!Referrer(q) = K!Referrer(p)
      /\ (q.origin = None => q.hand_origin = p.hand_origin)
  BY <1>1, KeyTellsRules
<1>3. PICK c, d : c = K!start(q) /\ d = K!start(p)
  OBVIOUS
<1>4. /\ Chain(c) /\ c.url = q.url /\ c.method = q.method /\ c.policy = q.policy /\ c.referrer = q.referrer
      /\ c.hand_referer = q.hand_referer /\ c.hand_origin = q.hand_origin /\ c.secret = FALSE
      /\ c.site = "same-origin" /\ c.origin_tainted = FALSE /\ c.tainting = "basic"
  BY <1>3 DEF K!start, Chain
<1>5. /\ Chain(d) /\ d.url = p.url /\ d.method = p.method /\ d.policy = p.policy /\ d.referrer = p.referrer
      /\ d.hand_referer = p.hand_referer /\ d.hand_origin = p.hand_origin /\ d.secret = FALSE
      /\ d.site = "same-origin" /\ d.origin_tainted = FALSE /\ d.tainting = "basic"
  BY <1>3 DEF K!start, Chain
<1>6. PICK r, s : r = K!Referrer(q) /\ s = K!Referrer(p)
  OBVIOUS
<1>7. CASE q.referrer # None /\ ~K!never_sends(q)
  <2>1. r.policy = q.policy /\ r.policy # None /\ r.hand = None
        /\ r.page = (IF q.policy \in {"origin", "strict-origin"} THEN [q.referrer EXCEPT !.path = "/"] ELSE q.referrer)
    BY <1>1, <1>6, <1>7 DEF K!Referrer, NoneIsNoPolicy
  <2>2. p.referrer # None /\ ~K!never_sends(p)
    BY <1>2, <1>6, <2>1 DEF K!Referrer
  <2>3. s.policy = p.policy /\ s.hand = None
        /\ s.page = (IF p.policy \in {"origin", "strict-origin"} THEN [p.referrer EXCEPT !.path = "/"] ELSE p.referrer)
    BY <1>6, <2>2 DEF K!Referrer
  <2>4. q.policy = p.policy /\ r.page = s.page
    BY <1>2, <1>6, <2>1, <2>3
  <2>5. q.hand_referer = None /\ p.hand_referer = None
    BY <1>1, <1>7, <2>2
  <2>6. ASSUME q.policy \in {"origin", "strict-origin"}
        PROVE  SameOrigin(q, p, c, d)
    <3>1. [q.referrer EXCEPT !.path = "/"] = [p.referrer EXCEPT !.path = "/"]
      BY <2>1, <2>3, <2>4, <2>6
    <3>2. [q.referrer EXCEPT !.path = "/"].at = q.referrer.at /\ [p.referrer EXCEPT !.path = "/"].at = p.referrer.at
      BY <1>1, <1>7, <2>2
    <3>3. q.referrer.at = p.referrer.at
      BY <3>1, <3>2
    <3> QED BY <1>1, <1>4, <1>5, <1>7, <2>2, <2>4, <2>6, <3>3 DEF SameOrigin
  <2>7. ASSUME q.policy \notin {"origin", "strict-origin"}
        PROVE  SameReferrer(q, p, c, d)
    BY <1>4, <1>5, <1>7, <2>1, <2>2, <2>3, <2>4, <2>7 DEF SameReferrer
  <2>8. SameHop(c, d)
    BY ZenonT(60), <1>1, <1>2, <1>4, <1>5, <2>5 DEF SameHop, SameRules
  <2> QED BY <1>2, <1>3, <2>6, <2>7, <2>8 DEF AlikeAtStart
<1>8. CASE ~(q.referrer # None /\ ~K!never_sends(q))
  <2>1. r.policy = None /\ r.hand = q.hand_referer
    BY <1>6, <1>8 DEF K!Referrer
  <2>2. ~(p.referrer # None /\ ~K!never_sends(p))
    <3>1. ASSUME p.referrer # None /\ ~K!never_sends(p)
          PROVE  s.policy = p.policy
      BY <1>6, <3>1 DEF K!Referrer
    <3> QED BY <1>1, <1>2, <1>6, <2>1, <3>1 DEF NoneIsNoPolicy
  <2>3. s.hand = p.hand_referer
    BY <1>6, <2>2 DEF K!Referrer
  <2>4. q.hand_referer = p.hand_referer
    BY <1>2, <1>6, <2>1, <2>3
  <2>5. Unshown(q, c) /\ Unshown(p, d)
    BY <1>1, <1>4, <1>5, <1>8, <2>2 DEF Unshown, K!never_sends
  <2>6. SameHop(c, d)
    BY ZenonT(60), <1>1, <1>2, <1>4, <1>5, <2>4 DEF SameHop, SameRules
  <2> QED BY <1>2, <1>3, <2>5, <2>6 DEF AlikeAtStart
<1> QED BY <1>7, <1>8
\* The walks show the same, and go on alike unless they were stopped.
KeyInv ==
    /\ DOMAIN walk = {1, 2} /\ SameRules(pair[1], pair[2])
    /\ walk[1].wire = walk[2].wire
    /\ walk[1].wire # None => Alike(pair[1], pair[2], walk[1], walk[2])

\* Requests that share a fetch send the same at every hop: for any requests and redirects, any
\* number of hops and whatever Referrer-Policy the servers announce on the way (types.rs
\* request_key, fetcher.rs admit).
THEOREM KeysSuffice ==
    ASSUME NoneIsNoPolicy, \A q \in FetchRequests : K!FetchRequest(q)
    PROVE  K!KeySpec => []SameKeySameWire
<1>1. K!KeyInit => KeyInv
  <2> SUFFICES ASSUME K!KeyInit
               PROVE  KeyInv
    OBVIOUS
  <2>1. PICK a \in FetchRequests, b \in FetchRequests :
          /\ K!request_key(K!admit(a)) = K!request_key(K!admit(b))
          /\ pair = <<K!admit(a), K!admit(b)>>
          /\ walk = <<K!enter(K!admit(a), K!start(K!admit(a))), K!enter(K!admit(b), K!start(K!admit(b)))>>
    BY DEF K!KeyInit
  <2>2. PICK q, p : q = K!admit(a) /\ p = K!admit(b)
    OBVIOUS
  <2>3. SameRules(q, p) /\ AlikeAtStart(q, p, K!start(q), K!start(p))
    BY <2>1, <2>2, KeyTellsStart
  <2>4. PICK e, f : e = K!enter(q, K!start(q)) /\ f = K!enter(p, K!start(p))
    OBVIOUS
  <2>5. e.wire = f.wire /\ (e.wire # None => Alike(q, p, e, f))
    BY <2>3, <2>4, EnterAlike
  <2>6. pair = <<q, p>> /\ walk = <<e, f>>
    BY <2>1, <2>2, <2>4
  <2> QED BY <2>3, <2>5, <2>6 DEF KeyInv
<1>2. KeyInv /\ [K!KeyNext]_(K!keyVars) => KeyInv'
  <2> SUFFICES ASSUME KeyInv, [K!KeyNext]_(K!keyVars)
               PROVE  KeyInv'
    OBVIOUS
  <2>1. ASSUME NEW to, NEW policy, K!Redirect(to, policy)
        PROVE  KeyInv'
    <3>1. PICK q, p, c, d : q = pair[1] /\ p = pair[2] /\ c = walk[1] /\ d = walk[2]
      OBVIOUS
    <3>2. SameRules(q, p) /\ Alike(q, p, c, d)
      BY <2>1, <3>1 DEF KeyInv, K!Redirect
    <3>3. PICK e, f : e = K!follow(q, c, to, policy) /\ f = K!follow(p, d, to, policy)
      OBVIOUS
    <3>4. AlikeAtStart(q, p, e, f)
      BY <3>2, <3>3, FollowAlike
    <3>5. K!enter(q, e).wire = K!enter(p, f).wire
          /\ (K!enter(q, e).wire # None => Alike(q, p, K!enter(q, e), K!enter(p, f)))
      BY <3>2, <3>4, EnterAlike
    <3>6. walk' = [i \in {1, 2} |-> K!enter(pair[i], K!follow(pair[i], walk[i], to, policy))] /\ pair' = pair
      BY <2>1 DEF K!Redirect
    <3>7. DOMAIN walk' = {1, 2} /\ walk'[1] = K!enter(q, e) /\ walk'[2] = K!enter(p, f)
      BY <3>1, <3>3, <3>6
    <3> QED BY <3>1, <3>2, <3>5, <3>6, <3>7 DEF KeyInv
  <2>2. CASE UNCHANGED K!keyVars
    BY <2>2 DEF K!keyVars, KeyInv
  <2> QED BY <2>1, <2>2 DEF K!KeyNext
<1>3. KeyInv => K!SameKeySameWire
  BY DEF KeyInv, K!SameKeySameWire
<1> QED BY <1>1, <1>2, <1>3, PTL DEF K!KeySpec, SameKeySameWire
-----------------------------------------------------------------------------
(* Sends.                                                                  *)

\* Values that no caller wrote by hand, of the headers that web content may not set.
NotByHand(h) == \A n \in S!Forbidden \cap DOMAIN h : h[n] # S!By("hand")

\* What is inserted goes nowhere else, and what was there stays.
LEMMA OrInserted ==
    ASSUME NEW h, NEW name, NEW value, NEW g, g = S!OrInsert(h, name, value)
    PROVE  /\ DOMAIN g = DOMAIN h \cup {name}
           /\ \A n \in DOMAIN h : g[n] = h[n]
           /\ name \notin DOMAIN h => g[name] = value
  BY DEF S!OrInsert, S!Insert

\* Nothing that is inserted was written by hand.
LEMMA OrInsertedByOther ==
    ASSUME NEW h, NEW name, NEW value, value # S!By("hand"), NotByHand(h)
    PROVE  NotByHand(S!OrInsert(h, name, value))
  BY DEF S!OrInsert, S!Insert, NotByHand

LEMMA WithoutIs ==
    ASSUME NEW h, NEW gone
    PROVE  /\ DOMAIN S!Without(h, gone) = DOMAIN h \ gone
           /\ \A n \in DOMAIN h \ gone : S!Without(h, gone)[n] = h[n]
           /\ NotByHand(h) => NotByHand(S!Without(h, gone))
  BY DEF S!Without, S!Restrict, NotByHand
\* What holds of the headers of a chain as long as it goes: there is an Accept and no framing,
\* web content's have nothing by hand that it may not set, and without a body there is no
\* Content-Type but the caller's own.
HeadersGood(h, body) ==
    /\ "accept" \in DOMAIN h /\ DOMAIN h \cap S!Framing = {}
    /\ req.origin => NotByHand(h)
    /\ body = None => ("content-type" \in DOMAIN h => "content-type" \in req.hand)

ChainGood ==
    /\ req \in S!RequestType /\ file \in 0..MaxLen
    /\ DOMAIN chain = {"method", "headers", "body", "at", "auth", "over"}
    /\ chain.method \in {S!normalize_method(req.method), "GET"}
    /\ req.origin /\ S!is_forbidden_method(req.method) => chain.over
    /\ chain.auth \subseteq {"authorization", "proxy-authorization"}
    /\ chain.body \in S!Body \cup {None}
    /\ HeadersGood(chain.headers, chain.body)

\* A request begins with such headers.
LEMMA StartGood ==
    ASSUME req \in S!RequestType
    PROVE  HeadersGood(S!start(req, S!make_request_init(req)), req.body)
<1>1. PICK hand : hand = [n \in req.hand |-> S!By("hand")]
  OBVIOUS
<1>2. PICK asked_for : asked_for = S!OrInsert(hand, "accept", S!By("destination"))
  OBVIOUS
<1>3. DOMAIN asked_for = req.hand \cup {"accept"}
  <2>1. DOMAIN hand = req.hand
    BY <1>1
  <2>2. DOMAIN S!OrInsert(hand, "accept", S!By("destination")) = DOMAIN hand \cup {"accept"}
    BY OrInserted
  <2> QED BY <1>2, <2>1, <2>2
<1>4. PICK headers : headers = S!make_request_init(req)
  OBVIOUS
<1>5. /\ DOMAIN headers \subseteq req.hand \cup {"accept", "content-type"} /\ "accept" \in DOMAIN headers
      /\ req.body = None => DOMAIN headers = req.hand \cup {"accept"}
  <2>1. headers = IF req.body # None /\ req.body.typed THEN S!OrInsert(asked_for, "content-type", S!By("body")) ELSE asked_for
    BY <1>1, <1>2, <1>4 DEF S!make_request_init
  <2>2. DOMAIN S!OrInsert(asked_for, "content-type", S!By("body")) = DOMAIN asked_for \cup {"content-type"}
    BY OrInserted
  <2> QED BY <1>3, <2>1, <2>2
<1>6. PICK gone : gone = S!Framing \cup (IF req.origin THEN S!Forbidden ELSE {})
  OBVIOUS
<1>7. PICK kept : kept = S!Without(headers, gone)
  OBVIOUS
<1>8. DOMAIN kept = DOMAIN headers \ gone
  BY <1>7, WithoutIs
<1>9. "accept" \notin gone /\ "accept-encoding" \notin S!Framing /\ S!Framing \subseteq gone
  BY <1>6 DEF S!Framing, S!Forbidden
<1>10. req.origin => NotByHand(kept) /\ "accept-encoding" \notin DOMAIN kept
  BY <1>6, <1>8 DEF NotByHand, S!Forbidden
<1>11. PICK value : /\ value \in {S!By("identity"), S!By("codings")}
                    /\ req.origin => S!start(req, headers) = S!OrInsert(kept, "accept-encoding", value)
  <2>1. S!start(req, headers) =
          IF "range" \in DOMAIN kept THEN S!Appended(kept, "accept-encoding", "identity")
          ELSE S!OrInsert(kept, "accept-encoding", S!By(IF req.auto_decode THEN "codings" ELSE "identity"))
    BY <1>6, <1>7 DEF S!start
  <2>2. req.origin => S!Appended(kept, "accept-encoding", "identity") = S!OrInsert(kept, "accept-encoding", S!By("identity"))
    BY <1>10 DEF S!Appended, S!OrInsert
  <2> QED BY <2>1, <2>2
<1>12. DOMAIN S!start(req, headers) = DOMAIN kept \cup {"accept-encoding"}
  BY <1>6, <1>7 DEF S!start, S!Appended, S!OrInsert, S!Insert
<1>13. req.origin => NotByHand(S!start(req, headers))
  <2>1. value # S!By("hand")
    BY <1>11 DEF S!By
  <2> QED BY <1>10, <1>11, <2>1, OrInsertedByOther
<1>14. "accept" \in DOMAIN S!start(req, headers) /\ DOMAIN S!start(req, headers) \cap S!Framing = {}
  BY <1>5, <1>8, <1>9, <1>12
<1>15. req.body = None => ("content-type" \in DOMAIN S!start(req, headers) => "content-type" \in req.hand)
  BY <1>5, <1>8, <1>12
<1> QED BY <1>4, <1>13, <1>14, <1>15 DEF HeadersGood

\* The chain begins, and goes on, with them.
LEMMA SendStart ==
    ASSUME \A q \in Submissions : q \in S!RequestType, S!SendInit
    PROVE  ChainGood /\ last = None
<1>1. req \in S!RequestType /\ file \in 0..MaxLen /\ last = None
  BY DEF S!SendInit
<1>2. DOMAIN chain = {"method", "headers", "body", "at", "auth", "over"}
      /\ chain.method = S!normalize_method(req.method) /\ chain.auth = {} /\ chain.body = req.body
      /\ chain.headers = S!start(req, S!make_request_init(req))
      /\ chain.over = (req.origin /\ S!is_forbidden_method(req.method))
  BY DEF S!SendInit
<1>3. chain.body \in S!Body \cup {None}
  BY <1>1, <1>2 DEF S!RequestType
<1> QED BY <1>1, <1>2, <1>3, StartGood DEF ChainGood

LEMMA RedirectKeepsChain ==
    ASSUME ChainGood, NEW status, NEW to, S!follow_redirect(status, to)
    PROVE  ChainGood'
<1>1. PICK get : get = ((status = 302 /\ chain.method = "POST") \/ (status = 303 /\ chain.method # "GET"))
  OBVIOUS
<1>2. PICK gone : gone = (IF get THEN S!BodyHeaders ELSE {}) \cup (IF to # chain.at THEN {"cookie"} ELSE {})
  OBVIOUS
<1>3. PICK h : h = S!Without(chain.headers, gone)
  OBVIOUS
<1>4. PICK m, b : m = (IF get THEN "GET" ELSE chain.method) /\ b = (IF get THEN None ELSE chain.body)
  OBVIOUS
<1>5. chain' = [chain EXCEPT !.method = m, !.body = b, !.headers = h, !.at = to, !.auth = {}]
      /\ req' = req /\ file' = file
  BY <1>1, <1>2, <1>3, <1>4 DEF S!follow_redirect
<1>6. /\ DOMAIN chain' = DOMAIN chain /\ chain'.method = m /\ chain'.body = b /\ chain'.headers = h
      /\ chain'.auth = {} /\ chain'.over = chain.over
  BY <1>5 DEF ChainGood
<1>7. DOMAIN h = DOMAIN chain.headers \ gone /\ (NotByHand(chain.headers) => NotByHand(h))
  BY <1>3, WithoutIs
<1>8. "accept" \notin gone /\ (get => "content-type" \in gone)
  BY <1>2 DEF S!BodyHeaders, S!Framing
<1>9. HeadersGood(h, b)
  BY <1>4, <1>7, <1>8 DEF ChainGood, HeadersGood
<1>10. HeadersGood(chain.headers, chain.body)'
  BY <1>5, <1>6, <1>9 DEF HeadersGood, NotByHand
<1> QED BY <1>4, <1>5, <1>6, <1>10 DEF ChainGood
\* The length a send declares, None for none.
Declared == IF chain.body # None THEN S!to_reqwest_body(chain.body)
            ELSE IF chain.method \in {"POST", "PUT"} THEN 0 ELSE None

\* The headers of a send as the request is built: the Accept and the credentials of the proxy
\* are there, so that the client adds neither; the framing is the body's own.
HopGood(h) ==
    /\ "accept" \in DOMAIN h /\ "transfer-encoding" \notin DOMAIN h
    /\ chain.at \in client.proxied => "proxy-authorization" \in DOMAIN h
    /\ "content-length" \in DOMAIN h <=> Declared # None
    /\ Declared # None => h["content-length"] = S!Length(Declared)
    /\ chain.body = None => ("content-type" \in DOMAIN h => "content-type" \in req.hand)
    /\ req.origin => NotByHand(h)

\* One header more, neither one of those nor written by hand.
LEMMA OrInsertKeepsHop ==
    ASSUME NEW h, HopGood(h), NEW name \in {"user-agent", "host"}, NEW value, value # S!By("hand")
    PROVE  HopGood(S!OrInsert(h, name, value))
<1>1. PICK g : g = S!OrInsert(h, name, value)
  OBVIOUS
<1>2. DOMAIN g = DOMAIN h \cup {name} /\ \A n \in DOMAIN h : g[n] = h[n]
  BY <1>1 DEF S!OrInsert, S!Insert
<1>3. req.origin => NotByHand(g)
  BY <1>1, OrInsertedByOther DEF HopGood
<1> QED BY <1>1, <1>2, <1>3 DEF HopGood

LEMMA HopIsGood ==
    ASSUME ChainGood
    PROVE  HopGood(S!hop_request)
<1>1. HeadersGood(chain.headers, chain.body) /\ chain.auth \subseteq {"authorization", "proxy-authorization"}
  BY DEF ChainGood
<1>2. PICK auth : auth = [n \in DOMAIN chain.headers \cup chain.auth |->
                             IF n \in chain.auth THEN S!By("challenge") ELSE chain.headers[n]]
  OBVIOUS
<1>3. DOMAIN auth = DOMAIN chain.headers \cup chain.auth
  BY <1>2
<1>4. req.origin => NotByHand(auth)
  BY <1>1, <1>2 DEF HeadersGood, NotByHand, S!By
<1>5. /\ "accept" \in DOMAIN auth /\ "transfer-encoding" \notin DOMAIN auth /\ "content-length" \notin DOMAIN auth
      /\ chain.body = None => ("content-type" \in DOMAIN auth => "content-type" \in req.hand)
  BY <1>1, <1>3 DEF HeadersGood, S!Framing
<1>6. PICK pragma : pragma = IF req.mode = "reload" THEN S!OrInsert(auth, "pragma", S!By("mode")) ELSE auth
  OBVIOUS
<1>7. DOMAIN pragma \in {DOMAIN auth, DOMAIN auth \cup {"pragma"}} /\ (req.origin => NotByHand(pragma))
  <2>1. DOMAIN S!OrInsert(auth, "pragma", S!By("mode")) = DOMAIN auth \cup {"pragma"}
    BY OrInserted
  <2>2. req.origin => NotByHand(S!OrInsert(auth, "pragma", S!By("mode")))
    BY <1>4, OrInsertedByOther DEF S!By
  <2> QED BY <1>4, <1>6, <2>1, <2>2
<1>8. PICK control : control = IF req.mode = "default" THEN pragma ELSE S!OrInsert(pragma, "cache-control", S!By("mode"))
  OBVIOUS
<1>9. DOMAIN control \in {DOMAIN pragma, DOMAIN pragma \cup {"cache-control"}} /\ (req.origin => NotByHand(control))
  <2>1. DOMAIN S!OrInsert(pragma, "cache-control", S!By("mode")) = DOMAIN pragma \cup {"cache-control"}
    BY OrInserted
  <2>2. req.origin => NotByHand(S!OrInsert(pragma, "cache-control", S!By("mode")))
    BY <1>7, OrInsertedByOther DEF S!By
  <2> QED BY <1>7, <1>8, <2>1, <2>2
<1>10. PICK h : h = S!add_send_headers(auth)
  OBVIOUS
<1>11. /\ DOMAIN h \in {DOMAIN control, DOMAIN control \cup {"proxy-authorization"}}
       /\ chain.at \in client.proxied => "proxy-authorization" \in DOMAIN h
       /\ req.origin => NotByHand(h)
  <2>1. h = IF chain.at \in client.proxied THEN S!OrInsert(control, "proxy-authorization", S!By("rule")) ELSE control
    BY <1>6, <1>8, <1>10 DEF S!add_send_headers
  <2>2. DOMAIN S!OrInsert(control, "proxy-authorization", S!By("rule")) = DOMAIN control \cup {"proxy-authorization"}
    BY OrInserted
  <2>3. req.origin => NotByHand(S!OrInsert(control, "proxy-authorization", S!By("rule")))
    BY <1>9, OrInsertedByOther DEF S!By
  <2> QED BY <1>9, <2>1, <2>2, <2>3
<1>12. /\ "accept" \in DOMAIN h /\ "transfer-encoding" \notin DOMAIN h /\ "content-length" \notin DOMAIN h
       /\ chain.body = None => ("content-type" \in DOMAIN h => "content-type" \in req.hand)
  BY <1>5, <1>7, <1>9, <1>11
<1>13. PICK framed : framed = IF Declared = None THEN h ELSE S!Insert(h, "content-length", S!Length(Declared))
  OBVIOUS
<1>14. HopGood(framed)
  <2>1. CASE Declared = None
    BY <1>11, <1>12, <1>13, <2>1 DEF HopGood
  <2>2. CASE Declared # None
    <3>1. DOMAIN framed = DOMAIN h \cup {"content-length"} /\ framed["content-length"] = S!Length(Declared)
          /\ \A n \in DOMAIN h : n # "content-length" => framed[n] = h[n]
      BY <1>13, <2>2 DEF S!Insert
    <3>2. S!Length(Declared) # S!By("hand")
      BY DEF S!Length, S!By
    <3>3. req.origin => NotByHand(framed)
      BY <1>11, <3>1, <3>2 DEF NotByHand
    <3> QED BY <1>11, <1>12, <2>2, <3>1, <3>3 DEF HopGood
  <2> QED BY <2>1, <2>2
<1>15. S!hop_request = S!order_hop_headers(framed)
  BY <1>2, <1>10, <1>13 DEF S!hop_request, Declared
<1>16. S!By("client") # S!By("hand") /\ S!By("url") # S!By("hand")
  BY DEF S!By
<1>17. PICK agent : agent = IF client.user_agent THEN S!OrInsert(framed, "user-agent", S!By("client")) ELSE framed
  OBVIOUS
<1>18. HopGood(agent) /\ HopGood(S!OrInsert(agent, "host", S!By("url")))
  <2>1. HopGood(S!OrInsert(framed, "user-agent", S!By("client")))
    BY <1>14, <1>16, OrInsertKeepsHop
  <2>2. HopGood(agent)
    BY <1>14, <1>17, <2>1
  <2> QED BY <1>16, <2>2, OrInsertKeepsHop
<1>19. S!order_hop_headers(framed) \in {framed, agent, S!OrInsert(agent, "host", S!By("url"))}
  BY <1>17 DEF S!order_hop_headers
<1> QED BY <1>14, <1>15, <1>18, <1>19
\* What a send declares of its body is true of it.
LEMMA DeclaredIsTrue ==
    ASSUME ChainGood, None \notin Nat
    PROVE  /\ S!BodyLen = None \/ S!BodyLen \in Nat
           /\ S!BodyLen = None => Declared = None /\ chain.body # None
           /\ S!BodyLen # None /\ S!BodyLen > 0 => Declared = S!BodyLen
           /\ chain.body = None => S!BodyLen = 0 /\ Declared \in {0, None}
                                   /\ (Declared # None <=> chain.method \in {"POST", "PUT"})
<1>1. file \in Nat /\ 0 # None /\ chain.body \in S!Body \cup {None}
  BY DEF ChainGood
<1>2. CASE chain.body = None
  BY <1>1, <1>2 DEF S!BodyLen, Declared
<1>3. CASE chain.body # None
  <2>1. CASE chain.body.kind = "file"
    BY <1>1, <1>3, <2>1 DEF S!BodyLen, Declared, S!to_reqwest_body
  <2>2. CASE chain.body.kind # "file"
    <3>1. chain.body.kind \in {"bytes", "stream"} /\ (chain.body.len \in Nat \/ chain.body.len = None)
      <4>1. chain.body \notin [kind: {"file"}, typed: {FALSE}]
        BY <2>2
      <4>2. chain.body \in [kind: {"bytes", "stream"}, len: 0..MaxLen \cup {None}, typed: BOOLEAN]
        BY <1>1, <1>3, <4>1 DEF S!Body
      <4> QED BY <4>2
    <3>2. S!BodyLen = chain.body.len
      BY <1>3, <2>2 DEF S!BodyLen
    <3>3. Declared = chain.body.len \/ (chain.body.len = 0 /\ Declared = None)
      BY <1>3, <3>1 DEF Declared, S!to_reqwest_body
    <3>4. chain.body.len = None => Declared = None
      BY <1>1, <3>3
    <3> QED BY <1>3, <3>1, <3>2, <3>3, <3>4
  <2> QED BY <2>1, <2>2
<1> QED BY <1>2, <1>3

\* What the client adds of its own: the user agent it was reported with, what depends on the
\* connection, and nothing to the framing but that there is no length.
LEMMA ExecuteIs ==
    ASSUME ChainGood, None \notin Nat, NEW h, HopGood(h), NEW w, w = S!Execute(h), NEW r, r = S!reported(h)
    PROVE  /\ \A n \in DOMAIN w \ {"host", "transfer-encoding"} : n \in DOMAIN r /\ r[n] = w[n]
           /\ \A n \in DOMAIN r : n \in DOMAIN w /\ r[n] = w[n]
           /\ "transfer-encoding" \in DOMAIN w <=> S!BodyLen = None
           /\ "content-length" \in DOMAIN w <=> "content-length" \in DOMAIN h
           /\ "content-length" \in DOMAIN h => w["content-length"] = h["content-length"]
           /\ "content-type" \in DOMAIN w <=> "content-type" \in DOMAIN h
           /\ req.origin => NotByHand(w)
<1>0. S!By("client") # S!By("hand") /\ S!By("url") # S!By("hand")
  BY DEF S!By
<1>1. r = IF client.user_agent THEN S!OrInsert(h, "user-agent", S!By("client")) ELSE h
  BY DEF S!reported
<1>2. DOMAIN r \in {DOMAIN h, DOMAIN h \cup {"user-agent"}} /\ (\A n \in DOMAIN h : r[n] = h[n])
      /\ (req.origin => NotByHand(r))
  <2>1. PICK g : g = S!OrInsert(h, "user-agent", S!By("client"))
    OBVIOUS
  <2>2. DOMAIN g = DOMAIN h \cup {"user-agent"} /\ \A n \in DOMAIN h : g[n] = h[n]
    BY <2>1 DEF S!OrInsert, S!Insert
  <2>3. req.origin => NotByHand(g)
    BY <1>0, <2>1, OrInsertedByOther DEF HopGood
  <2> QED BY <1>1, <2>1, <2>2, <2>3 DEF HopGood
<1>3. "accept" \in DOMAIN r /\ (chain.at \in client.proxied => "proxy-authorization" \in DOMAIN r)
  BY <1>2 DEF HopGood
<1>4. S!OrInsert(r, "accept", S!By("client")) = r
      /\ (chain.at \in client.proxied => S!OrInsert(r, "proxy-authorization", S!By("client")) = r)
  BY <1>3 DEF S!OrInsert
<1>5. PICK host : host = IF chain.at \in client.h2 THEN r ELSE S!OrInsert(r, "host", S!By("url"))
  OBVIOUS
<1>6. /\ DOMAIN host \in {DOMAIN r, DOMAIN r \cup {"host"}} /\ (\A n \in DOMAIN r : host[n] = r[n])
      /\ req.origin => NotByHand(host)
  <2>1. PICK g : g = S!OrInsert(r, "host", S!By("url"))
    OBVIOUS
  <2>2. DOMAIN g = DOMAIN r \cup {"host"} /\ \A n \in DOMAIN r : g[n] = r[n]
    BY <2>1 DEF S!OrInsert, S!Insert
  <2>3. req.origin => NotByHand(g)
    BY <1>0, <1>2, <2>1, OrInsertedByOther
  <2> QED BY <1>2, <1>5, <2>1, <2>2, <2>3
<1>7. w = IF S!BodyLen = None /\ "content-length" \notin DOMAIN h
            THEN S!OrInsert(host, "transfer-encoding", S!By("client"))
          ELSE IF S!BodyLen # None /\ S!BodyLen > 0
            THEN S!OrInsert(host, "content-length", S!Length(S!BodyLen)) ELSE host
  BY <1>1, <1>4, <1>5 DEF S!Execute
<1>8. S!BodyLen = None => "content-length" \notin DOMAIN h
  BY DeclaredIsTrue DEF HopGood
<1>9. S!BodyLen # None /\ S!BodyLen > 0 => "content-length" \in DOMAIN host
  BY <1>2, <1>6, DeclaredIsTrue DEF HopGood
<1>10. CASE S!BodyLen = None
  <2>1. w = S!OrInsert(host, "transfer-encoding", S!By("client"))
    BY <1>7, <1>8, <1>10
  <2>2. DOMAIN w = DOMAIN host \cup {"transfer-encoding"} /\ \A n \in DOMAIN host : w[n] = host[n]
    BY <2>1 DEF S!OrInsert, S!Insert
  <2>3. req.origin => NotByHand(w)
    BY <1>0, <1>6, <2>1, OrInsertedByOther
  <2> QED BY <1>2, <1>6, <1>10, <2>2, <2>3
<1>11. CASE S!BodyLen # None
  <2>1. w = host
    BY <1>7, <1>9, <1>11 DEF S!OrInsert
  <2>2. "transfer-encoding" \notin DOMAIN w
    BY <1>2, <1>6, <2>1 DEF HopGood
  <2> QED BY <1>2, <1>6, <1>11, <2>1, <2>2
<1> QED BY <1>10, <1>11

\* A send is reported as it goes out.
LEMMA SendReports ==
    ASSUME ChainGood, None \notin Nat, S!Send
    PROVE  S!ReportedIsSent'
<1>1. PICK h : h = S!hop_request
  OBVIOUS
<1>2. PICK w, r : w = S!Execute(h) /\ r = S!reported(h)
  OBVIOUS
<1>3. HopGood(h)
  BY <1>1, HopIsGood
<1>4. /\ \A n \in DOMAIN w \ {"host", "transfer-encoding"} : n \in DOMAIN r /\ r[n] = w[n]
      /\ \A n \in DOMAIN r : n \in DOMAIN w /\ r[n] = w[n]
      /\ "transfer-encoding" \in DOMAIN w <=> S!BodyLen = None
      /\ "content-length" \in DOMAIN w <=> "content-length" \in DOMAIN h
      /\ "content-length" \in DOMAIN h => w["content-length"] = h["content-length"]
      /\ "content-type" \in DOMAIN w <=> "content-type" \in DOMAIN h
      /\ req.origin => NotByHand(w)
  BY <1>2, <1>3, ExecuteIs
<1>5. PICK l : l = [reported |-> r, wire |-> w, method |-> chain.method, body |-> chain.body,
                    len |-> S!BodyLen, at |-> chain.at]
  OBVIOUS
<1>6. last' = l /\ req' = req /\ ~chain.over
  BY <1>1, <1>2, <1>5 DEF S!Send
<1>7. l.reported = r /\ l.wire = w /\ l.method = chain.method /\ l.body = chain.body /\ l.len = S!BodyLen
  BY <1>5
<1>8. ~("transfer-encoding" \in DOMAIN w /\ "content-length" \in DOMAIN w)
  BY <1>3, <1>4, DeclaredIsTrue DEF HopGood
<1>9. S!BodyLen # None /\ S!BodyLen > 0 =>
         "content-length" \in DOMAIN w /\ w["content-length"] = S!Length(S!BodyLen)
  BY <1>3, <1>4, DeclaredIsTrue DEF HopGood
<1>10. chain.body = None =>
         /\ "transfer-encoding" \notin DOMAIN w
         /\ "content-length" \in DOMAIN w <=> chain.method \in {"POST", "PUT"}
         /\ "content-length" \in DOMAIN w => w["content-length"] = S!Length(0)
         /\ "content-type" \in DOMAIN w => "content-type" \in req.hand
  BY <1>3, <1>4, DeclaredIsTrue DEF HopGood
<1>11. req.origin => ~S!is_forbidden_method(chain.method)
  BY <1>6 DEF ChainGood, S!is_forbidden_method, S!normalize_method
<1>12. req.origin => \A n \in S!Forbidden \cap DOMAIN w : w[n] # S!By("hand")
  BY <1>4 DEF NotByHand
<1> QED BY <1>4, <1>6, <1>7, <1>8, <1>9, <1>10, <1>11, <1>12 DEF S!ReportedIsSent

\* What RequestSent tells of a send is what goes on the wire, and its framing is its body's
\* own: for any request, body and file, any redirects and challenges, and however often it is
\* sent (HopChain::hop_request, to_reqwest_body, HopChain::start).
THEOREM SendsReported ==
    ASSUME None \notin Nat, \A q \in Submissions : q \in S!RequestType
    PROVE  S!SendSpec => []ReportedIsSent
<1> DEFINE SendInv == ChainGood /\ S!ReportedIsSent
<1>1. S!SendInit => SendInv
  BY SendStart DEF S!ReportedIsSent
<1>2. SendInv /\ [S!SendNext]_(S!vars) => SendInv'
  <2> SUFFICES ASSUME SendInv, [S!SendNext]_(S!vars)
               PROVE  SendInv'
    OBVIOUS
  <2>1. CASE S!Send
    BY <2>1, SendReports DEF S!Send, ChainGood, HeadersGood, NotByHand
  <2>2. ASSUME NEW name \in {"authorization", "proxy-authorization"}, S!Challenged(name)
        PROVE  SendInv'
    <3>1. PICK a : a = chain.auth \cup {name}
      OBVIOUS
    <3>2. chain' = [chain EXCEPT !.auth = a] /\ last' = None /\ req' = req /\ file' = file
      BY <2>2, <3>1 DEF S!Challenged
    <3>3. /\ DOMAIN chain' = DOMAIN chain /\ chain'.method = chain.method /\ chain'.body = chain.body
          /\ chain'.headers = chain.headers /\ chain'.auth = a /\ chain'.over = chain.over
      BY <3>2 DEF ChainGood
    <3>4. ChainGood'
      BY <3>1, <3>2, <3>3 DEF ChainGood, HeadersGood, NotByHand
    <3> QED BY <3>2, <3>4 DEF S!ReportedIsSent
  <2>3. ASSUME NEW status, NEW to, S!follow_redirect(status, to)
        PROVE  SendInv'
    BY ZenonT(60), <2>3, RedirectKeepsChain DEF S!follow_redirect, S!ReportedIsSent
  <2>4. ASSUME NEW len \in 0..MaxLen, S!FileChanges(len)
        PROVE  SendInv'
    BY <2>4 DEF S!FileChanges, ChainGood, HeadersGood, NotByHand, S!ReportedIsSent
  <2>5. CASE UNCHANGED S!vars
    BY <2>5 DEF S!vars, ChainGood, HeadersGood, NotByHand, S!ReportedIsSent
  <2> QED BY <2>1, <2>2, <2>3, <2>4, <2>5 DEF S!SendNext
<1> QED BY <1>1, <1>2, PTL DEF S!SendSpec, ReportedIsSent
-----------------------------------------------------------------------------
(* Deadlines.  The invariant bounds the clock by the timers that run, and  *)
(* the moments a hop begins and is sent by what came before it.            *)

Heading == {"resolve", "preflight", "plan", "wait"}
Reading == {"peek", "read", "listen", "stream"}
Phases  == Heading \cup Reading \cup {"done"}

\* The timeouts in force, as the documentation has them, for a fetch that need not be the variable.
Own(f)    == D!unwrap_or(f.req.req_timeout, f.cfg.req_timeout)
Idle(f)   == D!unwrap_or(f.req.read_idle_timeout, f.cfg.read_idle_timeout)
Total(f)  == D!Lifted(f.req.total_body_timeout, f.cfg.total_body_timeout)
Budget(f) == D!Lifted(f.req.redirect_timeout, f.cfg.redirect_timeout)
Asking(f) == IF f.req.preflights THEN f.cfg.req_timeout ELSE 0
Again(f)  == IF f.req.caches THEN 1 ELSE 0
OneHop(f) == Asking(f) + (1 + MaxAuth + Again(f)) * Own(f)
HeadBound(f) ==
    f.waited_first + f.waited_later
    + OneHop(f) + (IF f.redirects = 0 THEN 0
                   ELSE IF Budget(f) = None THEN f.redirects * OneHop(f) ELSE Budget(f) + (1 + f.hits) * Asking(f))

\* A hop begins by then, and by then its sends but the last are over: those that answered a
\* challenge, and the one whose 304 was contradicted.
Begun(f) ==
    IF f.redirect_deadline = None THEN f.redirects * OneHop(f) + f.waited_first + f.waited_later
    ELSE f.redirect_deadline + f.hits * Asking(f) + f.waited_later
Sendings(f) == f.answers + IF f.revalidating THEN 0 ELSE Again(f)

Inits == {D!make_request_init(q, c) : q \in D!Overrides, c \in D!FetcherConfig}

Timed(f) ==
    /\ f \in [cfg: D!FetcherConfig, req: D!Overrides, init: Inits,
              clock: Nat, phase: Phases, sent: Nat, redirects: Nat, answers: 0..MaxAuth, revalidating: BOOLEAN,
              redirect_deadline: Nat \cup {None}, body_deadline: Nat \cup {None}, silent: Nat,
              answered: Nat \cup {None}, cut: Phases \cup {None}, turned: Nat \cup {None},
              hits: Nat, waited_first: Nat, waited_later: Nat]
    /\ f.init = D!make_request_init(f.req, f.cfg)
    /\ f.revalidating => f.req.caches

\* The budget for the redirects runs from the first of them, which came in time.
Turned(f) ==
    /\ f.redirects = 0 => f.turned = None /\ f.redirect_deadline = None /\ f.waited_later = 0
    /\ f.redirects > 0 => /\ f.turned \in Nat /\ f.turned <= OneHop(f) + f.waited_first
                          /\ f.redirect_deadline = D!After(f.turned, Budget(f))

\* What bounds a hop while its headers are out.
HeadInTime(f) ==
    /\ f.phase = "resolve" => f.clock <= Begun(f) /\ f.answers = 0
    /\ f.phase = "preflight" => /\ f.req.preflights /\ f.answers = 0
                                /\ f.sent <= Begun(f) /\ f.clock <= f.sent + Asking(f)
    /\ f.phase = "plan" => f.clock <= Begun(f) + Asking(f) /\ f.answers = 0
    /\ f.phase = "wait" =>
          /\ f.clock <= f.sent + Own(f)
          /\ f.redirect_deadline = None => f.sent <= Begun(f) + Asking(f) + Sendings(f) * Own(f)
          /\ f.redirect_deadline # None =>
                /\ f.sent <= Begun(f) + Asking(f)
                /\ f.clock <= f.redirect_deadline \/ f.clock <= f.sent

\* And what bounds its body.
BodyInTime(f) ==
    f.phase \in Reading =>
        /\ f.answered \in Nat /\ f.answered <= HeadBound(f)
        /\ f.body_deadline = D!After(f.answered, Total(f))
        /\ Total(f) # None => f.clock <= f.body_deadline
        /\ f.clock <= f.silent + Idle(f)
        /\ ~f.req.streaming => f.clock <= f.sent + Own(f)
        /\ f.phase = "read" => ~f.req.streaming
        /\ f.phase \in {"listen", "stream"} => f.req.streaming

Passed(f, since, d) == d # None /\ since # None /\ f.clock - since >= d

\* Overdue, of a fetch that need not be the variable.
Late(f, phase) ==
    CASE phase = "preflight" -> Passed(f, f.sent, f.cfg.req_timeout)
      [] phase = "wait"      -> Passed(f, f.sent, Own(f)) \/ Passed(f, f.turned, Budget(f))
      [] OTHER               -> \/ Passed(f, f.silent, Idle(f)) \/ Passed(f, f.answered, Total(f))
                                \/ (~f.req.streaming /\ Passed(f, f.sent, Own(f)))

DeadlineGood(f) ==
    /\ Timed(f) /\ Turned(f) /\ HeadInTime(f) /\ BodyInTime(f)
    /\ f.cut # None => f.phase = "done" /\ Late(f, f.cut)

DeadlineInv == DeadlineGood(timing)

LEMMA MoreIsMore ==
    ASSUME NEW m \in Nat, NEW n \in Nat, NEW d \in Nat, m <= n
    PROVE  /\ m * d \in Nat /\ n * d \in Nat /\ m * d <= n * d
           /\ (m + 1) * d = m * d + d
  BY SMT

LEMMA Times ==
    ASSUME D!TimesAssumption, NEW f, Timed(f)
    PROVE  /\ Own(f) \in Nat /\ Idle(f) \in Nat /\ Total(f) \in Nat \cup {None}
           /\ Budget(f) \in Nat \cup {None} /\ Asking(f) \in Nat /\ Again(f) \in {0, 1}
           /\ f.cfg.req_timeout \in Nat /\ OneHop(f) \in Nat
           /\ f.init.redirect_timeout = Budget(f) /\ f.init.total_body_timeout = Total(f)
           /\ f.init.read_idle_timeout = Idle(f)
           /\ f.init.headers_timeout = IF f.req.streaming THEN Own(f) ELSE None
           /\ D!client_deadline(f.init, f.cfg) = IF f.req.streaming THEN None ELSE Own(f)
           /\ f.req.streaming \in BOOLEAN /\ f.req.preflights \in BOOLEAN /\ f.req.caches \in BOOLEAN
<1> DEFINE q == f.req
           c == f.cfg
<1>0. f.req \in D!Overrides /\ f.cfg \in D!FetcherConfig
  BY DEF Timed
<1>1. /\ q.req_timeout \in Nat \cup {None} /\ q.read_idle_timeout \in Nat \cup {None}
      /\ q.total_body_timeout \in Nat \cup {None} /\ q.redirect_timeout \in Nat \cup {None}
      /\ q.streaming \in BOOLEAN /\ q.preflights \in BOOLEAN /\ q.caches \in BOOLEAN
  BY <1>0 DEF D!Overrides, D!Duration
<1>2. /\ c.req_timeout \in Nat /\ c.read_idle_timeout \in Nat
      /\ c.total_body_timeout \in Nat \cup {None} /\ c.redirect_timeout \in Nat \cup {None}
  BY <1>0 DEF D!FetcherConfig, D!Duration
<1>3. /\ Own(f) \in Nat /\ Idle(f) \in Nat /\ Total(f) \in Nat \cup {None}
      /\ Budget(f) \in Nat \cup {None} /\ Asking(f) \in Nat /\ Again(f) \in {0, 1}
  BY <1>1, <1>2 DEF Own, Idle, Total, Budget, Asking, Again, D!unwrap_or, D!Lifted
<1>4. OneHop(f) \in Nat
  <2>1. 1 + MaxAuth + Again(f) \in Nat
    BY <1>3 DEF D!TimesAssumption
  <2>2. PICK n \in Nat : n = 1 + MaxAuth + Again(f)
    BY <2>1
  <2>3. n * Own(f) \in Nat
    BY <1>3, MoreIsMore
  <2> QED BY <1>3, <2>2, <2>3 DEF OneHop
<1>6. f.init = D!make_request_init(q, c)
  BY DEF Timed
<1>7. /\ f.init.redirect_timeout = Budget(f) /\ f.init.total_body_timeout = Total(f)
      /\ f.init.read_idle_timeout = Idle(f)
      /\ f.init.headers_timeout = IF q.streaming THEN Own(f) ELSE None
      /\ f.init.timeout = q.req_timeout
  BY <1>6 DEF D!make_request_init, D!effective_total_body_timeout, D!effective_read_idle_timeout,
              D!headers_timeout, Budget, Total, Idle, Own
<1>8. D!client_deadline(f.init, f.cfg) = IF q.streaming THEN None ELSE Own(f)
  BY <1>1, <1>3, <1>7 DEF D!client_deadline, Own, D!TimesAssumption
<1> QED BY <1>1, <1>2, <1>3, <1>4, <1>7, <1>8

\* The hops behind a fetch, and the preflights of those the cache answered, take so long.
LEMMA Products ==
    ASSUME D!TimesAssumption, NEW f, Timed(f)
    PROVE  \E rH \in Nat, hA \in Nat :
              /\ rH = f.redirects * OneHop(f) /\ (f.redirects + 1) * OneHop(f) = rH + OneHop(f)
              /\ hA = f.hits * Asking(f) /\ (1 + f.hits) * Asking(f) = hA + Asking(f)
              /\ f.redirects = 0 => rH = 0
<1>1. PICK r \in Nat, h \in Nat, x \in Nat, y \in Nat :
          r = f.redirects /\ h = f.hits /\ x = OneHop(f) /\ y = Asking(f)
  BY Times DEF Timed
<1>2. r * x \in Nat /\ (r + 1) * x = r * x + x /\ h * y \in Nat /\ (h + 1) * y = h * y + y
  <2>1. r <= r /\ h <= h
    OBVIOUS
  <2> QED BY <2>1, MoreIsMore
<1>3. 1 + h = h + 1 /\ (r = 0 => r * x = 0)
  OBVIOUS
<1> QED BY <1>1, <1>2, <1>3

\* What a fetch holds is of its type, and so is what is computed from it.
LEMMA FieldsOf ==
    ASSUME D!TimesAssumption, NEW f, DeadlineGood(f)
    PROVE  /\ f.clock \in Nat /\ f.phase \in Phases /\ f.sent \in Nat /\ f.redirects \in Nat
           /\ f.answers \in 0..MaxAuth /\ f.redirect_deadline \in Nat \cup {None}
           /\ f.body_deadline \in Nat \cup {None} /\ f.silent \in Nat /\ f.answered \in Nat \cup {None}
           /\ f.turned \in Nat \cup {None} /\ None \notin Int /\ MaxAuth \in Nat
           /\ f.hits \in Nat /\ f.waited_first \in Nat /\ f.waited_later \in Nat /\ f.revalidating \in BOOLEAN
           /\ Own(f) \in Nat /\ Idle(f) \in Nat /\ Total(f) \in Nat \cup {None}
           /\ Budget(f) \in Nat \cup {None} /\ Asking(f) \in Nat /\ Again(f) \in {0, 1}
           /\ f.cfg.req_timeout \in Nat /\ OneHop(f) \in Nat /\ HeadBound(f) \in Nat /\ Begun(f) \in Nat
<1>1. /\ f.clock \in Nat /\ f.phase \in Phases /\ f.sent \in Nat /\ f.redirects \in Nat
      /\ f.answers \in 0..MaxAuth /\ f.redirect_deadline \in Nat \cup {None}
      /\ f.body_deadline \in Nat \cup {None} /\ f.silent \in Nat /\ f.answered \in Nat \cup {None}
      /\ f.turned \in Nat \cup {None} /\ None \notin Int /\ MaxAuth \in Nat
      /\ f.hits \in Nat /\ f.waited_first \in Nat /\ f.waited_later \in Nat /\ f.revalidating \in BOOLEAN
  BY DEF DeadlineGood, Timed, D!TimesAssumption
<1>2. /\ Own(f) \in Nat /\ Idle(f) \in Nat /\ Total(f) \in Nat \cup {None}
      /\ Budget(f) \in Nat \cup {None} /\ Asking(f) \in Nat /\ Again(f) \in {0, 1} /\ OneHop(f) \in Nat
      /\ f.cfg.req_timeout \in Nat
  BY Times DEF DeadlineGood
<1>5. PICK rH \in Nat, hA \in Nat : rH = f.redirects * OneHop(f) /\ hA = f.hits * Asking(f)
                                   /\ (1 + f.hits) * Asking(f) = hA + Asking(f)
  BY Products DEF DeadlineGood
<1>6. Begun(f) \in Nat
  <2>1. Begun(f) = IF f.redirect_deadline = None THEN rH + f.waited_first + f.waited_later
                   ELSE f.redirect_deadline + hA + f.waited_later
    BY <1>5 DEF Begun
  <2> QED BY <1>1, <1>5, <2>1
<1>7. HeadBound(f) \in Nat
  <2>1. HeadBound(f) = f.waited_first + f.waited_later + OneHop(f)
            + (IF f.redirects = 0 THEN 0 ELSE IF Budget(f) = None THEN rH ELSE Budget(f) + (hA + Asking(f)))
    BY <1>5 DEF HeadBound
  <2>2. PICK w \in Nat, o \in Nat, a \in Nat :
            w = f.waited_first + f.waited_later /\ o = OneHop(f) /\ a = hA + Asking(f)
    BY <1>1, <1>2
  <2>3. w + o + 0 \in Nat /\ w + o + rH \in Nat
    OBVIOUS
  <2>4. Budget(f) # None => w + o + (Budget(f) + a) \in Nat
    BY <1>2
  <2> QED BY <2>1, <2>2, <2>3, <2>4
<1> QED BY <1>1, <1>2, <1>6, <1>7

LEMMA SameTimes ==
    ASSUME NEW f, NEW g, g.req = f.req, g.cfg = f.cfg
    PROVE  /\ Own(g) = Own(f) /\ Idle(g) = Idle(f) /\ Total(g) = Total(f) /\ Budget(g) = Budget(f)
           /\ Asking(g) = Asking(f) /\ Again(g) = Again(f) /\ OneHop(g) = OneHop(f)
           /\ (/\ g.redirects = f.redirects /\ g.hits = f.hits
               /\ g.waited_first = f.waited_first /\ g.waited_later = f.waited_later)
                 => /\ HeadBound(g) = HeadBound(f)
                    /\ g.redirect_deadline = f.redirect_deadline => Begun(g) = Begun(f)
<1>1. /\ Own(g) = Own(f) /\ Idle(g) = Idle(f) /\ Total(g) = Total(f) /\ Budget(g) = Budget(f)
      /\ Asking(g) = Asking(f) /\ Again(g) = Again(f)
  BY DEF Own, Idle, Total, Budget, Asking, Again
<1>2. OneHop(g) = OneHop(f)
  BY <1>1 DEF OneHop
<1>3. ASSUME /\ g.redirects = f.redirects /\ g.hits = f.hits
             /\ g.waited_first = f.waited_first /\ g.waited_later = f.waited_later
      PROVE  /\ HeadBound(g) = HeadBound(f)
             /\ g.redirect_deadline = f.redirect_deadline => Begun(g) = Begun(f)
  BY <1>1, <1>2, <1>3 DEF HeadBound, Begun
<1> QED BY <1>1, <1>2, <1>3

\* The sends of a hop are as many as its challenges and its stored response allow.
LEMMA HopInTime ==
    ASSUME D!TimesAssumption, NEW f, DeadlineGood(f)
    PROVE  /\ Sendings(f) \in Nat /\ Sendings(f) * Own(f) \in Nat
           /\ (Sendings(f) + 1) * Own(f) = Sendings(f) * Own(f) + Own(f)
           /\ Asking(f) + (Sendings(f) + 1) * Own(f) <= OneHop(f)
<1>1. /\ f.answers \in 0..MaxAuth /\ Own(f) \in Nat /\ Asking(f) \in Nat /\ Again(f) \in {0, 1} /\ MaxAuth \in Nat
  BY FieldsOf
<1>2. PICK n \in Nat, m \in Nat : n = Sendings(f) /\ m = 1 + MaxAuth + Again(f) /\ n + 1 <= m /\ n <= n
  BY <1>1 DEF Sendings
<1>3. PICK a \in Nat : a = Own(f)
  BY <1>1
<1>4. /\ n * a \in Nat /\ (n + 1) * a = n * a + a
  BY <1>2, <1>3, MoreIsMore
<1>5. (n + 1) * a <= m * a /\ (n + 1) * a \in Nat /\ m * a \in Nat
  <2>1. n + 1 \in Nat
    BY <1>2
  <2> QED BY <1>2, <1>3, <2>1, MoreIsMore
<1>6. OneHop(f) = Asking(f) + m * a
  BY <1>2, <1>3 DEF OneHop
<1>7. PICK x \in Nat, y \in Nat : x = (n + 1) * a /\ y = m * a /\ x <= y
  BY <1>5
<1>8. Asking(f) + x <= Asking(f) + y
  BY <1>1, <1>7
<1> QED BY <1>2, <1>3, <1>4, <1>6, <1>7, <1>8

\* A hop that is under way is not yet late.
LEMMA HeadGoesOn ==
    ASSUME D!TimesAssumption, NEW f, DeadlineGood(f), f.phase \in Heading
    PROVE  /\ f.redirect_deadline = None => f.clock <= Begun(f) + OneHop(f)
           /\ f.redirect_deadline # None => f.redirects > 0 /\ f.clock <= Begun(f) + Asking(f)
           /\ Asking(f) <= OneHop(f)
<1>1. /\ f.clock \in Nat /\ f.sent \in Nat /\ f.redirects \in Nat /\ f.redirect_deadline \in Nat \cup {None}
      /\ Own(f) \in Nat /\ Asking(f) \in Nat /\ OneHop(f) \in Nat /\ Begun(f) \in Nat
      /\ f.waited_later \in Nat /\ None \notin Int
  BY FieldsOf
<1>2. PICK x \in Nat : x = Sendings(f) * Own(f) /\ Asking(f) + (x + Own(f)) <= OneHop(f)
  BY HopInTime
<1>3. f.redirect_deadline # None => f.redirects > 0 /\ f.redirect_deadline <= Begun(f)
  <2>1. PICK h \in Nat : h = f.hits * Asking(f)
    BY Products DEF DeadlineGood
  <2>2. f.redirect_deadline # None => Begun(f) = f.redirect_deadline + h + f.waited_later
    BY <2>1 DEF Begun
  <2> QED BY <1>1, <2>1, <2>2 DEF DeadlineGood, Turned
<1>4. CASE f.phase = "resolve"
  BY <1>1, <1>2, <1>3, <1>4 DEF DeadlineGood, HeadInTime
<1>5. CASE f.phase = "preflight"
  BY <1>1, <1>2, <1>3, <1>5 DEF DeadlineGood, HeadInTime
<1>6. CASE f.phase = "plan"
  BY <1>1, <1>2, <1>3, <1>6 DEF DeadlineGood, HeadInTime
<1>7. CASE f.phase = "wait"
  <2>1. /\ f.clock <= f.sent + Own(f)
        /\ f.redirect_deadline = None => f.sent <= Begun(f) + Asking(f) + x
        /\ f.redirect_deadline # None =>
              f.sent <= Begun(f) + Asking(f) /\ (f.clock <= f.redirect_deadline \/ f.clock <= f.sent)
    BY <1>2, <1>7 DEF DeadlineGood, HeadInTime
  <2> QED BY <1>1, <1>2, <1>3, <2>1
<1> QED BY <1>4, <1>5, <1>6, <1>7 DEF Heading

\* Nor is its head.
LEMMA HeadInBound ==
    ASSUME D!TimesAssumption, NEW f, DeadlineGood(f), f.phase \in Heading
    PROVE  f.clock <= HeadBound(f)
<1>1. /\ f.clock \in Nat /\ f.redirects \in Nat /\ Asking(f) \in Nat /\ OneHop(f) \in Nat
      /\ f.redirect_deadline \in Nat \cup {None} /\ Budget(f) \in Nat \cup {None} /\ None \notin Int
      /\ f.waited_first \in Nat /\ f.waited_later \in Nat
  BY FieldsOf
<1>2. PICK rH \in Nat, hA \in Nat :
          /\ rH = f.redirects * OneHop(f) /\ hA = f.hits * Asking(f)
          /\ (1 + f.hits) * Asking(f) = hA + Asking(f)
          /\ f.redirects = 0 => rH = 0
  BY Products DEF DeadlineGood
<1>3. Begun(f) = IF f.redirect_deadline = None THEN rH + f.waited_first + f.waited_later
                 ELSE f.redirect_deadline + hA + f.waited_later
  BY <1>2 DEF Begun
<1>4. HeadBound(f) = f.waited_first + f.waited_later + OneHop(f)
          + (IF f.redirects = 0 THEN 0 ELSE IF Budget(f) = None THEN rH ELSE Budget(f) + (hA + Asking(f)))
  BY <1>2 DEF HeadBound
<1>6. /\ f.redirect_deadline = None => f.clock <= Begun(f) + OneHop(f)
      /\ f.redirect_deadline # None => f.redirects > 0 /\ f.clock <= Begun(f) + Asking(f)
  BY HeadGoesOn
<1>7. CASE f.redirects = 0
  <2>1. f.redirect_deadline = None
    BY <1>7 DEF DeadlineGood, Turned
  <2> QED BY <1>1, <1>2, <1>3, <1>4, <1>6, <1>7, <2>1
<1>8. CASE f.redirects > 0
  <2>1. /\ f.turned \in Nat /\ f.turned <= OneHop(f) + f.waited_first
        /\ f.redirect_deadline = IF Budget(f) = None THEN None ELSE f.turned + Budget(f)
    BY <1>8 DEF DeadlineGood, Turned, D!After
  <2> QED BY <1>1, <1>2, <1>3, <1>4, <1>6, <1>8, <2>1
<1> QED BY <1>1, <1>7, <1>8

\* The timers that run in a phase.
LEMMA TimersOf ==
    ASSUME D!TimesAssumption, DeadlineInv
    PROVE  /\ timing.phase = "preflight" =>
                 D!Timers = [client |-> timing.sent + timing.cfg.req_timeout]
           /\ timing.phase = "wait" =>
                 D!Timers = [client |-> D!After(timing.sent, D!client_deadline(timing.init, timing.cfg)),
                             headers |-> D!After(timing.sent, timing.init.headers_timeout),
                             redirect |-> timing.redirect_deadline]
           /\ timing.phase \in {"peek", "read"} =>
                 D!Timers = [client |-> D!After(timing.sent, D!client_deadline(timing.init, timing.cfg)),
                             idle |-> timing.silent + timing.init.read_idle_timeout,
                             total |-> timing.body_deadline]
           /\ timing.phase \in {"listen", "stream"} =>
                 D!Timers = [idle |-> timing.silent + timing.init.read_idle_timeout,
                             total |-> timing.body_deadline]
           /\ timing.phase \in {"resolve", "plan", "done"} => D!Timers = <<>>
<1>1. CASE timing.phase = "preflight"
  BY <1>1 DEF D!Timers
<1>2. CASE timing.phase = "wait"
  BY <1>2 DEF D!Timers
<1>3. CASE timing.phase \in {"peek", "read"}
  BY <1>3 DEF D!Timers
<1>4. CASE timing.phase \in {"listen", "stream"}
  BY <1>4 DEF D!Timers
<1>5. CASE timing.phase \in {"resolve", "plan", "done"}
  BY <1>5 DEF D!Timers
<1> QED BY <1>1, <1>2, <1>3, <1>4, <1>5

\* No timer is due before the time the documentation gives it, and one is when it is over.
LEMMA DueWhenLate ==
    ASSUME D!TimesAssumption, DeadlineInv
    PROVE  /\ (\A t \in DOMAIN D!Timers : ~D!Due(t)) =>
                 /\ timing.phase = "preflight" => timing.clock < timing.sent + timing.cfg.req_timeout
                 /\ timing.phase = "wait" =>
                       /\ timing.clock < timing.sent + Own(timing)
                       /\ timing.redirect_deadline # None => timing.clock < timing.redirect_deadline
                 /\ timing.phase \in Reading =>
                       /\ timing.clock < timing.silent + Idle(timing)
                       /\ Total(timing) # None => timing.clock < timing.body_deadline
                       /\ ~timing.req.streaming => timing.clock < timing.sent + Own(timing)
           /\ (\E t \in DOMAIN D!Timers : D!Due(t)) =>
                 timing.phase # "done" /\ Late(timing, timing.phase)
<1> DEFINE f == timing
           whole == IF f.req.streaming THEN None ELSE f.sent + Own(f)
           headers == IF f.req.streaming THEN f.sent + Own(f) ELSE None
           idle == f.silent + Idle(f)
<1>0. /\ f.phase \in Phases /\ f.clock \in Nat /\ f.sent \in Nat /\ f.silent \in Nat
      /\ f.redirect_deadline \in Nat \cup {None} /\ f.body_deadline \in Nat \cup {None}
      /\ f.turned \in Nat \cup {None} /\ None \notin Int
  BY DEF DeadlineInv, DeadlineGood, Timed, D!TimesAssumption
<1>1. /\ Own(f) \in Nat /\ Idle(f) \in Nat /\ Total(f) \in Nat \cup {None} /\ Budget(f) \in Nat \cup {None}
      /\ f.cfg.req_timeout \in Nat /\ f.req.streaming \in BOOLEAN
      /\ f.init.read_idle_timeout = Idle(f)
      /\ f.init.headers_timeout = IF f.req.streaming THEN Own(f) ELSE None
      /\ D!client_deadline(f.init, f.cfg) = IF f.req.streaming THEN None ELSE Own(f)
  BY Times DEF DeadlineInv, DeadlineGood
<1>2. /\ D!After(f.sent, D!client_deadline(f.init, f.cfg)) = whole
      /\ D!After(f.sent, f.init.headers_timeout) = headers
      /\ f.silent + f.init.read_idle_timeout = idle
  BY <1>0, <1>1 DEF D!After
<1>3. CASE f.phase = "preflight"
  <2>1. D!Timers = [client |-> f.sent + f.cfg.req_timeout]
    BY <1>3, TimersOf
  <2>2. DOMAIN D!Timers = {"client"} /\ D!Timers["client"] = f.sent + f.cfg.req_timeout
    BY <2>1
  <2> QED BY <1>0, <1>1, <1>3, <2>2 DEF D!Due, Reading, Late, Passed
<1>4. CASE f.phase = "wait"
  <2>1. D!Timers = [client |-> whole, headers |-> headers, redirect |-> f.redirect_deadline]
    BY <1>2, <1>4, TimersOf
  <2>2. /\ DOMAIN D!Timers = {"client", "headers", "redirect"} /\ D!Timers["client"] = whole
        /\ D!Timers["headers"] = headers /\ D!Timers["redirect"] = f.redirect_deadline
    BY <2>1
  <2>3. f.redirect_deadline # None =>
            f.turned \in Nat /\ Budget(f) # None /\ f.redirect_deadline = f.turned + Budget(f)
    <3>1. f.redirects \in Nat
      BY DEF DeadlineInv, DeadlineGood, Timed
    <3> QED BY <1>0, <3>1 DEF DeadlineInv, DeadlineGood, Turned, D!After
  <2>4. Late(f, "wait") <=> Passed(f, f.sent, Own(f)) \/ Passed(f, f.turned, Budget(f))
    BY DEF Late
  <2> QED BY <1>0, <1>1, <1>4, <2>2, <2>3, <2>4 DEF D!Due, Reading, Passed
<1>5. CASE f.phase \in Reading
  <2>1. /\ f.answered \in Nat
        /\ Total(f) # None => f.body_deadline = f.answered + Total(f)
        /\ Total(f) = None => f.body_deadline = None
        /\ f.phase = "read" => ~f.req.streaming
        /\ f.phase \in {"listen", "stream"} => f.req.streaming
    BY <1>5 DEF DeadlineInv, DeadlineGood, BodyInTime, D!After
  <2>2. Late(f, f.phase) <=> \/ Passed(f, f.silent, Idle(f)) \/ Passed(f, f.answered, Total(f))
                             \/ (~f.req.streaming /\ Passed(f, f.sent, Own(f)))
    BY <1>5 DEF Late, Reading
  <2>3. CASE f.phase \in {"peek", "read"}
    <3>1. D!Timers = [client |-> whole, idle |-> idle, total |-> f.body_deadline]
      BY <1>2, <2>3, TimersOf
    <3>2. /\ DOMAIN D!Timers = {"client", "idle", "total"} /\ D!Timers["client"] = whole
          /\ D!Timers["idle"] = idle /\ D!Timers["total"] = f.body_deadline
      BY <3>1
    <3> QED BY <1>0, <1>1, <2>1, <2>2, <2>3, <3>2 DEF D!Due, Reading, Passed
  <2>4. CASE f.phase \in {"listen", "stream"}
    <3>1. D!Timers = [idle |-> idle, total |-> f.body_deadline]
      BY <1>2, <2>4, TimersOf
    <3>2. /\ DOMAIN D!Timers = {"idle", "total"}
          /\ D!Timers["idle"] = idle /\ D!Timers["total"] = f.body_deadline
      BY <3>1
    <3> QED BY <1>0, <1>1, <2>1, <2>2, <2>4, <3>2 DEF D!Due, Reading, Passed
  <2> QED BY <1>5, <2>3, <2>4 DEF Reading
<1>6. CASE f.phase \in {"resolve", "plan", "done"}
  <2>1. DOMAIN D!Timers = {}
    BY <1>6, TimersOf
  <2> QED BY <1>6, <2>1 DEF Reading
<1> QED BY <1>0, <1>3, <1>4, <1>5, <1>6 DEF Phases, Heading, Reading

\* A fetch that is under way has not been cut short.
LEMMA UnderWay ==
    ASSUME D!TimesAssumption, NEW f, DeadlineGood(f), f.phase # "done"
    PROVE  f.cut = None
  BY DEF DeadlineGood

LEMMA TickInTime ==
    ASSUME D!TimesAssumption, DeadlineInv, D!Tick
    PROVE  DeadlineInv'
<1> DEFINE f == timing
           g == timing'
<1>0. DeadlineGood(f)
  BY DEF DeadlineInv
<1>1. f.phase \notin {"done", "plan"} /\ f.cut = None /\ \A t \in DOMAIN D!Timers : ~D!Due(t)
  BY <1>0, UnderWay DEF D!Tick
<1>2. PICK first, later :
          /\ first = IF f.phase = "resolve" /\ f.redirects = 0 THEN f.waited_first + 1 ELSE f.waited_first
          /\ later = IF f.phase = "resolve" /\ f.redirects > 0 THEN f.waited_later + 1 ELSE f.waited_later
          /\ g = [f EXCEPT !.clock = f.clock + 1, !.waited_first = first, !.waited_later = later]
  <2>1. g = [f EXCEPT !.clock = f.clock + 1,
                      !.waited_first = IF f.phase = "resolve" /\ f.redirects = 0 THEN f.waited_first + 1 ELSE f.waited_first,
                      !.waited_later = IF f.phase = "resolve" /\ f.redirects > 0 THEN f.waited_later + 1 ELSE f.waited_later]
    BY <1>0 DEF D!Tick, DeadlineGood, Timed
  <2> QED BY <2>1
<1>3. /\ f.clock \in Nat /\ f.sent \in Nat /\ f.silent \in Nat /\ f.redirect_deadline \in Nat \cup {None}
      /\ f.body_deadline \in Nat \cup {None} /\ Own(f) \in Nat /\ Idle(f) \in Nat /\ f.cfg.req_timeout \in Nat
      /\ Total(f) \in Nat \cup {None} /\ f.answered \in Nat \cup {None} /\ None \notin Int
      /\ f.waited_first \in Nat /\ f.waited_later \in Nat /\ f.redirects \in Nat /\ OneHop(f) \in Nat
      /\ Begun(f) \in Nat
  BY <1>0, FieldsOf
<1>4. first \in Nat /\ later \in Nat /\ f.clock + 1 \in Nat
  BY <1>2, <1>3
<1>5. Timed(g)
  <2>1. PICK later_clock \in Nat : later_clock = f.clock + 1
    BY <1>4
  <2>2. g = [f EXCEPT !.clock = later_clock, !.waited_first = first, !.waited_later = later]
    BY <1>2, <2>1
  <2> QED BY <1>0, <1>4, <2>2 DEF DeadlineGood, Timed
<1>6. /\ g.cfg = f.cfg /\ g.req = f.req /\ g.init = f.init /\ g.phase = f.phase /\ g.sent = f.sent
      /\ g.redirects = f.redirects /\ g.answers = f.answers /\ g.redirect_deadline = f.redirect_deadline
      /\ g.body_deadline = f.body_deadline /\ g.silent = f.silent /\ g.answered = f.answered
      /\ g.cut = f.cut /\ g.turned = f.turned /\ g.hits = f.hits /\ g.revalidating = f.revalidating
      /\ g.clock = f.clock + 1 /\ g.waited_first = first /\ g.waited_later = later
  BY <1>0, <1>2 DEF DeadlineGood, Timed
<1>7. /\ Own(g) = Own(f) /\ Idle(g) = Idle(f) /\ Total(g) = Total(f) /\ Budget(g) = Budget(f)
      /\ Asking(g) = Asking(f) /\ Again(g) = Again(f) /\ OneHop(g) = OneHop(f)
      /\ f.phase # "resolve" => HeadBound(g) = HeadBound(f) /\ Begun(g) = Begun(f)
  <2>1. f.phase # "resolve" => g.waited_first = f.waited_first /\ g.waited_later = f.waited_later
    BY <1>2, <1>6
  <2> HIDE DEF f, g
  <2> QED BY <1>6, <2>1, SameTimes
<1>8. /\ f.phase = "preflight" => f.clock < f.sent + f.cfg.req_timeout
      /\ f.phase = "wait" =>
            /\ f.clock < f.sent + Own(f)
            /\ f.redirect_deadline # None => f.clock < f.redirect_deadline
      /\ f.phase \in Reading =>
            /\ f.clock < f.silent + Idle(f)
            /\ Total(f) # None => f.clock < f.body_deadline
            /\ ~f.req.streaming => f.clock < f.sent + Own(f)
  BY <1>1, DueWhenLate
<1>9. Turned(f) /\ HeadInTime(f) /\ BodyInTime(f)
  BY <1>0 DEF DeadlineGood
<1> HIDE DEF f, g
<1>10. Turned(g)
  <2>1. CASE f.redirects = 0
    <3>1. later = f.waited_later
      BY <1>2, <2>1
    <3> QED BY <1>6, <1>9, <2>1, <3>1 DEF Turned
  <2>2. CASE f.redirects > 0
    <3>1. first = f.waited_first
      BY <1>2, <1>3, <2>2
    <3> QED BY <1>3, <1>6, <1>7, <1>9, <2>2, <3>1 DEF Turned
  <2> QED BY <1>3, <2>1, <2>2
<1>11. f.phase = "resolve" => Begun(g) = Begun(f) + 1
  <2>1. SUFFICES ASSUME f.phase = "resolve"
                 PROVE  Begun(g) = Begun(f) + 1
    OBVIOUS
  <2>2. PICK rH \in Nat, hA \in Nat : rH = f.redirects * OneHop(f) /\ hA = f.hits * Asking(f)
    BY <1>0, Products DEF DeadlineGood
  <2>3. /\ Begun(f) = IF f.redirect_deadline = None THEN rH + f.waited_first + f.waited_later
                      ELSE f.redirect_deadline + hA + f.waited_later
        /\ Begun(g) = IF f.redirect_deadline = None THEN rH + first + later
                      ELSE f.redirect_deadline + hA + later
    BY <1>6, <1>7, <2>2 DEF Begun
  <2>4. f.redirects = 0 => f.redirect_deadline = None
    BY <1>9 DEF Turned
  <2>5. /\ first + later = f.waited_first + f.waited_later + 1
        /\ f.redirect_deadline # None => later = f.waited_later + 1
    <3>1. CASE f.redirects = 0
      BY <1>2, <1>3, <2>1, <2>4, <3>1
    <3>2. CASE f.redirects > 0
      BY <1>2, <1>3, <2>1, <3>2
    <3> QED BY <1>3, <3>1, <3>2
  <2>6. PICK n \in Nat, m \in Nat : n = first /\ m = later
    BY <1>4
  <2>7. CASE f.redirect_deadline = None
    <3>1. Begun(f) = rH + f.waited_first + f.waited_later /\ Begun(g) = rH + n + m
      BY <2>3, <2>6, <2>7
    <3>2. n + m = f.waited_first + f.waited_later + 1
      BY <2>5, <2>6
    <3> QED BY <1>3, <2>2, <3>1, <3>2
  <2>8. CASE f.redirect_deadline # None
    <3>1. Begun(f) = f.redirect_deadline + hA + f.waited_later /\ Begun(g) = f.redirect_deadline + hA + m
      BY <2>3, <2>6, <2>8
    <3>2. m = f.waited_later + 1 /\ f.redirect_deadline \in Nat
      BY <1>3, <2>5, <2>6, <2>8
    <3> QED BY <1>3, <2>2, <3>1, <3>2
  <2> QED BY <2>7, <2>8
<1>12. HeadInTime(g)
  <2>1. CASE f.phase = "resolve"
    BY <1>3, <1>6, <1>9, <1>11, <2>1 DEF HeadInTime
  <2>2. CASE f.phase = "preflight"
    <3>1. f.clock + 1 <= f.sent + Asking(f)
      BY <1>3, <1>8, <1>9, <2>2 DEF HeadInTime, Asking
    <3> QED BY <1>6, <1>7, <1>9, <2>2, <3>1 DEF HeadInTime
  <2>3. CASE f.phase = "wait"
    <3>1. Sendings(g) = Sendings(f)
      BY <1>6, <1>7 DEF Sendings
    <3>2. f.clock + 1 <= f.sent + Own(f) /\ (f.redirect_deadline # None => f.clock + 1 <= f.redirect_deadline)
      BY <1>3, <1>8, <2>3
    <3> QED BY <1>6, <1>7, <1>9, <2>3, <3>1, <3>2 DEF HeadInTime
  <2> QED BY <1>1, <1>6, <2>1, <2>2, <2>3 DEF HeadInTime, f
<1>13. BodyInTime(g)
  <2>1. SUFFICES ASSUME f.phase \in Reading
                 PROVE  BodyInTime(g)
    BY <1>6 DEF BodyInTime
  <2>2. Total(f) # None => f.body_deadline \in Nat
    BY <1>3, <1>9, <2>1 DEF BodyInTime, D!After
  <2>3. f.phase # "resolve"
    BY <2>1 DEF Reading
  <2> QED BY <1>3, <1>6, <1>7, <1>8, <1>9, <2>1, <2>2, <2>3 DEF BodyInTime
<1> QED BY <1>1, <1>5, <1>6, <1>10, <1>12, <1>13 DEF DeadlineInv, DeadlineGood, f, g

LEMMA ExpireInTime ==
    ASSUME D!TimesAssumption, DeadlineInv, D!Expire
    PROVE  DeadlineInv'
<1> DEFINE f == timing
           g == timing'
<1>0. DeadlineGood(f)
  BY DEF DeadlineInv
<1>1. g = [f EXCEPT !.phase = "done", !.cut = f.phase] /\ \E t \in DOMAIN D!Timers : D!Due(t)
  BY DEF D!Expire
<1>2. Late(f, f.phase)
  BY <1>1, DueWhenLate
<1>3. Timed(g)
  <2>1. "done" \in Phases /\ f.phase \in Phases
    BY <1>0 DEF DeadlineGood, Timed, Phases
  <2> QED BY <1>0, <1>1, <2>1 DEF DeadlineGood, Timed
<1>4. /\ g.cfg = f.cfg /\ g.req = f.req /\ g.clock = f.clock /\ g.sent = f.sent
      /\ g.redirects = f.redirects /\ g.redirect_deadline = f.redirect_deadline
      /\ g.silent = f.silent /\ g.answered = f.answered /\ g.turned = f.turned
      /\ g.waited_first = f.waited_first /\ g.waited_later = f.waited_later
      /\ g.phase = "done" /\ g.cut = f.phase
  BY <1>0, <1>1 DEF DeadlineGood, Timed
<1>5. /\ Own(g) = Own(f) /\ Idle(g) = Idle(f) /\ Total(g) = Total(f) /\ Budget(g) = Budget(f)
      /\ OneHop(g) = OneHop(f)
  BY <1>4, SameTimes
<1> HIDE DEF f, g
<1>6. Late(g, g.cut)
  BY <1>2, <1>4, <1>5 DEF Late, Passed
<1>7. Turned(g) /\ HeadInTime(g) /\ BodyInTime(g)
  BY <1>0, <1>4, <1>5 DEF DeadlineGood, Turned, HeadInTime, BodyInTime, Reading
<1> QED BY <1>3, <1>4, <1>6, <1>7 DEF DeadlineInv, DeadlineGood, f, g

\* A step within a hop changes the phase, and perhaps what is sent.
Within(phase, sent, answers, again) ==
    [timing EXCEPT !.phase = phase, !.sent = sent, !.answers = answers, !.revalidating = again]

LEMMA HopStep ==
    ASSUME D!TimesAssumption, DeadlineInv, timing.phase \in Heading,
           NEW phase \in Heading, NEW sent \in Nat, NEW answers \in 0..MaxAuth, NEW again \in BOOLEAN,
           again => timing.req.caches,
           timing' = Within(phase, sent, answers, again),
           HeadInTime(timing')
    PROVE  DeadlineInv'
<1> DEFINE f == timing
           g == timing'
<1>0. DeadlineGood(f) /\ f.cut = None
  BY UnderWay DEF DeadlineInv, Heading
<1>1. Timed(g)
  <2>1. phase \in Phases
    BY DEF Phases
  <2> QED BY <1>0, <2>1 DEF DeadlineGood, Timed, Within
<1>2. /\ g.cfg = f.cfg /\ g.req = f.req /\ g.redirects = f.redirects
      /\ g.redirect_deadline = f.redirect_deadline /\ g.turned = f.turned /\ g.phase = phase /\ g.cut = f.cut
      /\ g.waited_first = f.waited_first /\ g.waited_later = f.waited_later
  BY <1>0 DEF DeadlineGood, Timed, Within
<1>3. Budget(g) = Budget(f) /\ OneHop(g) = OneHop(f)
  BY <1>2, SameTimes
<1> HIDE DEF f, g
<1>4. Turned(g) /\ BodyInTime(g)
  BY <1>0, <1>2, <1>3 DEF DeadlineGood, Turned, BodyInTime, Heading, Reading
<1> QED BY <1>0, <1>1, <1>2, <1>4 DEF DeadlineInv, DeadlineGood, f, g

\* What such a step leaves alone.
LEMMA HopKeeps ==
    ASSUME D!TimesAssumption, DeadlineInv,
           NEW phase, NEW sent, NEW answers, NEW again,
           timing' = Within(phase, sent, answers, again)
    PROVE  /\ timing'.req = timing.req /\ timing'.clock = timing.clock
           /\ timing'.redirect_deadline = timing.redirect_deadline
           /\ timing'.phase = phase /\ timing'.sent = sent /\ timing'.answers = answers
           /\ timing'.revalidating = again
           /\ Own(timing') = Own(timing) /\ Asking(timing') = Asking(timing)
           /\ Again(timing') = Again(timing) /\ Begun(timing') = Begun(timing)
<1>1. /\ timing'.req = timing.req /\ timing'.cfg = timing.cfg /\ timing'.clock = timing.clock
      /\ timing'.redirect_deadline = timing.redirect_deadline
      /\ timing'.redirects = timing.redirects /\ timing'.hits = timing.hits
      /\ timing'.waited_first = timing.waited_first /\ timing'.waited_later = timing.waited_later
      /\ timing'.phase = phase /\ timing'.sent = sent /\ timing'.answers = answers
      /\ timing'.revalidating = again
  BY DEF DeadlineInv, DeadlineGood, Timed, Within
<1> QED BY <1>1, SameTimes

\* The resolver, if one is asked, has said what it knows.
LEMMA ResolvedInTime ==
    ASSUME D!TimesAssumption, DeadlineInv, D!Resolved
    PROVE  DeadlineInv'
<1> DEFINE f == timing
           g == timing'
<1>0. DeadlineGood(f) /\ f.phase = "resolve"
  BY DEF DeadlineInv, D!Resolved
<1>1. /\ f.clock \in Nat /\ f.sent \in Nat /\ Asking(f) \in Nat /\ Begun(f) \in Nat /\ f.answers \in 0..MaxAuth
      /\ f.cfg.req_timeout \in Nat /\ f.revalidating \in BOOLEAN /\ (f.revalidating => f.req.caches)
  BY <1>0, FieldsOf DEF DeadlineGood, Timed
<1>2. f.clock <= Begun(f) /\ f.answers = 0
  BY <1>0 DEF DeadlineGood, HeadInTime
<1>3. CASE f.req.preflights
  <2>1. g = Within("preflight", f.clock, f.answers, f.revalidating)
    BY <1>0, <1>3 DEF D!Resolved, DeadlineGood, Timed, Within
  <2>2. HeadInTime(g)
    <3>1. f.clock <= f.clock + Asking(f)
      BY <1>1
    <3>2. /\ g.req = f.req /\ g.clock = f.clock /\ g.phase = "preflight" /\ g.sent = f.clock
          /\ g.answers = f.answers /\ Asking(g) = Asking(f) /\ Begun(g) = Begun(f)
      BY <2>1, HopKeeps
    <3> HIDE DEF f, g
    <3> QED BY <1>2, <1>3, <3>1, <3>2 DEF HeadInTime
  <2> QED BY <1>0, <1>1, <2>1, <2>2, HopStep DEF Heading
<1>4. CASE ~f.req.preflights
  <2>1. g = Within("plan", f.sent, f.answers, f.revalidating)
    BY <1>0, <1>4 DEF D!Resolved, DeadlineGood, Timed, Within
  <2>2. HeadInTime(g)
    <3>1. f.clock <= Begun(f) + Asking(f)
      BY <1>1, <1>2
    <3>2. /\ g.clock = f.clock /\ g.phase = "plan"
          /\ g.answers = f.answers /\ Asking(g) = Asking(f) /\ Begun(g) = Begun(f)
      BY <2>1, HopKeeps
    <3> HIDE DEF f, g
    <3> QED BY <1>2, <3>1, <3>2 DEF HeadInTime
  <2> QED BY <1>0, <1>1, <2>1, <2>2, HopStep DEF Heading
<1> QED BY <1>3, <1>4

\* A preflight ends.
LEMMA PreflightDoneInTime ==
    ASSUME D!TimesAssumption, DeadlineInv, D!PreflightDone
    PROVE  DeadlineInv'
<1> DEFINE f == timing
           g == timing'
<1>0. DeadlineGood(f) /\ f.phase = "preflight"
  BY DEF DeadlineInv, D!PreflightDone
<1>1. /\ f.clock \in Nat /\ f.sent \in Nat /\ Asking(f) \in Nat /\ Begun(f) \in Nat /\ f.answers \in 0..MaxAuth
      /\ f.revalidating \in BOOLEAN /\ (f.revalidating => f.req.caches)
  BY <1>0, FieldsOf DEF DeadlineGood, Timed
<1>2. f.clock <= Begun(f) + Asking(f) /\ f.answers = 0
  <2>1. f.sent <= Begun(f) /\ f.clock <= f.sent + Asking(f) /\ f.answers = 0
    BY <1>0 DEF DeadlineGood, HeadInTime
  <2> QED BY <1>1, <2>1
<1>3. g = Within("plan", f.sent, f.answers, f.revalidating)
  BY <1>0 DEF D!PreflightDone, DeadlineGood, Timed, Within
<1>4. HeadInTime(g)
  <2>1. /\ g.clock = f.clock /\ g.phase = "plan"
        /\ g.answers = f.answers /\ Asking(g) = Asking(f) /\ Begun(g) = Begun(f)
    BY <1>3, HopKeeps
  <2> HIDE DEF f, g
  <2> QED BY <1>2, <2>1 DEF HeadInTime
<1> QED BY <1>0, <1>1, <1>3, <1>4, HopStep DEF Heading

\* A hop is sent: first, for a challenge, or because its 304 was contradicted.
LEMMA SendInTime ==
    ASSUME D!TimesAssumption, DeadlineInv, D!Sent \/ D!Answered \/ D!Contradicted
    PROVE  DeadlineInv'
<1> DEFINE f == timing
           g == timing'
<1>0. DeadlineGood(f) /\ f.phase \in {"plan", "wait"}
  BY DEF DeadlineInv, D!Sent, D!Answered, D!Contradicted, D!Responding
<1>1. PICK answers, again :
          /\ g = Within("wait", f.clock, answers, again)
          /\ answers \in 0..MaxAuth /\ again \in BOOLEAN /\ (again => f.req.caches)
          /\ f.phase = "plan" => answers = f.answers
          /\ f.phase = "wait" => answers + (IF again THEN 0 ELSE Again(f)) = Sendings(f) + 1
  <2>1. f.answers \in 0..MaxAuth /\ f.revalidating \in BOOLEAN /\ (f.revalidating => f.req.caches) /\ MaxAuth \in Nat
    BY <1>0, FieldsOf DEF DeadlineGood, Timed
  <2>2. CASE D!Sent
    <3>1. PICK again \in {FALSE, f.req.caches} : g = [f EXCEPT !.phase = "wait", !.sent = f.clock, !.revalidating = again]
      BY <2>2 DEF D!Sent
    <3>2. g = Within("wait", f.clock, f.answers, again)
      BY <1>0, <3>1 DEF DeadlineGood, Timed, Within
    <3>3. f.req.caches \in BOOLEAN
      BY <1>0, Times DEF DeadlineGood
    <3>4. again \in BOOLEAN /\ (again => f.req.caches)
      BY <3>1, <3>3
    <3>5. f.phase = "plan"
      BY <2>2 DEF D!Sent
    <3> QED BY <2>1, <3>2, <3>4, <3>5
  <2>3. CASE D!Answered
    <3>1. g = Within("wait", f.clock, f.answers + 1, f.revalidating)
      BY <1>0, <2>3 DEF D!Answered, D!Responding, DeadlineGood, Timed, Within
    <3>2. f.phase = "wait" /\ f.answers < MaxAuth
      BY <2>3 DEF D!Answered, D!Responding
    <3>3. Again(f) \in {0, 1}
      BY <1>0, FieldsOf
    <3>4. f.answers + 1 \in 0..MaxAuth /\ (f.answers + 1) + (IF f.revalidating THEN 0 ELSE Again(f)) = Sendings(f) + 1
      BY <2>1, <3>2, <3>3 DEF Sendings
    <3> QED BY <2>1, <3>1, <3>2, <3>4
  <2>4. CASE D!Contradicted
    <3>1. g = Within("wait", f.clock, f.answers, FALSE)
      BY <1>0, <2>4 DEF D!Contradicted, D!Responding, DeadlineGood, Timed, Within
    <3>2. f.phase = "wait" /\ f.revalidating
      BY <2>4 DEF D!Contradicted, D!Responding
    <3>3. f.answers + Again(f) = Sendings(f) + 1
      BY <2>1, <3>2 DEF Sendings, Again
    <3> QED BY <2>1, <3>1, <3>2, <3>3
  <2> QED BY <2>2, <2>3, <2>4
<1>2. /\ f.clock \in Nat /\ f.sent \in Nat /\ f.redirect_deadline \in Nat \cup {None} /\ None \notin Int
      /\ Own(f) \in Nat /\ Asking(f) \in Nat /\ Begun(f) \in Nat /\ Again(f) \in {0, 1}
  BY <1>0, FieldsOf
<1>3. /\ g.req = f.req /\ g.clock = f.clock /\ g.redirect_deadline = f.redirect_deadline
      /\ g.phase = "wait" /\ g.sent = f.clock /\ g.answers = answers
      /\ g.revalidating = again /\ Own(g) = Own(f) /\ Asking(g) = Asking(f)
      /\ Again(g) = Again(f) /\ Begun(g) = Begun(f)
  BY <1>1, HopKeeps
<1>4. Sendings(g) = answers + (IF again THEN 0 ELSE Again(f))
  BY <1>3 DEF Sendings
<1>5. PICK x \in Nat : x = Sendings(g) * Own(f)
  <2>1. PICK s \in Nat, a \in Nat : s = Sendings(g) /\ a = Own(f)
    BY <1>1, <1>2, <1>4
  <2>2. s * a \in Nat
    BY MoreIsMore
  <2> QED BY <2>1, <2>2
<1>6. /\ f.redirect_deadline = None => f.clock <= Begun(f) + Asking(f) + x
      /\ f.redirect_deadline # None => f.clock <= Begun(f) + Asking(f)
  <2>1. CASE f.phase = "plan"
    <3>1. f.clock <= Begun(f) + Asking(f)
      BY <1>0, <2>1 DEF DeadlineGood, HeadInTime
    <3> QED BY <1>2, <1>5, <3>1
  <2>2. CASE f.phase = "wait"
    <3>1. PICK y \in Nat : y = Sendings(f) * Own(f) /\ (Sendings(f) + 1) * Own(f) = y + Own(f)
      BY <1>0, HopInTime
    <3>2. x = y + Own(f)
      BY <1>1, <1>4, <1>5, <2>2, <3>1
    <3>3. f.clock <= f.sent + Own(f) /\ (f.redirect_deadline = None => f.sent <= Begun(f) + Asking(f) + y)
      BY <1>0, <2>2, <3>1 DEF DeadlineGood, HeadInTime
    <3>4. f.redirect_deadline # None => f.clock <= Begun(f) + Asking(f)
      BY <1>0, HeadGoesOn DEF Heading
    <3> QED BY <1>2, <3>1, <3>2, <3>3, <3>4
  <2> QED BY <1>0, <2>1, <2>2
<1>7. HeadInTime(g)
  <2>1. f.clock <= f.clock + Own(f) /\ f.clock <= f.clock
    BY <1>2
  <2> HIDE DEF f, g
  <2> QED BY <1>3, <1>5, <1>6, <2>1 DEF HeadInTime
<1> QED BY <1>0, <1>1, <1>2, <1>7, HopStep DEF Heading

\* A redirect is followed, from the network within the budget, or from the cache: the budget
\* begins with the first.
LEMMA RedirectedInTime ==
    ASSUME D!TimesAssumption, DeadlineInv, D!Redirected \/ D!HitRedirect
    PROVE  DeadlineInv'
<1> DEFINE f == timing
           g == timing'
<1>0. DeadlineGood(f) /\ f.phase \in {"plan", "wait"} /\ f.cut = None
  BY UnderWay DEF DeadlineInv, D!Redirected, D!HitRedirect, D!Responding
<1>1. /\ f.clock \in Nat /\ f.sent \in Nat /\ f.redirect_deadline \in Nat \cup {None}
      /\ f.redirects \in Nat /\ f.turned \in Nat \cup {None} /\ Budget(f) \in Nat \cup {None}
      /\ Asking(f) \in Nat /\ OneHop(f) \in Nat /\ None \notin Int /\ MaxAuth \in Nat
      /\ f.hits \in Nat /\ f.waited_first \in Nat /\ f.waited_later \in Nat /\ Begun(f) \in Nat
  BY <1>0, FieldsOf
<1>2. PICK due, since :
          /\ since = IF f.turned = None THEN f.clock ELSE f.turned
          /\ due = IF f.redirect_deadline # None THEN f.redirect_deadline ELSE D!After(f.clock, Budget(f))
  OBVIOUS
<1>3. since = D!unwrap_or(f.turned, f.clock) /\ due = D!redirect_budget(f)
  <2>1. f.init.redirect_timeout = Budget(f)
    BY <1>0, Times DEF DeadlineGood
  <2> QED BY <1>2, <2>1 DEF D!redirect_budget, D!unwrap_or
<1>4. since \in Nat /\ due \in Nat \cup {None}
  BY <1>1, <1>2 DEF D!After
<1>5. PICK hits \in Nat :
          /\ g = [f EXCEPT !.phase = "resolve", !.answers = 0, !.revalidating = FALSE, !.hits = hits,
                           !.redirects = f.redirects + 1, !.redirect_deadline = due, !.turned = since]
          /\ f.phase = "plan" => hits = f.hits + 1
          /\ f.phase = "wait" => hits = f.hits /\ (f.redirect_deadline # None => f.clock <= f.redirect_deadline)
  <2>1. CASE D!Redirected
    <3>1. g = [f EXCEPT !.phase = "resolve", !.answers = 0, !.revalidating = FALSE, !.hits = f.hits,
                        !.redirects = f.redirects + 1, !.redirect_deadline = due, !.turned = since]
      <4>1. g = D!NewHop([f EXCEPT !.redirects = f.redirects + 1, !.redirect_deadline = due, !.turned = since])
        BY <1>0, <1>3, <2>1 DEF D!Redirected, D!follow_redirect, DeadlineGood, Timed
      <4> QED BY <1>0, <4>1 DEF D!NewHop, DeadlineGood, Timed
    <3>2. f.phase = "wait" /\ (f.redirect_deadline # None => f.sent < f.redirect_deadline)
      BY <2>1 DEF D!Redirected, D!Responding
    <3>3. f.redirect_deadline # None => f.clock <= f.redirect_deadline \/ f.clock <= f.sent
      BY <1>0, <3>2 DEF DeadlineGood, HeadInTime
    <3>4. f.redirect_deadline # None => f.clock <= f.redirect_deadline
      BY <1>1, <3>2, <3>3
    <3> QED BY <1>1, <3>1, <3>2, <3>4
  <2>2. CASE D!HitRedirect
    <3>1. g = [f EXCEPT !.phase = "resolve", !.answers = 0, !.revalidating = FALSE, !.hits = f.hits + 1,
                        !.redirects = f.redirects + 1, !.redirect_deadline = due, !.turned = since]
      <4>1. PICK h : h = [f EXCEPT !.hits = f.hits + 1]
        OBVIOUS
      <4>2. /\ h.redirects = f.redirects /\ h.turned = f.turned /\ h.clock = f.clock
            /\ h.redirect_deadline = f.redirect_deadline /\ h.init = f.init
        BY <1>0, <4>1 DEF DeadlineGood, Timed
      <4>3. D!unwrap_or(h.turned, h.clock) = since /\ D!redirect_budget(h) = due
        BY <1>3, <4>2 DEF D!redirect_budget
      <4>4. g = D!follow_redirect(h)
        BY <2>2, <4>1 DEF D!HitRedirect
      <4>5. g = D!NewHop([h EXCEPT !.redirects = f.redirects + 1, !.redirect_deadline = due, !.turned = since])
        <5>1. DOMAIN h = DOMAIN f
          BY <4>1
        <5> QED BY <1>0, <4>1, <4>2, <4>3, <4>4, <5>1 DEF D!follow_redirect, DeadlineGood, Timed
      <4> QED BY <1>0, <4>1, <4>5 DEF D!NewHop, DeadlineGood, Timed
    <3>2. f.phase = "plan"
      BY <2>2 DEF D!HitRedirect
    <3>3. f.hits + 1 \in Nat
      BY <1>1
    <3> QED BY <3>1, <3>2, <3>3
  <2> QED BY <2>1, <2>2
<1>6. Timed(g)
  <2>1. "resolve" \in Phases /\ 0 \in 0..MaxAuth /\ f.redirects + 1 \in Nat
    BY <1>1 DEF Phases, Heading
  <2> QED BY <1>0, <1>4, <1>5, <2>1 DEF DeadlineGood, Timed
<1>7. /\ g.cfg = f.cfg /\ g.req = f.req /\ g.clock = f.clock
      /\ g.redirects = f.redirects + 1 /\ g.redirect_deadline = due /\ g.answers = 0
      /\ g.turned = since /\ g.phase = "resolve" /\ g.cut = f.cut /\ g.hits = hits
      /\ g.waited_first = f.waited_first /\ g.waited_later = f.waited_later
  BY <1>0, <1>5 DEF DeadlineGood, Timed
<1>8. Budget(g) = Budget(f) /\ Asking(g) = Asking(f) /\ OneHop(g) = OneHop(f)
  BY <1>7, SameTimes
<1>9. PICK rH \in Nat, hA \in Nat, kA \in Nat :
          /\ rH = f.redirects * OneHop(f) /\ hA = f.hits * Asking(f) /\ kA = hits * Asking(f)
          /\ (f.redirects + 1) * OneHop(f) = rH + OneHop(f)
          /\ f.redirects = 0 => rH = 0
          /\ f.phase = "plan" => kA = hA + Asking(f)
  <2>1. PICK rH \in Nat, hA \in Nat :
            /\ rH = f.redirects * OneHop(f) /\ hA = f.hits * Asking(f)
            /\ (f.redirects + 1) * OneHop(f) = rH + OneHop(f) /\ (1 + f.hits) * Asking(f) = hA + Asking(f)
            /\ f.redirects = 0 => rH = 0
    BY <1>0, Products DEF DeadlineGood
  <2>3. f.hits + 1 = 1 + f.hits
    BY <1>1
  <2>4. PICK kA \in Nat : kA = hits * Asking(f)
    <3>1. hits <= hits
      BY <1>5
    <3> QED BY <1>1, <1>5, <3>1, MoreIsMore
  <2>5. f.phase = "plan" => kA = hA + Asking(f)
    BY <1>5, <2>1, <2>3, <2>4
  <2> QED BY <2>1, <2>4, <2>5
<1>10. /\ Begun(f) = IF f.redirect_deadline = None THEN rH + f.waited_first + f.waited_later
                     ELSE f.redirect_deadline + hA + f.waited_later
       /\ Begun(g) = IF due = None THEN rH + OneHop(f) + f.waited_first + f.waited_later
                     ELSE due + kA + f.waited_later
  BY <1>7, <1>8, <1>9 DEF Begun
<1>11. /\ f.redirect_deadline = None => f.clock <= Begun(f) + OneHop(f)
       /\ f.redirect_deadline # None => f.redirects > 0 /\ f.clock <= Begun(f) + Asking(f)
  BY <1>0, HeadGoesOn DEF Heading
<1>12. Turned(f) /\ (f.phase = "plan" => f.clock <= Begun(f) + Asking(f))
  BY <1>0 DEF DeadlineGood, HeadInTime
<1> HIDE DEF f, g
<1>13. since <= OneHop(f) + f.waited_first /\ due = D!After(since, Budget(f))
  <2>1. CASE f.redirects = 0
    <3>1. f.turned = None /\ f.redirect_deadline = None /\ f.waited_later = 0
      BY <1>12, <2>1 DEF Turned
    <3>2. f.clock <= OneHop(f) + f.waited_first
      <4>1. rH = 0
        BY <1>9, <2>1
      <4>2. Begun(f) = 0 + f.waited_first + 0
        BY <1>10, <3>1, <4>1
      <4>3. f.clock <= Begun(f) + OneHop(f)
        BY <1>11, <3>1
      <4> QED BY <1>1, <4>2, <4>3
    <3> QED BY <1>2, <3>1, <3>2
  <2>2. CASE f.redirects > 0
    <3>1. /\ f.turned \in Nat /\ f.turned <= OneHop(f) + f.waited_first
          /\ f.redirect_deadline = D!After(f.turned, Budget(f))
      BY <1>12, <2>2 DEF Turned
    <3>2. since = f.turned
      BY <1>1, <1>2, <3>1
    <3>3. f.redirect_deadline = None => Budget(f) = None
      BY <1>1, <3>1 DEF D!After
    <3> QED BY <1>2, <3>1, <3>2, <3>3 DEF D!After
  <2> QED BY <1>1, <2>1, <2>2
<1>14. Turned(g) /\ BodyInTime(g)
  <2>1. f.redirects + 1 > 0 /\ f.redirects + 1 # 0
    BY <1>1
  <2> QED BY <1>4, <1>7, <1>8, <1>13, <2>1 DEF Turned, BodyInTime, Reading
<1>15. f.clock <= Begun(g)
  <2>1. CASE f.redirect_deadline = None
    <3>1. due = IF Budget(f) = None THEN None ELSE f.clock + Budget(f)
      BY <1>2, <2>1 DEF D!After
    <3> QED BY <1>1, <1>9, <1>10, <1>11, <2>1, <3>1
  <2>2. CASE f.redirect_deadline # None
    <3>1. due = f.redirect_deadline
      BY <1>2, <2>2
    <3> QED BY <1>0, <1>1, <1>5, <1>9, <1>10, <1>12, <2>2, <3>1 DEF f
  <2> QED BY <2>1, <2>2
<1> QED BY <1>0, <1>6, <1>7, <1>14, <1>15 DEF DeadlineInv, DeadlineGood, HeadInTime, f, g

\* The headers are there, and with a stored response its body too.
LEMMA HeadersInTime ==
    ASSUME D!TimesAssumption, DeadlineInv, D!Headers \/ D!Stored
    PROVE  DeadlineInv'
<1> DEFINE f == timing
           g == timing'
<1>0. DeadlineGood(f) /\ f.phase \in {"plan", "wait"} /\ f.cut = None
  BY UnderWay DEF DeadlineInv, D!Headers, D!Stored, D!Responding
<1>1. PICK due, phase :
          /\ g = [f EXCEPT !.phase = phase, !.silent = f.clock, !.answered = f.clock, !.body_deadline = due]
          /\ due = D!After(f.clock, f.init.total_body_timeout)
          /\ phase \in {"peek", "listen", "done"}
          /\ phase = "peek" => f.phase = "wait"
          /\ phase = "listen" => f.req.streaming
  <2>1. PICK due : due = D!After(f.clock, f.init.total_body_timeout)
    OBVIOUS
  <2>2. CASE D!Headers
    <3>1. PICK phase : phase = "peek"
      OBVIOUS
    <3>2. /\ g = [f EXCEPT !.phase = phase, !.silent = f.clock, !.answered = f.clock, !.body_deadline = due]
          /\ f.phase = "wait"
      BY <2>1, <2>2, <3>1 DEF D!Headers, D!Answer, D!Responding
    <3>3. /\ phase \in {"peek", "listen", "done"} /\ (phase = "peek" => f.phase = "wait")
          /\ (phase = "listen" => f.req.streaming)
      BY <3>1, <3>2
    <3> HIDE DEF f, g
    <3> QED BY <2>1, <3>2, <3>3
  <2>3. CASE D!Stored
    <3>1. PICK phase : phase = IF f.req.streaming THEN "listen" ELSE "done"
      OBVIOUS
    <3>2. g = [f EXCEPT !.phase = phase, !.silent = f.clock, !.answered = f.clock, !.body_deadline = due]
      BY <2>1, <2>3, <3>1 DEF D!Stored, D!Answer
    <3>3. /\ phase \in {"peek", "listen", "done"} /\ (phase = "peek" => f.phase = "wait")
          /\ (phase = "listen" => f.req.streaming)
      BY <3>1
    <3> HIDE DEF f, g
    <3> QED BY <2>1, <3>2, <3>3
  <2> QED BY <2>2, <2>3
<1>2. /\ f.clock \in Nat /\ Total(f) \in Nat \cup {None} /\ Idle(f) \in Nat /\ None \notin Int
      /\ f.sent \in Nat /\ Own(f) \in Nat
  BY <1>0, FieldsOf
<1>3. due = D!After(f.clock, Total(f)) /\ due \in Nat \cup {None}
  BY <1>0, <1>1, <1>2, Times DEF DeadlineGood, D!After
<1>4. f.clock <= HeadBound(f) /\ (f.phase = "wait" => f.clock <= f.sent + Own(f))
  BY <1>0, HeadInBound DEF DeadlineGood, HeadInTime, Heading
<1>5. Timed(g)
  <2>1. phase \in Phases
    BY <1>1 DEF Phases, Reading
  <2> QED BY <1>0, <1>1, <1>2, <1>3, <2>1 DEF DeadlineGood, Timed
<1>6. /\ g.cfg = f.cfg /\ g.req = f.req /\ g.clock = f.clock /\ g.sent = f.sent
      /\ g.redirects = f.redirects /\ g.redirect_deadline = f.redirect_deadline
      /\ g.turned = f.turned /\ g.phase = phase /\ g.cut = f.cut /\ g.hits = f.hits
      /\ g.waited_first = f.waited_first /\ g.waited_later = f.waited_later
      /\ g.silent = f.clock /\ g.answered = f.clock /\ g.body_deadline = due
  BY <1>0, <1>1 DEF DeadlineGood, Timed
<1>7. /\ Own(g) = Own(f) /\ Idle(g) = Idle(f) /\ Total(g) = Total(f) /\ Budget(g) = Budget(f)
      /\ OneHop(g) = OneHop(f) /\ HeadBound(g) = HeadBound(f)
  BY <1>6, SameTimes
<1>8. Turned(f) /\ f.req.streaming \in BOOLEAN
  BY <1>0, Times DEF DeadlineGood
<1> HIDE DEF f, g
<1>9. Turned(g) /\ HeadInTime(g)
  BY <1>1, <1>6, <1>7, <1>8 DEF Turned, HeadInTime
<1>10. BodyInTime(g)
  <2>1. f.clock <= f.clock + Idle(f) /\ (Total(f) # None => f.clock <= due)
    BY <1>2, <1>3 DEF D!After
  <2>2. CASE phase = "peek"
    BY <1>1, <1>2, <1>3, <1>4, <1>6, <1>7, <2>1, <2>2 DEF BodyInTime
  <2>3. CASE phase = "listen"
    BY <1>1, <1>2, <1>3, <1>4, <1>6, <1>7, <2>1, <2>3 DEF BodyInTime
  <2>4. CASE phase = "done"
    BY <1>6, <2>4 DEF BodyInTime, Reading
  <2> QED BY <1>1, <2>2, <2>3, <2>4
<1> QED BY <1>0, <1>5, <1>6, <1>9, <1>10 DEF DeadlineInv, DeadlineGood, f, g

\* The body goes on, in this phase or the next: what it may still take is no more than before.
LEMMA BodyGoesOn ==
    ASSUME D!TimesAssumption, DeadlineInv, timing.phase \in Reading,
           NEW phase \in Reading, NEW due \in Nat \cup {None},
           due = D!After(timing.answered, Total(timing)),
           phase = "read" => ~timing.req.streaming,
           phase \in {"listen", "stream"} => timing.req.streaming,
           timing' = [timing EXCEPT !.phase = phase, !.silent = timing.clock, !.body_deadline = due]
    PROVE  DeadlineInv'
<1> DEFINE f == timing
           g == timing'
<1>0. DeadlineGood(f) /\ f.cut = None
  BY UnderWay DEF DeadlineInv, Reading
<1>1. Timed(g)
  <2>1. phase \in Phases /\ f.clock \in Nat
    BY <1>0, FieldsOf DEF Phases, Reading
  <2> QED BY <1>0, <2>1 DEF DeadlineGood, Timed
<1>2. /\ g.cfg = f.cfg /\ g.req = f.req /\ g.clock = f.clock /\ g.sent = f.sent
      /\ g.redirects = f.redirects /\ g.redirect_deadline = f.redirect_deadline /\ g.hits = f.hits
      /\ g.waited_first = f.waited_first /\ g.waited_later = f.waited_later
      /\ g.turned = f.turned /\ g.phase = phase /\ g.cut = f.cut
      /\ g.silent = f.clock /\ g.answered = f.answered /\ g.body_deadline = due
  BY <1>0 DEF DeadlineGood, Timed
<1>3. /\ Own(g) = Own(f) /\ Idle(g) = Idle(f) /\ Total(g) = Total(f) /\ Budget(g) = Budget(f)
      /\ OneHop(g) = OneHop(f) /\ HeadBound(g) = HeadBound(f)
  BY <1>2, SameTimes
<1>4. /\ f.answered \in Nat /\ f.answered <= HeadBound(f)
      /\ f.body_deadline = due
      /\ Total(f) # None => f.clock <= f.body_deadline
      /\ ~f.req.streaming => f.clock <= f.sent + Own(f)
  BY <1>0 DEF DeadlineGood, BodyInTime
<1>5. f.clock <= f.clock + Idle(f)
  BY <1>0, FieldsOf
<1>6. BodyInTime(g)
  <2> HIDE DEF f, g
  <2> QED BY <1>2, <1>3, <1>4, <1>5 DEF BodyInTime, f
<1>7. Turned(g) /\ HeadInTime(g)
  <2> HIDE DEF f, g
  <2> QED BY <1>0, <1>2, <1>3 DEF DeadlineGood, Turned, HeadInTime, Reading
<1> QED BY <1>0, <1>1, <1>2, <1>6, <1>7 DEF DeadlineInv, DeadlineGood

\* What the timers of a body that is read hold.
LEMMA BodyDue ==
    ASSUME D!TimesAssumption, DeadlineInv, timing.phase \in Reading
    PROVE  /\ timing.body_deadline \in Nat \cup {None}
           /\ timing.body_deadline = D!After(timing.answered, Total(timing))
           /\ timing.phase = "read" => ~timing.req.streaming
           /\ timing.phase \in {"listen", "stream"} => timing.req.streaming
           /\ D!remaining(timing) = timing.body_deadline
<1>1. /\ timing.body_deadline \in Nat \cup {None} /\ timing.clock \in Nat /\ None \notin Int
      /\ Total(timing) \in Nat \cup {None}
  BY FieldsOf DEF DeadlineInv
<1>2. /\ timing.body_deadline = D!After(timing.answered, Total(timing))
      /\ Total(timing) # None => timing.clock <= timing.body_deadline
      /\ timing.phase = "read" => ~timing.req.streaming
      /\ timing.phase \in {"listen", "stream"} => timing.req.streaming
  BY DEF DeadlineInv, DeadlineGood, BodyInTime
<1>3. Total(timing) = None => timing.body_deadline = None
  BY <1>2 DEF D!After
<1>4. D!remaining(timing) = timing.body_deadline
  BY <1>1, <1>2, <1>3 DEF D!remaining
<1> QED BY <1>1, <1>2, <1>4

\* A chunk, the end of the peek, or the first subscriber.
LEMMA BodyStepInTime ==
    ASSUME D!TimesAssumption, DeadlineInv, D!Chunk \/ D!Peeked \/ D!Subscribed
    PROVE  DeadlineInv'
<1>0. Timed(timing)
  BY DEF DeadlineInv, DeadlineGood
<1>1. timing.phase \in Reading
  BY DEF D!Chunk, D!Peeked, D!Subscribed, Reading
<1> DEFINE Going(phase) ==
             [timing EXCEPT !.phase = phase, !.silent = timing.clock, !.body_deadline = timing.body_deadline]
<1>2. CASE D!Chunk
  <2>1. timing' = Going(timing.phase)
    BY <1>0, <1>2 DEF D!Chunk, Timed
  <2> QED BY <1>1, <2>1, BodyDue, BodyGoesOn
<1>3. CASE D!Peeked
  <2>1. CASE timing.req.streaming
    <3>1. timing' = Going("listen")
      BY <1>0, <1>1, <1>3, <2>1, BodyDue DEF D!Peeked, Timed
    <3> QED BY <1>1, <2>1, <3>1, BodyDue, BodyGoesOn DEF Reading
  <2>2. CASE ~timing.req.streaming
    <3>1. timing' = Going("read")
      BY <1>0, <1>3, <2>2 DEF D!Peeked, Timed
    <3> QED BY <1>1, <2>2, <3>1, BodyDue, BodyGoesOn DEF Reading
  <2> QED BY <2>1, <2>2
<1>4. CASE D!Subscribed
  <2>1. timing' = Going("stream") /\ timing.req.streaming
    BY <1>0, <1>1, <1>4, BodyDue DEF D!Subscribed, Timed
  <2> QED BY <1>1, <2>1, BodyDue, BodyGoesOn DEF Reading
<1> QED BY <1>2, <1>3, <1>4

LEMMA BodyEndInTime ==
    ASSUME D!TimesAssumption, DeadlineInv, D!BodyEnd
    PROVE  DeadlineInv'
<1> DEFINE f == timing
           g == timing'
<1>0. DeadlineGood(f) /\ f.cut = None
  BY UnderWay DEF DeadlineInv, D!BodyEnd
<1>1. g = [f EXCEPT !.phase = "done"]
  BY DEF D!BodyEnd
<1>2. Timed(g)
  <2>1. "done" \in Phases
    BY DEF Phases
  <2> QED BY <1>0, <1>1, <2>1 DEF DeadlineGood, Timed
<1>3. /\ g.cfg = f.cfg /\ g.req = f.req /\ g.redirects = f.redirects
      /\ g.waited_first = f.waited_first /\ g.waited_later = f.waited_later
      /\ g.redirect_deadline = f.redirect_deadline /\ g.turned = f.turned /\ g.phase = "done" /\ g.cut = None
  BY <1>0, <1>1 DEF DeadlineGood, Timed
<1>4. Budget(g) = Budget(f) /\ OneHop(g) = OneHop(f)
  BY <1>3, SameTimes
<1> HIDE DEF f, g
<1>5. Turned(g) /\ HeadInTime(g) /\ BodyInTime(g)
  BY <1>0, <1>3, <1>4 DEF DeadlineGood, Turned, HeadInTime, BodyInTime, Reading
<1> QED BY <1>2, <1>3, <1>5 DEF DeadlineInv, DeadlineGood, f, g

LEMMA DeadlineStart ==
    ASSUME D!TimesAssumption, D!DeadlineInit
    PROVE  DeadlineInv
<1> DEFINE g == timing
<1>1. PICK cfg \in FetcherConfigs, q \in TimedRequests :
          LET init == D!make_request_init(q, cfg)
          IN  timing = D!NewHop([cfg |-> cfg, req |-> q, init |-> init, clock |-> 0, phase |-> "resolve",
                                 sent |-> 0, redirects |-> q.followed, answers |-> 0, revalidating |-> FALSE,
                                 redirect_deadline |-> IF q.followed > 0 THEN D!After(0, init.redirect_timeout) ELSE None,
                                 body_deadline |-> None, silent |-> 0, answered |-> None, cut |-> None,
                                 turned |-> IF q.followed > 0 THEN 0 ELSE None,
                                 hits |-> 0, waited_first |-> 0, waited_later |-> 0])
  BY DEF D!DeadlineInit
<1>2. PICK init, due, since :
          /\ init = D!make_request_init(q, cfg)
          /\ due = IF q.followed > 0 THEN D!After(0, init.redirect_timeout) ELSE None
          /\ since = IF q.followed > 0 THEN 0 ELSE None
  OBVIOUS
<1>3. timing = [cfg |-> cfg, req |-> q, init |-> init, clock |-> 0, phase |-> "resolve",
                sent |-> 0, redirects |-> q.followed, answers |-> 0, revalidating |-> FALSE,
                redirect_deadline |-> due, body_deadline |-> None, silent |-> 0, answered |-> None, cut |-> None,
                turned |-> since, hits |-> 0, waited_first |-> 0, waited_later |-> 0]
  BY <1>1, <1>2 DEF D!NewHop
<1>4. /\ g.cfg = cfg /\ g.req = q /\ g.init = init /\ g.clock = 0 /\ g.phase = "resolve"
      /\ g.redirects = q.followed /\ g.answers = 0 /\ g.redirect_deadline = due /\ g.cut = None
      /\ g.turned = since /\ g.hits = 0 /\ g.waited_first = 0 /\ g.waited_later = 0
      /\ g.revalidating = FALSE
  BY <1>3
<1>5. /\ cfg \in D!FetcherConfig /\ q \in D!Overrides /\ init \in Inits /\ None \notin Int
      /\ MaxAuth \in Nat /\ MaxRedirects \in Nat
  BY <1>2 DEF D!TimesAssumption, Inits
<1>6. /\ q.followed \in Nat
      /\ q.redirect_timeout \in Nat \cup {None} /\ cfg.redirect_timeout \in Nat \cup {None}
  BY <1>5 DEF D!Overrides, D!FetcherConfig, D!Duration
<1>7. init.redirect_timeout = Budget(g) /\ init.redirect_timeout \in Nat \cup {None}
  BY <1>2, <1>4, <1>6 DEF D!make_request_init, Budget, D!Lifted, D!unwrap_or
<1>8. due \in Nat \cup {None} /\ since \in Nat \cup {None}
  BY <1>2, <1>7 DEF D!After
<1>9. Timed(g)
  <2>1. "resolve" \in Phases /\ 0 \in 0..MaxAuth /\ 0 \in Nat /\ FALSE \in BOOLEAN
    BY <1>5 DEF Phases, Heading
  <2>2. g \in [cfg: D!FetcherConfig, req: D!Overrides, init: Inits,
               clock: Nat, phase: Phases, sent: Nat, redirects: Nat, answers: 0..MaxAuth, revalidating: BOOLEAN,
               redirect_deadline: Nat \cup {None}, body_deadline: Nat \cup {None}, silent: Nat,
               answered: Nat \cup {None}, cut: Phases \cup {None}, turned: Nat \cup {None},
               hits: Nat, waited_first: Nat, waited_later: Nat]
    BY <1>3, <1>5, <1>6, <1>8, <2>1
  <2> QED BY <1>2, <1>4, <2>2 DEF Timed
<1>10. OneHop(g) \in Nat /\ Asking(g) \in Nat /\ Budget(g) \in Nat \cup {None}
  BY <1>9, Times
<1> HIDE DEF g
<1>11. Turned(g)
  <2>1. 0 <= OneHop(g) + 0
    BY <1>10
  <2> QED BY <1>2, <1>4, <1>6, <1>7, <2>1 DEF Turned
<1>12. 0 <= Begun(g)
  <2>1. PICK rH \in Nat, hA \in Nat : rH = q.followed * OneHop(g) /\ hA = 0 * Asking(g)
    <3>1. q.followed <= q.followed /\ 0 <= 0
      BY <1>6
    <3> QED BY <1>6, <1>10, <3>1, MoreIsMore
  <2>2. Begun(g) = IF due = None THEN rH + 0 + 0 ELSE due + hA + 0
    BY <1>4, <2>1 DEF Begun
  <2> QED BY <1>8, <2>1, <2>2
<1>13. HeadInTime(g) /\ BodyInTime(g)
  BY <1>4, <1>12 DEF HeadInTime, BodyInTime, Reading
<1> QED BY <1>4, <1>9, <1>11, <1>13 DEF DeadlineInv, DeadlineGood, g

\* The invariant tells of the documentation's limits.
LEMMA InTimeHolds ==
    ASSUME D!TimesAssumption, DeadlineInv
    PROVE  D!TimeoutsHold
<1> DEFINE f == timing
           h == [timing EXCEPT !.clock = @ - 1]
<1>0. DeadlineGood(f) /\ f.phase \in Phases /\ f.clock \in Nat
  BY FieldsOf DEF DeadlineInv
<1>1. D!HeadLimit = HeadBound(f)
  BY DEF D!HeadLimit, D!Preflighting, D!Allowed, HeadBound, OneHop, Asking, Again, Own, Budget
<1>2. /\ h.req = f.req /\ h.cfg = f.cfg /\ h.clock = f.clock - 1 /\ h.sent = f.sent
      /\ h.silent = f.silent /\ h.answered = f.answered /\ h.turned = f.turned
  BY <1>0 DEF DeadlineGood, Timed
<1>3. D!Overdue(f, f.cut) <=> Late(f, f.cut)
  BY DEF D!Overdue, D!Allowed, Late, Passed, Own, Idle, Total, Budget
<1>4. ASSUME f.phase \in Reading
      PROVE  ~D!Overdue(h, f.phase)
  <2> HIDE DEF h
  <2>1. D!Overdue(h, f.phase) <=> \/ Passed(h, f.silent, Idle(f)) \/ Passed(h, f.answered, Total(f))
                                  \/ (~f.req.streaming /\ Passed(h, f.sent, Own(f)))
    BY <1>2, <1>4 DEF D!Overdue, D!Allowed, Passed, Own, Idle, Total, Reading
  <2>2. /\ f.answered \in Nat
        /\ Total(f) # None => f.clock <= f.answered + Total(f)
        /\ f.clock <= f.silent + Idle(f)
        /\ ~f.req.streaming => f.clock <= f.sent + Own(f)
    BY <1>0, <1>4 DEF DeadlineGood, BodyInTime, D!After
  <2>3. /\ Own(f) \in Nat /\ Idle(f) \in Nat /\ Total(f) \in Nat \cup {None} /\ f.sent \in Nat
        /\ f.silent \in Nat /\ None \notin Int
    BY <1>0, FieldsOf
  <2> QED BY <1>0, <1>2, <2>1, <2>2, <2>3 DEF Passed
<1>5. ASSUME f.phase # "done", Total(f) # None
      PROVE  f.clock <= HeadBound(f) + Total(f)
  <2>1. HeadBound(f) \in Nat /\ Total(f) \in Nat
    BY <1>0, <1>5, FieldsOf
  <2>2. CASE f.phase \in Heading
    BY <1>0, <2>1, <2>2, HeadInBound
  <2>3. CASE f.phase \in Reading
    <3>1. f.answered \in Nat /\ f.answered <= HeadBound(f) /\ f.clock <= f.answered + Total(f)
      BY <1>0, <1>5, <2>3 DEF DeadlineGood, BodyInTime, D!After
    <3> QED BY <1>0, <2>1, <3>1
  <2> QED BY <1>0, <1>5, <2>2, <2>3 DEF Phases, Reading
<1>6. f.phase \in Heading => f.clock <= HeadBound(f)
  BY <1>0, HeadInBound
<1>7. f.cut # None => Late(f, f.cut)
  BY <1>0 DEF DeadlineGood
<1> QED BY <1>1, <1>3, <1>4, <1>5, <1>6, <1>7 DEF D!TimeoutsHold, Total, Heading, Reading

\* However the hops, challenges, contradicted 304s, preflights, stored answers, chunks and timers
\* of a fetch come, it is over in time, but for what the embedder's resolver takes, and not before
\* its time: for every configuration of the fetcher and every request's own timeouts, any number
\* of redirects and answers, and a clock of any bound (FetcherConfig, make_request_init,
\* client_deadline, check_ip_literal, await_response, revalidated, perform_streaming).
THEOREM FetchesInTime ==
    ASSUME D!TimesAssumption
    PROVE  D!DeadlineSpec => []TimeoutsHold
<1>1. D!DeadlineInit => DeadlineInv
  BY DeadlineStart
<1>2. DeadlineInv /\ [D!DeadlineNext]_timing => DeadlineInv'
  <2> SUFFICES ASSUME DeadlineInv, [D!DeadlineNext]_timing
               PROVE  DeadlineInv'
    OBVIOUS
  <2>1. CASE UNCHANGED timing
    BY <2>1 DEF DeadlineInv
  <2>2. CASE D!DeadlineNext
    BY <2>2, ExpireInTime, TickInTime, ResolvedInTime, PreflightDoneInTime, SendInTime, RedirectedInTime,
       HeadersInTime, BodyStepInTime, BodyEndInTime DEF D!DeadlineNext
  <2> QED BY <2>1, <2>2
<1>3. DeadlineInv => D!TimeoutsHold
  BY InTimeHolds
<1> QED BY <1>1, <1>2, <1>3, PTL DEF D!DeadlineSpec, TimeoutsHold

-----------------------------------------------------------------------------
(* Lists.                                                                  *)

\* A set of indices has an order.
LEMMA InOrder ==
    ASSUME NEW len \in Nat, NEW keep, keep \subseteq 1..len
    PROVE  \E f \in [1..Cardinality(keep) -> keep] : \A m, n \in DOMAIN f : m < n => f[m] < f[n]
<1> DEFINE Lined(s) == \E f \in [1..Cardinality(s) -> s] : \A m, n \in DOMAIN f : m < n => f[m] < f[n]
           T == {k \in Nat : \A s \in SUBSET (1..k) : Lined(s)}
<1>1. 0 \in T
  <2>1. \A s \in SUBSET (1..0) : s = {}
    OBVIOUS
  <2>2. Cardinality({}) = 0
    BY FS_EmptySet
  <2>3. Lined({})
    <3>1. PICK f : f = [n \in 1..0 |-> n]
      OBVIOUS
    <3>2. f \in [1..Cardinality({}) -> {}] /\ DOMAIN f = {}
      BY <2>2, <3>1
    <3> QED BY <3>2
  <2> QED BY <2>1, <2>3
<1>2. ASSUME NEW k \in T
      PROVE  k + 1 \in T
  <2>1. k \in Nat /\ \A s \in SUBSET (1..k) : Lined(s)
    OBVIOUS
  <2>2. SUFFICES ASSUME NEW s \in SUBSET (1..(k + 1))
                 PROVE  Lined(s)
    BY <2>1
  <2>3. CASE k + 1 \notin s
    <3>1. s \in SUBSET (1..k)
      BY <2>1, <2>3
    <3> QED BY <2>1, <3>1
  <2>4. CASE k + 1 \in s
    <3>1. PICK r : r = s \ {k + 1}
      OBVIOUS
    <3>2. r \in SUBSET (1..k)
      BY <2>1, <3>1
    <3>3. IsFiniteSet(s)
      <4>1. IsFiniteSet(1..(k + 1)) /\ s \in SUBSET (1..(k + 1))
        BY <2>1, FS_Interval
      <4> QED BY <4>1, FS_Subset
    <3>4. PICK c \in Nat : Cardinality(r) = c /\ Cardinality(s) = c + 1
      <4>1. Cardinality(s) \in Nat /\ Cardinality(r) = Cardinality(s) - 1 /\ IsFiniteSet(r)
        BY <2>4, <3>1, <3>3, FS_RemoveElement, FS_CardinalityType
      <4>2. Cardinality(r) \in Nat
        BY <4>1, FS_CardinalityType
      <4> QED BY <4>1, <4>2
    <3>5. PICK f \in [1..c -> r] : \A m, n \in DOMAIN f : m < n => f[m] < f[n]
      BY <2>1, <3>2, <3>4
    <3>6. PICK g : g = [n \in 1..(c + 1) |-> IF n = c + 1 THEN k + 1 ELSE f[n]]
      OBVIOUS
    <3>7. DOMAIN g = 1..(c + 1) /\ g[c + 1] = k + 1 /\ \A n \in 1..c : g[n] = f[n] /\ f[n] \in r /\ f[n] < k + 1
      <4>1. \A x \in r : x < k + 1
        BY <2>1, <3>2
      <4> QED BY <3>5, <3>6, <4>1
    <3>8. g \in [1..(c + 1) -> s]
      BY <2>4, <3>1, <3>6, <3>7
    <3>9. ASSUME NEW m \in DOMAIN g, NEW n \in DOMAIN g, m < n
          PROVE  g[m] < g[n]
      <4>1. m \in 1..c
        BY <3>7, <3>9
      <4>2. CASE n = c + 1
        BY <3>7, <4>1, <4>2
      <4>3. CASE n # c + 1
        <5>1. n \in 1..c
          BY <3>7, <4>3
        <5> QED BY <3>5, <3>7, <3>9, <4>1, <5>1
      <4> QED BY <4>2, <4>3
    <3> QED BY <3>4, <3>8, <3>9
  <2> QED BY <2>3, <2>4
<1>3. len \in T
  <2> HIDE DEF T
  <2> QED BY <1>1, <1>2, Induction
<1> QED BY <1>3

LEMMA OrderedIs ==
    ASSUME NEW len \in Nat, NEW keep, keep \subseteq 1..len
    PROVE  /\ Ordered(keep) \in [1..Cardinality(keep) -> keep]
           /\ \A m, n \in DOMAIN Ordered(keep) : m < n => Ordered(keep)[m] < Ordered(keep)[n]
<1>1. \E f \in [1..Cardinality(keep) -> keep] : \A m, n \in DOMAIN f : m < n => f[m] < f[n]
  BY InOrder
<1> QED BY <1>1 DEF Ordered

Members(l) == {l[n] : n \in DOMAIN l}
IsList(l) == l \in Seq(Members(l))

\* A list of some of the members of another, each of them once.
PartOf(l, es) ==
    /\ IsList(l)
    /\ \E at : /\ \A n \in DOMAIN l : at[n] \in DOMAIN es /\ l[n] = es[at[n]]
               /\ \A m, n \in DOMAIN l : m # n => at[m] # at[n]

LEMMA ListIs ==
    ASSUME NEW l, IsList(l)
    PROVE  Len(l) \in Nat /\ DOMAIN l = 1..Len(l)
<1>1. l \in Seq(Members(l))
  BY DEF IsList
<1> QED BY <1>1

LEMMA MadeList ==
    ASSUME NEW l, NEW E, l \in Seq(E)
    PROVE  IsList(l)
<1>1. Len(l) \in Nat /\ DOMAIN l = 1..Len(l) /\ l = [n \in 1..Len(l) |-> l[n]]
  OBVIOUS
<1>2. \A n \in 1..Len(l) : l[n] \in Members(l)
  BY <1>1 DEF Members
<1> QED BY <1>1, <1>2 DEF IsList

LEMMA RetainedIs ==
    ASSUME NEW E, NEW l \in Seq(E), NEW keep, keep \subseteq DOMAIN l
    PROVE  /\ PartOf(Retained(l, keep), l)
           /\ \A n \in DOMAIN Retained(l, keep) : \E m \in keep : Retained(l, keep)[n] = l[m]
<1>1. PICK order : order = Ordered(keep)
  OBVIOUS
<1>2. PICK r : r = Retained(l, keep) /\ r = [n \in 1..Cardinality(keep) |-> l[order[n]]]
  BY <1>1 DEF Retained
<1>3. Len(l) \in Nat /\ DOMAIN l = 1..Len(l) /\ keep \subseteq 1..Len(l)
  OBVIOUS
<1>4. order \in [1..Cardinality(keep) -> keep] /\ \A m, n \in DOMAIN order : m < n => order[m] < order[n]
  BY <1>1, <1>3, OrderedIs
<1>5. Cardinality(keep) \in Nat
  <2>1. IsFiniteSet(1..Len(l))
    BY <1>3, FS_Interval
  <2>2. IsFiniteSet(keep)
    BY <1>3, <2>1, FS_Subset
  <2> QED BY <2>2, FS_CardinalityType
<1>6. DOMAIN r = 1..Cardinality(keep) /\ DOMAIN order = 1..Cardinality(keep)
  BY <1>2, <1>4
<1>7. \A n \in DOMAIN r : order[n] \in keep /\ r[n] = l[order[n]]
  BY <1>2, <1>4, <1>6
<1>8. \A n \in DOMAIN r : order[n] \in DOMAIN l /\ order[n] \in Nat /\ r[n] \in E
  <2>1. \A n \in DOMAIN r : order[n] \in 1..Len(l)
    BY <1>3, <1>7
  <2> QED BY <1>3, <1>7, <2>1
<1>9. r \in Seq(E)
  <2>1. r = [n \in 1..Cardinality(keep) |-> r[n]]
    BY <1>2, <1>6
  <2> QED BY <1>5, <1>6, <1>8, <2>1
<1>10. \A m, n \in DOMAIN r : m # n => order[m] # order[n]
  <2>1. ASSUME NEW m \in DOMAIN r, NEW n \in DOMAIN r, m # n
        PROVE  order[m] # order[n]
    <3>1. m \in Nat /\ n \in Nat /\ order[m] \in Nat /\ order[n] \in Nat
      BY <1>5, <1>6, <1>8
    <3>2. m < n \/ n < m
      BY <2>1, <3>1
    <3>3. order[m] < order[n] \/ order[n] < order[m]
      BY <1>4, <1>6, <3>2
    <3> QED BY <3>1, <3>3
  <2> QED BY <2>1
<1>11. IsList(r)
  BY <1>9, MadeList
<1> QED BY SMTT(30), <1>2, <1>7, <1>8, <1>10, <1>11 DEF PartOf

\* The instance has the definition of this module.
LEMMA SameRetained ==
    ASSUME NEW l, NEW keep
    PROVE  C!Retained(l, keep) = Retained(l, keep)
<1>1. C!Cardinality(keep) = Cardinality(keep)
  BY Zenon DEF C!Cardinality, Cardinality
<1>2. C!Ordered(keep) = Ordered(keep)
  BY <1>1, Zenon DEF C!Ordered, Ordered
<1> QED BY <1>1, <1>2 DEF C!Retained, Retained

LEMMA RemovedIs ==
    ASSUME NEW E, NEW es \in Seq(E), NEW i \in 1..Len(es)
    PROVE  /\ PartOf(C!RemoveAt(es, i), es)
           /\ \A n \in DOMAIN C!RemoveAt(es, i) : \E m \in DOMAIN es : m # i /\ C!RemoveAt(es, i)[n] = es[m]
<1>1. PICK l : l = C!RemoveAt(es, i)
  OBVIOUS
<1>2. PICK a, b : a = SubSeq(es, 1, i - 1) /\ b = SubSeq(es, i + 1, Len(es))
  OBVIOUS
<1>3. l = a \o b
  BY <1>1, <1>2 DEF C!RemoveAt
<1>4. Len(es) \in Nat /\ DOMAIN es = 1..Len(es)
  OBVIOUS
<1>5. a \in Seq(E) /\ Len(a) = i - 1 /\ \A n \in 1..(i - 1) : a[n] = es[n]
  BY <1>2, <1>4
<1>6. b \in Seq(E) /\ Len(b) = Len(es) - i /\ \A n \in 1..(Len(es) - i) : b[n] = es[i + n]
  <2>1. PICK j, len : j = i + 1 /\ len = Len(es) /\ j \in 1..(len + 1) /\ len \in Nat
    BY <1>4
  <2>2. \A n \in j..len : es[n] \in E
    BY <1>4, <2>1
  <2>3. b \in Seq(E)
    BY <1>2, <2>1, <2>2
  <2>4. Len(b) = len - j + 1 /\ \A n \in 1..(len - j + 1) : b[n] = es[j + n - 1]
    BY <1>2, <2>1
  <2>5. len - j + 1 = Len(es) - i /\ \A n \in 1..(Len(es) - i) : j + n - 1 = i + n
    BY <1>4, <2>1
  <2> QED BY <2>3, <2>4, <2>5
<1>7. l \in Seq(E) /\ Len(l) = Len(es) - 1 /\ DOMAIN l = 1..(Len(es) - 1)
  <2>0. a \in Seq(E) /\ b \in Seq(E)
    BY <1>5, <1>6
  <2>1. l \in Seq(E) /\ Len(l) = Len(a) + Len(b)
    BY <1>3, <2>0
  <2>2. Len(l) = Len(es) - 1
    BY <1>4, <1>5, <1>6, <2>1
  <2> QED BY <2>1, <2>2
<1>8. PICK at : at = [n \in 1..(Len(es) - 1) |-> IF n < i THEN n ELSE n + 1]
  OBVIOUS
<1>9. ASSUME NEW n \in 1..(Len(es) - 1)
      PROVE  at[n] \in DOMAIN es /\ at[n] # i /\ l[n] = es[at[n]]
  <2>1. CASE n < i
    <3>1. at[n] = n /\ n \in 1..(i - 1)
      BY <1>8, <2>1
    <3>2. l[n] = a[n]
      BY <1>3, <1>5, <1>6, <3>1
    <3> QED BY <1>4, <1>5, <3>1, <3>2
  <2>2. CASE ~(n < i)
    <3>1. at[n] = n + 1 /\ n - (i - 1) \in 1..(Len(es) - i)
      BY <1>4, <1>8, <2>2
    <3>2. l[n] = b[n - (i - 1)]
      BY <1>3, <1>4, <1>5, <1>6, <2>2, <3>1
    <3>3. i + (n - (i - 1)) = n + 1
      OBVIOUS
    <3> QED BY <1>4, <1>6, <2>2, <3>1, <3>2, <3>3
  <2> QED BY <2>1, <2>2
<1>10. \A m, n \in 1..(Len(es) - 1) : m # n => at[m] # at[n]
  BY <1>8
<1>11. IsList(l)
  BY <1>7, MadeList
<1>12. PartOf(l, es)
  BY <1>7, <1>9, <1>10, <1>11 DEF PartOf
<1> QED BY <1>1, <1>7, <1>9, <1>12

LEMMA TailPart ==
    ASSUME NEW E, NEW es \in Seq(E), es # <<>>
    PROVE  PartOf(Tail(es), es)
<1>1. PICK l : l = Tail(es)
  OBVIOUS
<1>2. Len(es) \in Nat /\ DOMAIN es = 1..Len(es) /\ Len(es) # 0
  OBVIOUS
<1>3. l \in Seq(E) /\ Len(l) = Len(es) - 1 /\ DOMAIN l = 1..(Len(es) - 1)
  BY <1>1, <1>2
<1>4. \A n \in 1..(Len(es) - 1) : l[n] = es[n + 1]
  BY <1>1, <1>2
<1>5. PICK at : at = [n \in 1..(Len(es) - 1) |-> n + 1]
  OBVIOUS
<1>6. /\ \A n \in DOMAIN l : at[n] \in DOMAIN es /\ l[n] = es[at[n]]
      /\ \A m, n \in DOMAIN l : m # n => at[m] # at[n]
  BY <1>2, <1>3, <1>4, <1>5
<1> QED BY <1>1, <1>3, <1>6, MadeList DEF PartOf

LEMMA PartMembers ==
    ASSUME NEW l, NEW es, PartOf(l, es)
    PROVE  IsList(l) /\ Members(l) \subseteq Members(es)
  BY DEF PartOf, Members

LEMMA AppendedList ==
    ASSUME NEW l, IsList(l), NEW x
    PROVE  /\ IsList(Append(l, x)) /\ Len(Append(l, x)) = Len(l) + 1
           /\ DOMAIN Append(l, x) = 1..(Len(l) + 1) /\ Append(l, x)[Len(l) + 1] = x
           /\ \A n \in DOMAIN l : Append(l, x)[n] = l[n]
           /\ Members(Append(l, x)) = Members(l) \cup {x}
<1>1. l \in Seq(Members(l) \cup {x})
  BY DEF IsList
<1>2. PICK m : m = Append(l, x)
  OBVIOUS
<1>3. Len(l) \in Nat /\ DOMAIN l = 1..Len(l)
  BY <1>1
<1>4. m \in Seq(Members(l) \cup {x}) /\ Len(m) = Len(l) + 1 /\ DOMAIN m = 1..(Len(l) + 1)
  BY <1>1, <1>2, <1>3
<1>5. m[Len(l) + 1] = x /\ \A n \in 1..Len(l) : m[n] = l[n]
  BY <1>1, <1>2, <1>3
<1>6. IsList(m)
  BY <1>4, MadeList
<1>7. Members(m) = Members(l) \cup {x}
  <2>1. ASSUME NEW y \in Members(l) \cup {x}
        PROVE  y \in Members(m)
    BY <1>3, <1>4, <1>5 DEF Members
  <2>2. ASSUME NEW n \in DOMAIN m
        PROVE  m[n] \in Members(l) \cup {x}
    <3>1. n \in 1..Len(l) \/ n = Len(l) + 1
      BY <1>3, <1>4
    <3> QED BY <1>3, <1>5, <3>1 DEF Members
  <2> QED BY <2>1, <2>2 DEF Members
<1> QED BY <1>2, <1>3, <1>4, <1>5, <1>6, <1>7

-----------------------------------------------------------------------------
(* Strict Transport Security.  The invariant bounds every policy by what   *)
(* its host declared last, and says of each chain at work on the store     *)
(* what it may rely on: only the entries that stood since it looked.       *)

StoredOK ==
    /\ DOMAIN policies \subseteq Domains /\ DOMAIN policies \subseteq DOMAIN declared
    /\ \A d \in DOMAIN policies :
          /\ policies[d].expires_at \in Nat /\ declared[d].until \in Nat
          /\ policies[d].expires_at <= declared[d].until
          /\ policies[d].include_subdomains = declared[d].sub

StorePcs == {"idle", "count", "contains", "insert", "remove"} \cup MakingRoom

\* What a chain takes down follows from the word it heard, and a pass begins at the first
\* shard with nothing counted and nothing found.
TakesDown(k) ==
    /\ DOMAIN k = DOMAIN AtRest
    /\ k.pc \in StorePcs /\ k.shard \in 1..Shards /\ k.count \in Nat /\ k.at \in Nat
    /\ k.pc # "idle" => k.host \in Domains
    /\ k.pc \notin {"idle", "remove"} =>
          /\ k.entry.expires_at \in Nat /\ k.word.until \in Nat
          /\ k.entry.expires_at <= k.word.until /\ k.entry.include_subdomains = k.word.sub
    /\ k.pc \notin {"count", "sweep", "recount", "scan"} => k.shard = 1
    /\ k.pc \notin {"count", "recount"} => k.count = 0
    /\ k.pc \notin {"scan", "evict"} => k.best = None

\* What a chain that makes room knows of the store p, having seen s of it.
Knows(k, s, p) ==
    /\ s.met \subseteq Domains /\ DOMAIN p \subseteq s.met /\ s.stood \subseteq DOMAIN p
    /\ k.host \notin s.stood
    /\ k.pc = "sweep" => \A g \in s.stood : ShardOf[g] < k.shard => p[g].expires_at > k.at
    /\ k.pc \in {"recount", "scan", "evict"} => \A g \in s.stood : p[g].expires_at > k.at
    /\ k.pc = "recount" => k.count <= Cardinality({g \in s.met : ShardOf[g] < k.shard})
    /\ k.pc \in {"scan", "evict"} =>
          /\ Cardinality(s.met) >= MaxHosts
          /\ k.best # None =>
                /\ k.best.host \in Domains /\ k.best.expires_at \in Nat
                /\ k.best.host \in s.stood => p[k.best.host].expires_at = k.best.expires_at
          /\ \A g \in s.stood : k.pc = "evict" \/ ShardOf[g] < k.shard =>
                k.best # None /\ k.best.expires_at <= p[g].expires_at

HstsInv ==
    /\ now \in Nat /\ StoredOK
    /\ DOMAIN calls = Chains /\ DOMAIN seen = Chains
    /\ \A c \in Chains : /\ TakesDown(calls[c])
                         /\ calls[c].pc \in MakingRoom => Knows(calls[c], seen[c], policies)

LEMMA MetGrows ==
    ASSUME IsFiniteSet(Domains), NEW s, NEW t, s \subseteq t, t \subseteq Domains
    PROVE  Cardinality(s) \in Nat /\ Cardinality(t) \in Nat /\ Cardinality(s) <= Cardinality(t)
<1>1. IsFiniteSet(t)
  BY FS_Subset
<1> QED BY <1>1, FS_Subset, FS_CardinalityType

\* A write of another chain leaves it what it knows, of the entries that still stand.
LEMMA StillKnows ==
    ASSUME HstsAssumption, NEW k, NEW s, NEW p, NEW q, NEW t, k.count \in Nat, Knows(k, s, p), DOMAIN q \subseteq Domains,
           t = [met |-> s.met \cup DOMAIN q, stood |-> {h \in s.stood : h \in DOMAIN q /\ q[h] = p[h]}]
    PROVE  Knows(k, t, q)
<1>1. /\ t.met = s.met \cup DOMAIN q /\ t.met \subseteq Domains /\ s.met \subseteq t.met
      /\ t.stood \subseteq s.stood /\ t.stood \subseteq DOMAIN q /\ \A h \in t.stood : q[h] = p[h]
  BY DEF Knows
<1>2. ASSUME k.pc = "recount"
      PROVE  k.count <= Cardinality({g \in t.met : ShardOf[g] < k.shard})
  <2>1. PICK old, new : old = {g \in s.met : ShardOf[g] < k.shard} /\ new = {g \in t.met : ShardOf[g] < k.shard}
    OBVIOUS
  <2>2. k.count <= Cardinality(old)
    BY <1>2, <2>1 DEF Knows
  <2>3. Cardinality(old) \in Nat /\ Cardinality(new) \in Nat /\ Cardinality(old) <= Cardinality(new)
    BY <1>1, <2>1, MetGrows DEF HstsAssumption
  <2>4. k.count <= Cardinality(new)
    BY <2>2, <2>3
  <2> QED BY <2>1, <2>4
<1>3. ASSUME k.pc \in {"scan", "evict"}
      PROVE  Cardinality(t.met) >= MaxHosts
  <2>1. Cardinality(s.met) >= MaxHosts
    BY <1>3 DEF Knows
  <2>2. Cardinality(s.met) \in Nat /\ Cardinality(t.met) \in Nat /\ Cardinality(s.met) <= Cardinality(t.met)
    BY <1>1, MetGrows DEF HstsAssumption
  <2> QED BY <2>1, <2>2 DEF HstsAssumption
<1> QED BY <1>1, <1>2, <1>3 DEF Knows

\* A header that follows the grammar has an age that is a number.
LEMMA ParsedIs ==
    ASSUME HstsAssumption, NEW value \in Values, parse_sts(value) # None
    PROVE  parse_sts(value).max_age \in Nat
<1>1. PICK ages : ages = {i \in DOMAIN value : value[i].name = "max-age"}
  OBVIOUS
<1>2. PICK i : i = CHOOSE j \in ages : TRUE
  OBVIOUS
<1>3. /\ value # None /\ ages # {} /\ delta_seconds(value[i].value) # None
      /\ parse_sts(value).max_age = delta_seconds(value[i].value)
  BY <1>1, <1>2 DEF parse_sts
<1>4. i \in DOMAIN value
  BY <1>1, <1>2, <1>3
<1>5. value[i].value \in {Absent, NotDigits} \cup Nat
  <2>1. PICK Named : Named = [name: {"max-age", "includeSubDomains", "unknown"}, value: {Absent, NotDigits} \cup Nat]
    OBVIOUS
  <2>2. value \in Seq(Named)
    BY <1>3, <2>1 DEF HstsAssumption, ValueType
  <2>3. value[i] \in Named
    BY <1>4, <2>2
  <2> QED BY <2>1, <2>3
<1>6. delta_seconds(value[i].value) = value[i].value /\ value[i].value >= 0
  BY <1>3 DEF delta_seconds
<1> QED BY <1>3, <1>5, <1>6 DEF Absent, NotDigits

LEMMA HstsStart ==
    ASSUME HstsAssumption, now \in Nat, HstsInit
    PROVE  HstsInv
<1>1. DOMAIN policies = {} /\ DOMAIN calls = Chains /\ DOMAIN seen = Chains
  BY DEF HstsInit
<1>2. TakesDown(AtRest) /\ AtRest.pc \notin MakingRoom
  BY DEF HstsAssumption, TakesDown, AtRest, StorePcs, MakingRoom
<1>3. \A c \in Chains : calls[c] = AtRest
  BY DEF HstsInit
<1> QED BY <1>1, <1>2, <1>3 DEF HstsInv, StoredOK

-----------------------------------------------------------------------------
(* The steps of a chain: what it becomes, and that the others are as they  *)
(* were.                                                                   *)

\* Chain c becomes k and no entry changes.
LEMMA ReadKeeps ==
    ASSUME HstsAssumption, HstsInv, NEW c \in Chains, NEW k, calls' = [calls EXCEPT ![c] = k],
           now' \in Nat, policies' = policies, declared' = declared,
           DOMAIN seen' = Chains, \A d \in Chains \ {c} : seen'[d] = seen[d],
           TakesDown(k), k.pc \in MakingRoom => Knows(k, seen'[c], policies)
    PROVE  HstsInv'
<1>1. DOMAIN calls' = Chains /\ calls'[c] = k /\ \A d \in Chains \ {c} : calls'[d] = calls[d]
  BY DEF HstsInv
<1>2. StoredOK'
  BY DEF StoredOK, HstsInv
<1>3. ASSUME NEW d \in Chains
      PROVE  TakesDown(calls'[d]) /\ (calls'[d].pc \in MakingRoom => Knows(calls'[d], seen'[d], policies'))
  <2>1. CASE d = c
    BY <1>1, <2>1
  <2>2. CASE d # c
    BY <1>1, <2>2 DEF HstsInv
  <2> QED BY <2>1, <2>2
<1> QED BY <1>1, <1>2, <1>3 DEF HstsInv

\* Chain c becomes k and the store p.
LEMMA WriteKeeps ==
    ASSUME HstsAssumption, HstsInv, NEW c \in Chains, NEW k, NEW p, calls' = [calls EXCEPT ![c] = k],
           now' = now, Writes(p), StoredOK', TakesDown(k),
           k.pc \in MakingRoom => Knows(k, seen'[c], p)
    PROVE  HstsInv'
<1>1. DOMAIN calls' = Chains /\ calls'[c] = k /\ \A d \in Chains \ {c} : calls'[d] = calls[d]
  BY DEF HstsInv
<1>2. policies' = p /\ DOMAIN p \subseteq Domains
  BY DEF Writes, StoredOK
<1>3. ASSUME NEW d \in Chains, d # c, calls[d].pc \in MakingRoom
      PROVE  Knows(calls[d], seen'[d], p)
  <2>1. seen'[d] = [met |-> seen[d].met \cup DOMAIN p,
                    stood |-> {h \in seen[d].stood : h \in DOMAIN p /\ p[h] = policies[h]}]
    BY <1>1, <1>3 DEF Writes
  <2>2. Knows(calls[d], seen[d], policies) /\ calls[d].count \in Nat
    BY <1>3 DEF HstsInv, TakesDown
  <2>3. PICK s, t : s = seen[d] /\ t = seen'[d]
    OBVIOUS
  <2> QED BY <1>2, <2>1, <2>2, <2>3, StillKnows
<1>4. ASSUME NEW d \in Chains
      PROVE  TakesDown(calls'[d]) /\ (calls'[d].pc \in MakingRoom => Knows(calls'[d], seen'[d], policies'))
  <2>1. CASE d = c
    BY <1>1, <1>2, <2>1
  <2>2. CASE d # c
    BY <1>1, <1>2, <1>3, <2>2 DEF HstsInv
  <2> QED BY <2>1, <2>2
<1>5. DOMAIN seen' = Chains
  BY DEF Writes
<1> QED BY <1>1, <1>2, <1>4, <1>5 DEF HstsInv

LEMMA CountKeeps ==
    ASSUME HstsAssumption, HstsInv, NEW c \in Chains, is_full(c)
    PROVE  HstsInv'
<1>1. PICK r, here, count : /\ r = calls[c] /\ here = InShard(r.shard)
                            /\ count = r.count + Cardinality(here)
  OBVIOUS
<1>2. TakesDown(r) /\ (r.pc = "recount" => Knows(r, seen[c], policies)) /\ r.pc \in {"count", "recount"}
  BY <1>1 DEF is_full, HstsInv, MakingRoom
<1>3. PICK pc : pc = (IF count < MaxHosts THEN "insert" ELSE IF r.pc = "count" THEN "contains" ELSE "scan")
  OBVIOUS
<1>4. PICK k : k = [r EXCEPT !.shard = IF r.shard < Shards THEN r.shard + 1 ELSE 1,
                             !.count = IF r.shard < Shards THEN count ELSE 0,
                             !.pc = IF r.shard < Shards THEN r.pc ELSE pc]
  OBVIOUS
<1>5. calls' = [calls EXCEPT ![c] = k]
  BY <1>1, <1>3, <1>4 DEF is_full, HstsInv
<1>6. DOMAIN r = DOMAIN AtRest
  BY <1>2 DEF TakesDown
<1>7. /\ DOMAIN k = DOMAIN AtRest /\ k.host = r.host /\ k.entry = r.entry /\ k.word = r.word /\ k.at = r.at /\ k.best = r.best
      /\ k.shard = (IF r.shard < Shards THEN r.shard + 1 ELSE 1)
      /\ k.count = (IF r.shard < Shards THEN count ELSE 0)
      /\ k.pc = (IF r.shard < Shards THEN r.pc ELSE pc)
  BY <1>4, <1>6 DEF AtRest
<1>8. IsFiniteSet(here) /\ Cardinality(here) \in Nat /\ here \subseteq DOMAIN policies
  <2>1. here \subseteq Domains
    BY <1>1 DEF InShard, HstsInv, StoredOK
  <2> QED BY <1>1, <2>1, FS_Subset, FS_CardinalityType DEF HstsAssumption, InShard
<1>9. count \in Nat
  BY <1>1, <1>2, <1>8 DEF TakesDown
<1>10. TakesDown(k)
  BY <1>2, <1>3, <1>7, <1>9 DEF TakesDown, StorePcs, MakingRoom, HstsAssumption
<1>11. ASSUME r.pc = "recount"
       PROVE  \A n \in Nat : n = r.shard + 1 => count <= Cardinality({g \in seen[c].met : ShardOf[g] < n})
  <2>1. PICK old, new : old = {g \in seen[c].met : ShardOf[g] < r.shard} /\ new = {g \in seen[c].met : ShardOf[g] < r.shard + 1}
    OBVIOUS
  <2>2. r.count <= Cardinality(old) /\ DOMAIN policies \subseteq seen[c].met /\ seen[c].met \subseteq Domains
    BY <1>2, <1>11, <2>1 DEF Knows
  <2>3. r.shard \in Nat /\ r.count \in Nat /\ \A g \in Domains : ShardOf[g] \in Nat
    BY <1>2 DEF TakesDown, HstsAssumption
  <2>4. old \cup here \subseteq new /\ old \cap here = {} /\ old \subseteq Domains /\ new \subseteq Domains
    BY <1>1, <1>8, <2>1, <2>2, <2>3 DEF InShard
  <2>5. /\ IsFiniteSet(old) /\ Cardinality(old) \in Nat
        /\ Cardinality(old \cup here) = Cardinality(old) + Cardinality(here) - Cardinality(old \cap here)
    BY <1>8, <2>4, FS_Subset, FS_CardinalityType, FS_Union DEF HstsAssumption
  <2>6. Cardinality(old \cap here) = 0
    BY <2>4, FS_EmptySet
  <2>7. Cardinality(old \cup here) <= Cardinality(new) /\ Cardinality(new) \in Nat
    BY <2>4, MetGrows DEF HstsAssumption
  <2>8. count <= Cardinality(new)
    BY <1>1, <1>8, <2>2, <2>3, <2>5, <2>6, <2>7
  <2> QED BY <2>1, <2>8
<1>12. k.pc \in MakingRoom => Knows(k, seen[c], policies)
  <2>1. SUFFICES ASSUME k.pc \in MakingRoom
                 PROVE  Knows(k, seen[c], policies)
    OBVIOUS
  <2>2. r.pc = "recount"
    BY <1>2, <1>3, <1>7, <2>1 DEF MakingRoom
  <2>3. CASE r.shard < Shards
    <3>1. k.shard \in Nat /\ k.shard = r.shard + 1 /\ k.count = count /\ k.pc = "recount"
      BY <1>2, <1>7, <2>2, <2>3 DEF TakesDown
    <3>2. k.count <= Cardinality({g \in seen[c].met : ShardOf[g] < k.shard})
      BY <1>11, <2>2, <3>1
    <3> QED BY <1>2, <1>7, <2>2, <3>1, <3>2 DEF Knows
  <2>4. CASE ~(r.shard < Shards)
    <3>1. k.pc = "scan" /\ k.shard = 1 /\ count >= MaxHosts
      BY <1>3, <1>7, <1>9, <2>1, <2>2, <2>4 DEF MakingRoom, HstsAssumption
    <3>2. r.shard = Shards
      BY <1>2, <2>4 DEF TakesDown, HstsAssumption
    <3>3. seen[c].met = {g \in seen[c].met : ShardOf[g] < Shards + 1} /\ \A g \in Domains : ~(ShardOf[g] < 1)
      BY <1>2, <2>2 DEF Knows, HstsAssumption
    <3>4. Shards + 1 \in Nat
      BY DEF HstsAssumption
    <3>5. PICK n : n = Cardinality(seen[c].met)
      OBVIOUS
    <3>6. count <= n
      <4>1. PICK all_met : all_met = {g \in seen[c].met : ShardOf[g] < Shards + 1}
        OBVIOUS
      <4>2. count <= Cardinality(all_met)
        BY <1>11, <2>2, <3>2, <3>4, <4>1
      <4> QED BY <3>3, <3>5, <4>1, <4>2
    <3>7. n \in Nat
      BY <1>2, <2>2, <3>5, MetGrows DEF Knows, HstsAssumption
    <3>8. n >= MaxHosts
      BY <1>9, <3>1, <3>6, <3>7 DEF HstsAssumption
    <3>9. k.best = None
      BY <1>2, <1>7, <2>2 DEF TakesDown
    <3> QED BY <1>2, <1>7, <2>2, <3>1, <3>3, <3>5, <3>8, <3>9 DEF Knows
  <2> QED BY <2>3, <2>4
<1>13. now' \in Nat /\ policies' = policies /\ declared' = declared /\ seen' = seen
  BY DEF is_full, HstsInv
<1> QED BY <1>5, <1>10, <1>12, <1>13, ReadKeeps DEF HstsInv

LEMMA LookKeeps ==
    ASSUME HstsAssumption, HstsInv, NEW c \in Chains, contains_key(c)
    PROVE  HstsInv'
<1>1. PICK r, pc : r = calls[c] /\ pc = (IF r.host \in DOMAIN policies THEN "insert" ELSE "clock")
  OBVIOUS
<1>2. TakesDown(r) /\ r.pc = "contains"
  BY <1>1 DEF contains_key, Looked, HstsInv
<1>3. PICK k : k = [r EXCEPT !.pc = pc]
  OBVIOUS
<1>4. calls' = [calls EXCEPT ![c] = k]
  BY <1>1, <1>3 DEF contains_key, Looked, HstsInv
<1>5. DOMAIN r = DOMAIN AtRest
  BY <1>2 DEF TakesDown
<1>6. /\ DOMAIN k = DOMAIN AtRest /\ k.host = r.host /\ k.entry = r.entry /\ k.word = r.word /\ k.at = r.at /\ k.best = r.best
      /\ k.shard = r.shard /\ k.count = r.count /\ k.pc = pc
  BY <1>3, <1>5 DEF AtRest
<1>7. TakesDown(k)
  BY <1>1, <1>2, <1>6 DEF TakesDown, StorePcs, MakingRoom
<1>8. /\ seen' = [seen EXCEPT ![c] = IF pc = "insert" THEN Nothing
                                    ELSE [met |-> DOMAIN policies, stood |-> DOMAIN policies]]
      /\ now' = now /\ policies' = policies /\ declared' = declared
  BY <1>1 DEF contains_key, Looked
<1>9. ASSUME k.pc \in MakingRoom
      PROVE  Knows(k, seen'[c], policies)
  <2>1. k.pc = "clock" /\ r.host \notin DOMAIN policies
    BY <1>1, <1>6, <1>9 DEF MakingRoom
  <2>2. seen'[c] = [met |-> DOMAIN policies, stood |-> DOMAIN policies]
    BY <1>6, <1>8, <2>1 DEF HstsInv
  <2>3. DOMAIN policies \subseteq Domains
    BY DEF HstsInv, StoredOK
  <2> QED BY <1>6, <2>1, <2>2, <2>3 DEF Knows
<1> QED BY <1>4, <1>7, <1>8, <1>9, ReadKeeps DEF HstsInv

LEMMA ClockKeeps ==
    ASSUME HstsAssumption, HstsInv, NEW c \in Chains, read_clock(c)
    PROVE  HstsInv'
<1>1. PICK r : r = calls[c]
  OBVIOUS
<1>2. TakesDown(r) /\ r.pc = "clock" /\ Knows(r, seen[c], policies)
  BY <1>1 DEF read_clock, HstsInv, MakingRoom
<1>3. PICK k : k = [r EXCEPT !.pc = "sweep", !.at = now]
  OBVIOUS
<1>4. calls' = [calls EXCEPT ![c] = k]
  BY <1>1, <1>3 DEF read_clock, HstsInv
<1>5. DOMAIN r = DOMAIN AtRest
  BY <1>2 DEF TakesDown
<1>6. /\ DOMAIN k = DOMAIN AtRest /\ k.host = r.host /\ k.entry = r.entry /\ k.word = r.word /\ k.at = now /\ k.best = r.best
      /\ k.shard = r.shard /\ k.count = r.count /\ k.pc = "sweep"
  BY <1>3, <1>5 DEF AtRest
<1>7. TakesDown(k)
  BY <1>2, <1>6 DEF TakesDown, StorePcs, MakingRoom, HstsInv
<1>8. Knows(k, seen[c], policies)
  <2>1. k.shard = 1 /\ \A g \in Domains : ~(ShardOf[g] < 1)
    BY <1>2, <1>6 DEF TakesDown, HstsAssumption
  <2> QED BY <1>2, <1>6, <2>1 DEF Knows
<1>9. now' \in Nat /\ policies' = policies /\ declared' = declared /\ seen' = seen
  BY DEF read_clock, HstsInv
<1> QED BY <1>4, <1>7, <1>8, <1>9, ReadKeeps DEF HstsInv

LEMMA ScanKeeps ==
    ASSUME HstsAssumption, HstsInv, NEW c \in Chains, min_by_key(c)
    PROVE  HstsInv'
<1>1. PICK r, here : r = calls[c] /\ here = InShard(r.shard)
  OBVIOUS
<1>2. TakesDown(r) /\ r.pc = "scan" /\ Knows(r, seen[c], policies)
  BY <1>1 DEF min_by_key, HstsInv, MakingRoom
<1>3. PICK soonest, better :
         /\ soonest = {h \in here : \A g \in here : policies[h].expires_at <= policies[g].expires_at}
         /\ better = {h \in soonest : r.best = None \/ policies[h].expires_at < r.best.expires_at}
  OBVIOUS
<1>4. PICK pick : /\ pick \in IF better = {} THEN {r.best}
                              ELSE {[host |-> h, expires_at |-> policies[h].expires_at] : h \in better}
                  /\ calls' = [calls EXCEPT ![c].shard = IF @ < Shards THEN @ + 1 ELSE 1,
                                            ![c].pc = IF r.shard < Shards THEN @ ELSE "evict",
                                            ![c].best = pick]
  BY <1>1, <1>3 DEF min_by_key
<1>5. PICK k : k = [r EXCEPT !.shard = IF r.shard < Shards THEN r.shard + 1 ELSE 1,
                             !.pc = IF r.shard < Shards THEN r.pc ELSE "evict", !.best = pick]
  OBVIOUS
<1>6. calls' = [calls EXCEPT ![c] = k]
  BY <1>1, <1>4, <1>5 DEF HstsInv
<1>7. DOMAIN r = DOMAIN AtRest
  BY <1>2 DEF TakesDown
<1>8. /\ DOMAIN k = DOMAIN AtRest /\ k.host = r.host /\ k.entry = r.entry /\ k.word = r.word /\ k.at = r.at /\ k.best = pick
      /\ k.shard = (IF r.shard < Shards THEN r.shard + 1 ELSE 1) /\ k.count = r.count
      /\ k.pc = (IF r.shard < Shards THEN "scan" ELSE "evict")
  BY <1>2, <1>5, <1>7 DEF AtRest
<1>9. TakesDown(k)
  BY <1>2, <1>8 DEF TakesDown, StorePcs, MakingRoom, HstsAssumption
<1>10. /\ r.shard \in Nat /\ \A g \in Domains : ShardOf[g] \in 1..Shards
       /\ DOMAIN policies \subseteq Domains /\ \A g \in DOMAIN policies : policies[g].expires_at \in Nat
  BY <1>2 DEF TakesDown, HstsAssumption, HstsInv, StoredOK
<1>11. IsFiniteSet(here) /\ here = {g \in DOMAIN policies : ShardOf[g] = r.shard}
  BY <1>1, <1>10, FS_Subset DEF InShard, HstsAssumption
<1>12. ASSUME NEW g \in here
       PROVE  \E h \in soonest : policies[h].expires_at <= policies[g].expires_at
  <2>1. PICK times : times = {policies[h].expires_at : h \in here}
    OBVIOUS
  <2>2. times \subseteq Nat /\ policies[g].expires_at \in times
    BY <1>10, <1>11, <1>12, <2>1
  <2>3. PICK least \in times : \A n \in times : least <= n
    BY <2>2, Least
  <2>4. PICK h \in here : policies[h].expires_at = least
    BY <2>1, <2>3
  <2>5. h \in soonest
    BY <1>3, <2>1, <2>3, <2>4
  <2> QED BY <2>1, <2>2, <2>3, <2>4, <2>5
<1>13. ASSUME pick # None
       PROVE  /\ pick.host \in Domains /\ pick.expires_at \in Nat
              /\ pick.host \in seen[c].stood => policies[pick.host].expires_at = pick.expires_at
  <2>1. CASE better = {}
    BY <1>2, <1>4, <1>13, <2>1 DEF Knows
  <2>2. CASE better # {}
    <3>1. PICK h \in better : pick = [host |-> h, expires_at |-> policies[h].expires_at]
      BY <1>4, <2>2
    <3> QED BY <1>3, <1>10, <1>11, <3>1
  <2> QED BY <2>1, <2>2
<1>14. ASSUME NEW g \in DOMAIN policies, \/ ShardOf[g] = r.shard
                                         \/ g \in seen[c].stood /\ ShardOf[g] < r.shard
       PROVE  pick # None /\ pick.expires_at <= policies[g].expires_at
  <2>1. CASE better = {}
    <3>1. pick = r.best
      BY <1>4, <2>1
    <3>2. CASE ShardOf[g] = r.shard
      <4>1. PICK h \in soonest : policies[h].expires_at <= policies[g].expires_at
        BY <1>11, <1>12, <3>2
      <4>2. r.best # None /\ ~(policies[h].expires_at < r.best.expires_at)
        BY <1>3, <2>1, <4>1
      <4>3. r.best.expires_at \in Nat /\ h \in DOMAIN policies
        BY <1>2, <1>3, <1>11, <4>1, <4>2 DEF Knows
      <4> QED BY <1>10, <3>1, <4>1, <4>2, <4>3
    <3>3. CASE ShardOf[g] # r.shard
      BY <1>2, <1>14, <3>1, <3>3 DEF Knows
    <3> QED BY <3>2, <3>3
  <2>2. CASE better # {}
    <3>1. PICK h \in better : pick = [host |-> h, expires_at |-> policies[h].expires_at]
      BY <1>4, <2>2
    <3>2. pick.expires_at = policies[h].expires_at /\ h \in here /\ h \in DOMAIN policies /\ policies[h].expires_at \in Nat
      BY <1>3, <1>10, <1>11, <3>1
    <3>3. pick # None
      <4>1. pick \in [host: Domains, expires_at: Nat]
        BY <1>10, <3>1, <3>2
      <4> QED BY <4>1 DEF HstsAssumption
    <3>4. CASE ShardOf[g] = r.shard
      BY <1>3, <1>11, <3>1, <3>2, <3>3, <3>4
    <3>5. CASE ShardOf[g] # r.shard
      <4>1. r.best # None /\ r.best.expires_at <= policies[g].expires_at /\ r.best.expires_at \in Nat
        BY <1>2, <1>14, <3>5 DEF Knows
      <4>2. policies[h].expires_at < r.best.expires_at
        BY <1>3, <3>1, <4>1
      <4> QED BY <1>10, <3>2, <3>3, <4>1, <4>2
    <3> QED BY <3>4, <3>5
  <2> QED BY <2>1, <2>2
<1>15. Knows(k, seen[c], policies)
  <2>1. ASSUME NEW g \in seen[c].stood, k.pc = "evict" \/ ShardOf[g] < k.shard
        PROVE  k.best # None /\ k.best.expires_at <= policies[g].expires_at
    <3>1. g \in DOMAIN policies /\ g \in Domains
      BY <1>2, <1>10 DEF Knows
    <3>2. ShardOf[g] <= r.shard
      BY <1>2, <1>8, <1>10, <2>1, <3>1 DEF TakesDown, HstsAssumption
    <3> QED BY <1>8, <1>10, <1>14, <3>1, <3>2
  <2> QED BY <1>2, <1>8, <1>13, <2>1 DEF Knows
<1>16. now' \in Nat /\ policies' = policies /\ declared' = declared /\ seen' = seen
  BY DEF min_by_key, HstsInv
<1> QED BY <1>6, <1>9, <1>15, <1>16, ReadKeeps DEF HstsInv

LEMMA SweepKeeps ==
    ASSUME HstsAssumption, HstsInv, NEW c \in Chains, retain(c)
    PROVE  HstsInv'
<1>1. PICK r, gone, p : /\ r = calls[c] /\ gone = {h \in InShard(r.shard) : policies[h].expires_at <= r.at}
                        /\ p = Without(policies, gone)
  OBVIOUS
<1>2. TakesDown(r) /\ r.pc = "sweep" /\ Knows(r, seen[c], policies)
  BY <1>1 DEF retain, HstsInv, MakingRoom
<1>3. PICK k : k = [r EXCEPT !.shard = IF r.shard < Shards THEN r.shard + 1 ELSE 1,
                             !.pc = IF r.shard < Shards THEN r.pc ELSE "recount"]
  OBVIOUS
<1>4. calls' = [calls EXCEPT ![c] = k]
  BY <1>1, <1>3 DEF retain, NextShard, HstsInv
<1>5. DOMAIN r = DOMAIN AtRest
  BY <1>2 DEF TakesDown
<1>6. /\ DOMAIN k = DOMAIN AtRest /\ k.host = r.host /\ k.entry = r.entry /\ k.word = r.word /\ k.at = r.at /\ k.best = r.best
      /\ k.shard = (IF r.shard < Shards THEN r.shard + 1 ELSE 1) /\ k.count = r.count
      /\ k.pc = (IF r.shard < Shards THEN "sweep" ELSE "recount")
  BY <1>2, <1>3, <1>5 DEF AtRest
<1>7. TakesDown(k)
  BY <1>2, <1>6 DEF TakesDown, StorePcs, MakingRoom, HstsAssumption
<1>8. Writes(p) /\ now' = now /\ declared' = declared
  BY <1>1 DEF retain
<1>9. DOMAIN p = DOMAIN policies \ gone /\ \A h \in DOMAIN p : p[h] = policies[h]
  BY <1>1 DEF Without, Restrict
<1>10. StoredOK'
  BY <1>8, <1>9 DEF HstsInv, StoredOK, Writes
<1>11. PICK s, t : s = seen[c] /\ t = seen'[c]
  OBVIOUS
<1>12. t = [met |-> s.met \cup DOMAIN p, stood |-> {h \in s.stood : h \in DOMAIN p /\ p[h] = policies[h]}]
  <2>1. calls'[c] = k /\ k.pc \in MakingRoom
    BY <1>4, <1>6 DEF HstsInv, MakingRoom
  <2> QED BY <1>8, <1>11, <2>1 DEF Writes
<1>13. Knows(r, t, p)
  <2>1. DOMAIN p \subseteq Domains /\ r.count \in Nat
    BY <1>2, <1>9 DEF HstsInv, StoredOK, TakesDown
  <2> QED BY <1>2, <1>11, <1>12, <2>1, StillKnows
<1>14. Knows(k, t, p)
  <2>1. ASSUME NEW g \in t.stood, ShardOf[g] <= r.shard
        PROVE  p[g].expires_at > r.at
    <3>1. g \in DOMAIN p /\ g \in DOMAIN policies /\ g \notin gone /\ p[g] = policies[g]
      BY <1>9, <1>13 DEF Knows
    <3>2. ShardOf[g] \in Nat /\ r.shard \in Nat /\ r.at \in Nat /\ policies[g].expires_at \in Nat
      BY <1>2, <3>1 DEF TakesDown, HstsInv, StoredOK, HstsAssumption
    <3>3. CASE ShardOf[g] = r.shard
      BY <1>1, <3>1, <3>2, <3>3 DEF InShard
    <3>4. CASE ShardOf[g] < r.shard
      BY <1>2, <1>13, <3>4 DEF Knows
    <3> QED BY <2>1, <3>2, <3>3, <3>4
  <2>2. \A g \in t.stood : ShardOf[g] \in 1..Shards
    BY <1>9, <1>13 DEF Knows, HstsInv, StoredOK, HstsAssumption
  <2>3. CASE r.shard < Shards
    <3>1. k.pc = "sweep" /\ k.shard = r.shard + 1 /\ r.shard \in Nat
      BY <1>2, <1>6, <2>3 DEF TakesDown
    <3>2. \A g \in t.stood : ShardOf[g] < k.shard => p[g].expires_at > k.at
      BY <1>6, <2>1, <2>2, <3>1
    <3> QED BY <1>6, <1>13, <3>1, <3>2 DEF Knows
  <2>4. CASE ~(r.shard < Shards)
    <3>1. k.pc = "recount" /\ k.shard = 1 /\ k.count = 0 /\ r.shard = Shards
      BY <1>2, <1>6, <2>4 DEF TakesDown, HstsAssumption
    <3>2. \A g \in t.stood : p[g].expires_at > k.at
      BY <1>6, <2>1, <2>2, <3>1 DEF HstsAssumption
    <3>3. k.count <= Cardinality({g \in t.met : ShardOf[g] < k.shard})
      <4>1. PICK under : under = {g \in t.met : ShardOf[g] < k.shard}
        OBVIOUS
      <4>2. under \subseteq Domains
        BY <1>13, <4>1 DEF Knows
      <4>3. Cardinality(under) \in Nat
        BY <4>2, MetGrows DEF HstsAssumption
      <4>4. k.count <= Cardinality(under)
        BY <3>1, <4>3
      <4> QED BY <4>1, <4>4
    <3> QED BY <1>6, <1>13, <3>1, <3>2, <3>3 DEF Knows
  <2> QED BY <2>3, <2>4
<1> QED BY <1>4, <1>7, <1>8, <1>10, <1>11, <1>14, WriteKeeps

LEMMA EvictKeeps ==
    ASSUME HstsAssumption, HstsInv, NEW c \in Chains, evict(c)
    PROVE  HstsInv'
<1>1. PICK r, p : r = calls[c] /\ p = (IF r.best = None THEN policies ELSE Without(policies, {r.best.host}))
  OBVIOUS
<1>2. TakesDown(r) /\ r.pc = "evict"
  BY <1>1 DEF evict, HstsInv
<1>3. PICK k : k = [r EXCEPT !.pc = "insert", !.at = 0, !.best = None]
  OBVIOUS
<1>4. calls' = [calls EXCEPT ![c] = k]
  BY <1>1, <1>3 DEF evict, HstsInv
<1>5. DOMAIN r = DOMAIN AtRest
  BY <1>2 DEF TakesDown
<1>6. /\ DOMAIN k = DOMAIN AtRest /\ k.host = r.host /\ k.entry = r.entry /\ k.word = r.word /\ k.at = 0 /\ k.best = None
      /\ k.shard = r.shard /\ k.count = r.count /\ k.pc = "insert"
  BY <1>3, <1>5 DEF AtRest
<1>7. TakesDown(k) /\ k.pc \notin MakingRoom
  BY <1>2, <1>6 DEF TakesDown, StorePcs, MakingRoom
<1>8. Writes(p) /\ now' = now /\ declared' = declared
  BY <1>1 DEF evict
<1>9. DOMAIN p \subseteq DOMAIN policies /\ \A h \in DOMAIN p : p[h] = policies[h]
  BY <1>1 DEF Without, Restrict
<1>10. StoredOK'
  BY <1>8, <1>9 DEF HstsInv, StoredOK, Writes
<1> QED BY <1>4, <1>7, <1>8, <1>10, WriteKeeps

\* One more declared, or the same as ever.
LEMMA DeclaredIs ==
    ASSUME NEW host, NEW entry, declared' = With(declared, host, entry)
    PROVE  /\ DOMAIN declared' = DOMAIN declared \cup {host} /\ declared'[host] = entry
           /\ \A d \in DOMAIN declared : d # host => declared'[d] = declared[d]
  BY DEF With

LEMMA AtRestIs == ASSUME HstsAssumption PROVE TakesDown(AtRest) /\ AtRest.pc \notin MakingRoom
  BY DEF HstsAssumption, TakesDown, AtRest, StorePcs, MakingRoom

LEMMA InsertKeeps ==
    ASSUME HstsAssumption, HstsInv, NEW c \in Chains, insert(c)
    PROVE  HstsInv'
<1>1. PICK r, p : r = calls[c] /\ p = With(policies, r.host, r.entry)
  OBVIOUS
<1>2. TakesDown(r) /\ r.pc = "insert"
  BY <1>1 DEF insert, HstsInv
<1>3. calls' = [calls EXCEPT ![c] = AtRest] /\ Writes(p) /\ now' = now /\ declared' = With(declared, r.host, r.word)
  BY <1>1 DEF insert
<1>4. /\ DOMAIN p = DOMAIN policies \cup {r.host} /\ p[r.host] = r.entry
      /\ \A d \in DOMAIN policies : d # r.host => p[d] = policies[d]
  BY <1>1 DEF With
<1>5. /\ DOMAIN declared' = DOMAIN declared \cup {r.host} /\ declared'[r.host] = r.word
      /\ \A d \in DOMAIN declared : d # r.host => declared'[d] = declared[d]
  BY <1>3, DeclaredIs
<1>6. StoredOK'
  <2>1. policies' = p
    BY <1>3 DEF Writes
  <2> QED BY <1>2, <1>4, <1>5, <2>1 DEF HstsInv, StoredOK, TakesDown
<1> QED BY <1>3, <1>6, AtRestIs, WriteKeeps

LEMMA RemoveKeeps ==
    ASSUME HstsAssumption, HstsInv, NEW c \in Chains, remove(c)
    PROVE  HstsInv'
<1>1. PICK host, p : host = calls[c].host /\ p = Without(policies, {host})
  OBVIOUS
<1>2. calls' = [calls EXCEPT ![c] = AtRest] /\ Writes(p) /\ now' = now /\ declared' = Without(declared, {host})
  BY <1>1 DEF remove
<1>3. DOMAIN p = DOMAIN policies \ {host} /\ \A d \in DOMAIN p : p[d] = policies[d]
  BY <1>1 DEF Without, Restrict
<1>4. DOMAIN declared' = DOMAIN declared \ {host} /\ \A d \in DOMAIN declared' : declared'[d] = declared[d]
  BY <1>2 DEF Without, Restrict
<1>5. StoredOK'
  <2>1. policies' = p
    BY <1>2 DEF Writes
  <2> QED BY <1>3, <1>4, <2>1 DEF HstsInv, StoredOK
<1> QED BY <1>2, <1>5, AtRestIs, WriteKeeps

LEMMA RecordKeeps ==
    ASSUME HstsAssumption, HstsInv, NEW c \in Chains, NEW url \in [scheme: {"http", "https"}, host: Domains \cup {Ip}],
           NEW value \in Values, record(c, url, value)
    PROVE  HstsInv'
<1>1. PICK sts : sts = parse_sts(value)
  OBVIOUS
<1>2. url.host \in Domains /\ sts # None
  BY <1>1 DEF record
<1>3. sts.max_age \in Nat
  BY <1>1, <1>2, ParsedIs
<1>4. PICK age, entry, word :
         /\ age = (IF sts.max_age < MaxAge THEN sts.max_age ELSE MaxAge)
         /\ entry = [expires_at |-> now + age, include_subdomains |-> sts.include_subdomains]
         /\ word = [until |-> now + sts.max_age, sub |-> sts.include_subdomains]
  OBVIOUS
<1>5. PICK k : k = (IF sts.max_age = 0 THEN [AtRest EXCEPT !.pc = "remove", !.host = url.host]
                    ELSE [AtRest EXCEPT !.pc = "count", !.host = url.host, !.entry = entry, !.word = word])
  OBVIOUS
<1>6. calls' = [calls EXCEPT ![c] = k]
  BY <1>1, <1>4, <1>5 DEF record
<1>7. age \in Nat /\ age <= sts.max_age
  BY <1>3, <1>4 DEF HstsAssumption
<1>8. /\ entry.expires_at \in Nat /\ word.until \in Nat
      /\ entry.expires_at <= word.until /\ entry.include_subdomains = word.sub
  BY <1>3, <1>4, <1>7 DEF HstsInv
<1>9. TakesDown(k) /\ k.pc \notin MakingRoom
  <2>1. CASE sts.max_age = 0
    <3>1. k = [AtRest EXCEPT !.pc = "remove", !.host = url.host]
      BY <1>5, <2>1
    <3> QED BY <1>2, <3>1 DEF AtRest, TakesDown, StorePcs, MakingRoom, HstsAssumption
  <2>2. CASE sts.max_age # 0
    <3>1. k = [AtRest EXCEPT !.pc = "count", !.host = url.host, !.entry = entry, !.word = word]
      BY <1>5, <2>2
    <3>2. /\ DOMAIN k = DOMAIN AtRest /\ k.pc = "count" /\ k.host = url.host /\ k.entry = entry /\ k.word = word
          /\ k.shard = 1 /\ k.count = 0 /\ k.at = 0 /\ k.best = None
      BY <3>1 DEF AtRest
    <3> QED BY <1>2, <1>8, <3>2 DEF TakesDown, StorePcs, MakingRoom, HstsAssumption
  <2> QED BY <2>1, <2>2
<1>10. now' \in Nat /\ policies' = policies /\ declared' = declared /\ seen' = seen
  BY DEF record, HstsInv
<1> QED BY <1>6, <1>9, <1>10, ReadKeeps DEF HstsInv

LEMMA KnownHolds ==
    ASSUME HstsAssumption, HstsInv
    PROVE  KnownIsDeclared
<1> SUFFICES ASSUME NEW host \in Domains, is_known_host(host)
             PROVE  \E d \in DOMAIN declared : Under(host, d) /\ now < declared[d].until
  BY DEF KnownIsDeclared, should_upgrade
<1>1. host \in Seq(STRING) /\ host # <<>>
  BY DEF HstsAssumption
<1>2. Len(host) \in Nat /\ Len(host) # 0
  BY <1>1
<1>3. PICK n \in Candidates(host), d \in DOMAIN policies :
         /\ d = SubSeq(host, Len(host) - n + 1, Len(host)) /\ ~is_expired(policies[d])
         /\ n = Len(host) \/ policies[d].include_subdomains
  BY DEF is_known_host
<1>4. d \in DOMAIN declared /\ now < declared[d].until
  BY <1>3 DEF HstsInv, StoredOK, is_expired
<1>5. CASE n = Len(host)
  <2>1. d = host
    <3>1. Len(host) - n + 1 = 1
      BY <1>2, <1>5
    <3> QED BY <1>1, <1>2, <1>3, <3>1
  <2> QED BY <1>4, <2>1 DEF Under
<1>6. CASE n # Len(host)
  <2>1. n \in 2..(Len(host) - 1)
    BY <1>2, <1>6 DEF Candidates
  <2>2. Len(d) = n
    <3>1. PICK m : m = Len(host) - n + 1 /\ m \in 1..Len(host) /\ Len(host) - m + 1 = n
      BY <1>2, <2>1
    <3>2. Len(SubSeq(host, m, Len(host))) = Len(host) - m + 1
      BY <1>1, <1>2, <3>1
    <3> QED BY <1>3, <3>1, <3>2
  <2> QED BY <1>3, <1>4, <1>6, <2>1, <2>2 DEF Under, HstsInv, StoredOK
<1> QED BY <1>5, <1>6

LEMMA HstsStepKeeps ==
    ASSUME HstsAssumption, HstsInv, [HstsStep]_<<now, hstsVars>>
    PROVE  HstsInv'
<1>1. CASE Later
  BY <1>1 DEF Later, hstsVars, HstsInv, StoredOK
<1>2. ASSUME NEW c \in Chains, store(c)
      PROVE  HstsInv'
  BY <1>2, CountKeeps, LookKeeps, ClockKeeps, SweepKeeps, ScanKeeps, EvictKeeps, InsertKeeps, RemoveKeeps DEF store
<1>3. ASSUME NEW c \in Chains, NEW url \in [scheme: {"http", "https"}, host: Domains \cup {Ip}],
             NEW value \in Values, record(c, url, value)
      PROVE  HstsInv'
  BY <1>3, RecordKeeps
<1>4. CASE UNCHANGED <<now, hstsVars>>
  BY <1>4 DEF hstsVars, HstsInv, StoredOK
<1> QED BY <1>1, <1>2, <1>3, <1>4 DEF HstsStep

\* What GivenUpForCause says of one step.
GivenUp(h) ==
    \E c \in Chains :
       /\ calls'[c] # calls[c]
       /\ \/ calls[c].pc = "remove" /\ calls[c].host = h
          \/ calls[c].pc = "sweep" /\ policies[h].expires_at <= calls[c].at
          \/ MadeRoom(c, h)

\* A chain that moves is at another place than before.
LEMMA WentOn ==
    ASSUME HstsInv, NEW c \in Chains, NEW k, calls' = [calls EXCEPT ![c] = k],
           k.pc # calls[c].pc \/ k.shard # calls[c].shard
    PROVE  calls'[c] # calls[c]
<1>1. calls'[c] = k
  BY DEF HstsInv
<1> QED BY <1>1

LEMMA GivesUpForCause ==
    ASSUME HstsAssumption, HstsInv, [HstsStep]_<<now, hstsVars>>, NEW h \in DOMAIN policies, h \notin DOMAIN policies'
    PROVE  GivenUp(h)
<1>1. PICK c \in Chains : retain(c) \/ evict(c) \/ insert(c) \/ remove(c)
  BY DEF HstsStep, Later, hstsVars, store, record, is_full, contains_key, Looked, read_clock, min_by_key
<1>2. PICK r : r = calls[c]
  OBVIOUS
<1>3. TakesDown(r) /\ (r.pc \in MakingRoom => Knows(r, seen[c], policies))
  BY <1>2 DEF HstsInv
<1>4. DOMAIN r = DOMAIN AtRest
  BY <1>3 DEF TakesDown
<1>5. CASE retain(c)
  <2>1. PICK k : k = [r EXCEPT !.shard = IF r.shard < Shards THEN r.shard + 1 ELSE 1,
                               !.pc = IF r.shard < Shards THEN r.pc ELSE "recount"]
    OBVIOUS
  <2>2. calls' = [calls EXCEPT ![c] = k] /\ r.pc = "sweep"
    BY <1>2, <1>5, <2>1 DEF retain, NextShard, HstsInv
  <2>3. /\ k.shard = (IF r.shard < Shards THEN r.shard + 1 ELSE 1)
        /\ k.pc = (IF r.shard < Shards THEN r.pc ELSE "recount")
    BY <1>4, <2>1 DEF AtRest
  <2>4. k.pc # r.pc \/ k.shard # r.shard
    BY <1>3, <2>2, <2>3 DEF TakesDown
  <2>5. calls'[c] # calls[c]
    BY <1>2, <2>2, <2>4, WentOn
  <2>6. PICK gone : gone = {g \in InShard(r.shard) : policies[g].expires_at <= r.at}
    OBVIOUS
  <2>7. DOMAIN policies' = DOMAIN policies \ gone
    BY <1>2, <1>5, <2>6 DEF retain, Writes, Without, Restrict
  <2> QED BY <1>2, <2>2, <2>5, <2>6, <2>7 DEF GivenUp
<1>6. CASE evict(c)
  <2>1. PICK k : k = [r EXCEPT !.pc = "insert", !.at = 0, !.best = None]
    OBVIOUS
  <2>2. calls' = [calls EXCEPT ![c] = k] /\ r.pc = "evict"
    BY <1>2, <1>6, <2>1 DEF evict, HstsInv
  <2>3. k.pc = "insert"
    BY <1>4, <2>1 DEF AtRest
  <2>4. calls'[c] # calls[c]
    BY <1>2, <2>2, <2>3, WentOn
  <2>5. r.best # None /\ h = r.best.host
    BY <1>2, <1>6 DEF evict, Writes, Without, Restrict
  <2>6. Knows(r, seen[c], policies)
    BY <1>3, <2>2 DEF MakingRoom
  <2>7. MadeRoom(c, h)
    BY <1>2, <2>2, <2>5, <2>6 DEF MadeRoom, Knows
  <2> QED BY <2>4, <2>7 DEF GivenUp
<1>7. CASE insert(c)
  <2>1. policies' = With(policies, r.host, r.entry)
    BY <1>2, <1>7 DEF insert, Writes
  <2> QED BY <2>1 DEF With
<1>8. CASE remove(c)
  <2>1. calls' = [calls EXCEPT ![c] = AtRest] /\ r.pc = "remove"
    BY <1>2, <1>8 DEF remove
  <2>2. calls'[c] # calls[c]
    BY <1>2, <2>1, WentOn DEF AtRest
  <2>3. DOMAIN policies' = DOMAIN policies \ {r.host}
    BY <1>2, <1>8 DEF remove, Writes, Without, Restrict
  <2> QED BY <1>2, <2>1, <2>2, <2>3 DEF GivenUp
<1> QED BY <1>1, <1>5, <1>6, <1>7, <1>8

\* The store is neither laxer nor stricter than what hosts declared, however many chains store
\* to it side by side and however often it overflows: a host is forced to https only while
\* it, or a superdomain that meant it, asked for that, and a policy in force goes only on its
\* host's word, by the clock of a sweep, or for want of room, and then the soonest to expire
\* of all that stood (hsts.rs record, is_known_host, InMemoryHstsStore::store).
THEOREM HstsKept ==
    ASSUME HstsAssumption
    PROVE  HstsSpec => PolicyKept
<1>1. now \in Nat /\ HstsInit => HstsInv
  BY HstsStart
<1>2. HstsInv /\ [HstsStep]_<<now, hstsVars>> => HstsInv'
  BY HstsStepKeeps
<1>3. HstsInv => KnownIsDeclared
  BY KnownHolds
<1>4. HstsInv /\ [HstsStep]_<<now, hstsVars>> =>
         [\A h \in DOMAIN policies : ~is_expired(policies[h]) /\ h \notin DOMAIN policies' =>
             \E c \in Chains :
                /\ calls'[c] # calls[c]
                /\ \/ calls[c].pc = "remove" /\ calls[c].host = h
                   \/ calls[c].pc = "sweep" /\ policies[h].expires_at <= calls[c].at
                   \/ MadeRoom(c, h)]_<<now, hstsVars>>
  BY GivesUpForCause DEF GivenUp
<1> QED BY <1>1, <1>2, <1>3, <1>4, PTL DEF HstsSpec, PolicyKept, GivenUpForCause

-----------------------------------------------------------------------------
(* Certificate overrides.                                                  *)

TlsInv == IsList(overrides) /\ \A i \in DOMAIN overrides : overrides[i] \in clicked

\* Whoever is not a known host is under no policy in force.
LEMMA UnknownIsFree ==
    ASSUME HstsAssumption, NEW host \in Domains, ~is_known_host(host), NEW d \in DOMAIN policies,
           ~is_expired(policies[d]), Len(d) >= 2
    PROVE  ~(host = d \/ (policies[d].include_subdomains
                            /\ \E n \in 1..(Len(host) - 1) : d = SubSeq(host, n + 1, Len(host))))
<1>1. host \in Seq(STRING) /\ host # <<>>
  BY DEF HstsAssumption
<1>2. Len(host) \in Nat /\ Len(host) # 0
  BY <1>1
<1>3. \A n \in Candidates(host) :
         d = SubSeq(host, Len(host) - n + 1, Len(host)) => n # Len(host) /\ ~policies[d].include_subdomains
  BY DEF is_known_host
<1>4. host # d
  <2>1. Len(host) \in Candidates(host)
    BY <1>2 DEF Candidates
  <2>2. SubSeq(host, Len(host) - Len(host) + 1, Len(host)) = host
    BY <1>1, <1>2
  <2> QED BY <1>3, <2>1, <2>2
<1>5. ASSUME NEW n \in 1..(Len(host) - 1), d = SubSeq(host, n + 1, Len(host))
      PROVE  ~policies[d].include_subdomains
  <2>1. Len(d) = Len(host) - n
    <3>1. PICK m : m = n + 1 /\ m \in 1..Len(host) /\ Len(host) - m + 1 = Len(host) - n
      BY <1>2
    <3>2. Len(SubSeq(host, m, Len(host))) = Len(host) - m + 1
      BY <1>1, <1>2, <3>1
    <3> QED BY <1>5, <3>1, <3>2
  <2>2. Len(host) - n \in Candidates(host) /\ Len(host) - (Len(host) - n) + 1 = n + 1
    BY <1>2, <2>1 DEF Candidates
  <2> QED BY <1>3, <1>5, <2>2
<1> QED BY <1>4, <1>5

\* What accept and revoke leave was there, or is the mine.
LEMMA AcceptIs ==
    ASSUME TlsInv, TlsAssumption, NEW mine
    PROVE  IsList(accept(mine)) /\ Members(accept(mine)) \subseteq Members(overrides) \cup {mine}
<1>1. PICK keep, others : /\ keep = {i \in DOMAIN overrides : overrides[i] # mine}
                          /\ others = Retained(overrides, keep)
  OBVIOUS
<1>2. IsList(others) /\ Members(others) \subseteq Members(overrides)
  <2>1. overrides \in Seq(Members(overrides)) /\ keep \subseteq DOMAIN overrides
    BY <1>1 DEF TlsInv, IsList
  <2>2. PartOf(Retained(overrides, keep), overrides)
    BY <2>1, RetainedIs
  <2> QED BY <1>1, <2>2, PartMembers
<1>3. CASE Len(overrides) >= MaxOverrides /\ ~Accepted(mine)
  <2>1. PICK rest : rest = Tail(overrides)
    OBVIOUS
  <2>2. overrides # <<>>
    BY <1>3 DEF TlsAssumption
  <2>3. PartOf(rest, overrides)
    BY <2>1, <2>2, TailPart DEF TlsInv, IsList
  <2>4. IsList(rest) /\ Members(rest) \subseteq Members(overrides)
    BY <2>3, PartMembers
  <2>5. accept(mine) = Append(rest, mine)
    BY <1>3, <2>1 DEF accept
  <2> QED BY <2>4, <2>5, AppendedList
<1>4. CASE ~(Len(overrides) >= MaxOverrides /\ ~Accepted(mine))
  <2>1. accept(mine) = Append(others, mine)
    BY <1>1, <1>4 DEF accept, Others
  <2> QED BY <1>2, <2>1, AppendedList
<1> QED BY <1>3, <1>4

LEMMA AcceptKeeps ==
    ASSUME TlsInv, TlsAssumption, NEW mine, overrides' = accept(mine), clicked' = clicked \cup {mine}
    PROVE  TlsInv'
<1>1. IsList(overrides') /\ Members(overrides') \subseteq Members(overrides) \cup {mine}
  BY AcceptIs
<1>2. Members(overrides) \subseteq clicked
  BY DEF TlsInv, Members
<1>3. IsList(overrides)'
  BY <1>1 DEF IsList, Members
<1>4. \A i \in DOMAIN overrides' : overrides'[i] \in Members(overrides')
  BY DEF Members
<1> QED BY <1>1, <1>2, <1>3, <1>4 DEF TlsInv

LEMMA RevokeKeeps ==
    ASSUME TlsInv, NEW host, revoke(host)
    PROVE  TlsInv'
<1>1. PICK keep : keep = {i \in DOMAIN overrides : overrides[i][1] # host}
  OBVIOUS
<1>2. overrides' = Retained(overrides, keep) /\ clicked' = {p \in clicked : p[1] # host}
  BY <1>1 DEF revoke
<1>3. /\ PartOf(Retained(overrides, keep), overrides)
      /\ \A n \in DOMAIN overrides' : \E m \in keep : overrides'[n] = overrides[m]
  <2>1. overrides \in Seq(Members(overrides)) /\ keep \subseteq DOMAIN overrides
    BY <1>1 DEF TlsInv, IsList
  <2> QED BY <1>2, <2>1, RetainedIs
<1>4. IsList(overrides)'
  BY <1>2, <1>3 DEF PartOf, IsList, Members
<1> QED BY <1>1, <1>2, <1>3, <1>4 DEF TlsInv

\* The verifier, and what it lets stand.
LEMMA VerifyKeeps ==
    ASSUME TlsInv, HstsAssumption, TlsAssumption, NEW host \in Domains, NEW cert, NEW kind, NEW click \in BOOLEAN,
           verify_override(host, cert, kind, click)
    PROVE  /\ TlsInv'
           /\ conn'.ok => /\ is_certificate_error(conn'.error) /\ <<conn'.host, conn'.cert>> \in clicked'
                          /\ conn'.host \in Domains /\ ~is_known_host(conn'.host)
<1>1. PICK mine, may, asks : /\ mine = <<host, cert>>
                             /\ may = (is_certificate_error(kind) /\ ~is_known_host(host))
                             /\ asks = (may /\ ~Accepted(mine))
  OBVIOUS
<1>2. /\ conn' = [host |-> host, cert |-> cert, error |-> kind, ok |-> may /\ (Accepted(mine) \/ click)]
      /\ overrides' = IF asks /\ click THEN accept(mine) ELSE overrides
      /\ clicked' = IF asks /\ click THEN clicked \cup {mine} ELSE clicked
  BY <1>1 DEF verify_override, Verified
<1>3. TlsInv'
  <2>1. CASE asks /\ click
    BY <1>2, <2>1, AcceptKeeps
  <2>2. CASE ~(asks /\ click)
    BY <1>2, <2>2 DEF TlsInv, IsList, Members
  <2> QED BY <2>1, <2>2
<1>4. ASSUME conn'.ok
      PROVE  may /\ mine \in clicked'
  <2>1. may /\ (Accepted(mine) \/ click)
    BY <1>2, <1>4
  <2>2. CASE Accepted(mine)
    <3>1. mine \in clicked
      BY <2>2 DEF TlsInv, Accepted
    <3>2. clicked \subseteq clicked'
      BY <1>2
    <3> QED BY <2>1, <3>1, <3>2
  <2>3. CASE ~Accepted(mine)
    BY <1>1, <1>2, <2>1, <2>3
  <2> QED BY <2>1, <2>2, <2>3
<1> QED BY <1>1, <1>2, <1>3, <1>4

OverrideIsGood ==
    conn' # conn /\ conn'.ok /\ conn'.error # None =>
        /\ is_certificate_error(conn'.error)
        /\ <<conn'.host, conn'.cert>> \in clicked'
        /\ \A d \in DOMAIN policies :
              now < policies[d].expires_at /\ Len(d) >= 2 =>
                  ~(conn'.host = d \/ (policies[d].include_subdomains
                      /\ \E n \in 1..(Len(conn'.host) - 1) : d = SubSeq(conn'.host, n + 1, Len(conn'.host))))

LEMMA TlsStepKeeps ==
    ASSUME HstsAssumption, TlsAssumption, TlsInv, HstsInv, [TlsStep]_(vars)
    PROVE  TlsInv' /\ HstsInv' /\ OverrideIsGood
<1>1. CASE HstsStep /\ UNCHANGED tlsVars
  <2>1. overrides' = overrides /\ clicked' = clicked /\ conn' = conn
    BY <1>1 DEF tlsVars
  <2> QED BY <1>1, <2>1, HstsStepKeeps DEF TlsInv, IsList, Members, OverrideIsGood
<1>2. ASSUME UNCHANGED <<now, hstsVars>>
      PROVE  HstsInv'
  BY <1>2 DEF HstsInv, StoredOK, hstsVars
<1>3. ASSUME NEW host \in Domains, NEW cert, ClickThrough(host, cert)
      PROVE  TlsInv' /\ HstsInv' /\ OverrideIsGood
  BY <1>2, <1>3, AcceptKeeps DEF ClickThrough, OverrideIsGood
<1>4. ASSUME NEW host \in Domains, revoke(host)
      PROVE  TlsInv' /\ HstsInv' /\ OverrideIsGood
  BY <1>2, <1>4, RevokeKeeps DEF revoke, OverrideIsGood
<1>5. ASSUME NEW host \in Domains, NEW cert, NEW error, NEW apple, NEW click \in BOOLEAN,
             verify_server_cert(host, cert, error, apple, click)
      PROVE  TlsInv' /\ HstsInv' /\ OverrideIsGood
  <2>1. CASE error = None
    BY <1>2, <1>5, <2>1 DEF verify_server_cert, Verified, OverrideIsGood, TlsInv, IsList, Members
  <2>2. CASE error # None
    <3>1. verify_override(host, cert, kind_of(error, apple), click)
      BY <1>5, <2>2 DEF verify_server_cert
    <3>2. UNCHANGED <<now, hstsVars>>
      BY <3>1 DEF verify_override
    <3>3. /\ TlsInv'
          /\ conn'.ok => /\ is_certificate_error(conn'.error) /\ <<conn'.host, conn'.cert>> \in clicked'
                         /\ conn'.host \in Domains /\ ~is_known_host(conn'.host)
      BY <3>1, VerifyKeeps
    <3>4. ASSUME conn'.ok, NEW d \in DOMAIN policies, now < policies[d].expires_at, Len(d) >= 2
          PROVE  ~(conn'.host = d \/ (policies[d].include_subdomains
                      /\ \E n \in 1..(Len(conn'.host) - 1) : d = SubSeq(conn'.host, n + 1, Len(conn'.host))))
      <4>1. PICK h : h = conn'.host
        OBVIOUS
      <4>2. ~is_expired(policies[d])
        BY <3>4 DEF is_expired, HstsInv, StoredOK
      <4>3. h \in Domains /\ ~is_known_host(h)
        BY <3>3, <3>4, <4>1
      <4> QED BY <3>4, <4>1, <4>2, <4>3, UnknownIsFree
    <3> QED BY <1>2, <3>2, <3>3, <3>4 DEF OverrideIsGood
  <2> QED BY <2>1, <2>2
<1>6. CASE UNCHANGED vars
  BY <1>2, <1>6 DEF vars, TlsInv, IsList, Members, OverrideIsGood
<1> QED BY <1>1, <1>3, <1>4, <1>5, <1>6 DEF TlsStep

\* A connection the platform would refuse stands only on a certificate error, on the user's
\* own word for this host and this certificate, not taken back, and under no HSTS policy in
\* force, however handshakes, clicks, evictions and headers interleave
\* (tls.rs verify_server_cert, InMemoryTlsOverrideStore).
THEOREM OverridesAreTheUsers ==
    ASSUME HstsAssumption, TlsAssumption
    PROVE  TlsSpec => OverrideIsTheUsers
<1>1. now \in Nat /\ TlsInit => TlsInv /\ HstsInv
  BY HstsStart DEF TlsInit, TlsInv, IsList, Members
<1>2. TlsInv /\ HstsInv /\ [TlsStep]_(vars) => TlsInv' /\ HstsInv'
  BY TlsStepKeeps
<1>3. TlsInv /\ HstsInv /\ [TlsStep]_(vars) =>
         [conn' # conn /\ conn'.ok /\ conn'.error # None =>
             /\ is_certificate_error(conn'.error)
             /\ <<conn'.host, conn'.cert>> \in clicked'
             /\ \A d \in DOMAIN policies :
                   now < policies[d].expires_at /\ Len(d) >= 2 =>
                       ~(conn'.host = d \/ (policies[d].include_subdomains
                           /\ \E n \in 1..(Len(conn'.host) - 1) : d = SubSeq(conn'.host, n + 1, Len(conn'.host))))]_(vars)
  BY TlsStepKeeps DEF OverrideIsGood
<1> QED BY <1>1, <1>2, <1>3, PTL DEF TlsSpec, OverrideIsTheUsers

-----------------------------------------------------------------------------
(* Preflight grants.  The invariant finds for everything in the cache the  *)
(* grant it was made from, made no earlier than its lifetime allows.       *)

\* Made for this key, and good for at least as long.
MadeFor(g, k, entry) ==
    /\ g.origin = k[1] /\ g.url = k[2] /\ g.include = k[3] /\ g.allows = entry.allows
    /\ g.allows.max_age \in Nat /\ g.allows.max_age <= MaxPreflightAge
    /\ entry.expires \in Nat /\ entry.expires <= given[g] + g.allows.max_age

FetchesType ==
    /\ fetch = [f \in Fetches |-> fetch[f]]
    /\ \A f \in Fetches : /\ DOMAIN fetch[f] = {"pc", "ask", "at", "response"}
                          /\ fetch[f].at \in Nat /\ fetch[f].at <= now

GrantInv ==
    /\ now \in Nat /\ FetchesType
    /\ \A g \in DOMAIN given : given[g] \in Nat /\ given[g] <= now
    /\ \A k \in DOMAIN cache : \E g \in DOMAIN given : MadeFor(g, k, cache[k])

LEMMA KeyIs ==
    ASSUME NEW a, NEW include
    PROVE  /\ P!Key(a, include)[1] = a.origin /\ P!Key(a, include)[2] = a.url
           /\ P!Key(a, include)[3] = include
  BY DEF P!Key

LEMMA IdleIs ==
    DOMAIN P!Idle = {"pc", "ask", "at", "response"} /\ P!Idle.at = 0 /\ P!Idle.pc = "idle"
  BY DEF P!Idle

\* A grant that permits a request under the rules it was made under covers it.
LEMMA PermitsCovers ==
    ASSUME NEW g, NEW a, g.origin = a.origin, g.url = a.url, a.include => g.include,
           P!permits(g.allows, a, g.include)
    PROVE  P!Covers(g, a)
<1>1. PICK unsafe : unsafe = P!unsafe_request_header_names(a.headers)
  OBVIOUS
<1>2. /\ a.method \in g.allows.methods.items \/ (g.allows.methods.wildcard /\ ~g.include)
         \/ P!is_cors_safelisted_method(a.method)
      /\ \A name \in unsafe : name \in g.allows.headers.items
            \/ (g.allows.headers.wildcard /\ ~g.include /\ name # "authorization")
  BY <1>1 DEF P!permits
<1>3. PICK own, safe : /\ own = {h \in a.headers : ~P!is_forbidden_request_header(h.name)}
                       /\ safe = {h \in own : P!is_cors_safelisted_request_header(h)}
  OBVIOUS
<1>4. unsafe = {h.name : h \in own \ safe} \cup (IF P!TooMuch(safe) THEN {h.name : h \in safe} ELSE {})
  BY <1>1, <1>3 DEF P!unsafe_request_header_names
<1>5. safe = {x \in a.headers : P!is_cors_safelisted_request_header(x)}
  BY <1>3 DEF P!is_cors_safelisted_request_header, P!is_forbidden_request_header
<1>6. ASSUME NEW h \in a.headers, ~P!is_forbidden_request_header(h.name), h.name \notin unsafe
      PROVE  P!is_cors_safelisted_request_header(h) /\ ~P!TooMuch(safe)
  BY <1>3, <1>4, <1>6
<1> QED BY <1>2, <1>5, <1>6 DEF P!Covers

LEMMA OneFetchMoves ==
    ASSUME FetchesType, NEW f \in Fetches, NEW x, DOMAIN x = {"pc", "ask", "at", "response"},
           x.at \in Nat, x.at <= now, now' = now, fetch' = [fetch EXCEPT ![f] = x]
    PROVE  /\ FetchesType' /\ fetch'[f] = x
           /\ \A e \in Fetches : e # f => fetch'[e] = fetch[e]
<1>1. fetch' = [e \in Fetches |-> IF e = f THEN x ELSE fetch[e]]
  BY DEF FetchesType
<1> QED BY <1>1 DEF FetchesType

\* What SentIsGranted says of one request.
WellSent(f) ==
    fetch'[f].pc = "sent" /\ fetch[f].pc # "sent" /\ P!preflight_needed(fetch'[f].ask) =>
        \E g \in DOMAIN given' : /\ P!Covers(g, fetch'[f].ask)
                                 /\ now <= given'[g] + g.allows.max_age
                                 /\ g.allows.max_age <= MaxPreflightAge

\* Nothing is sent by what leaves the cache no fuller and the request not sent.
LEMMA IdleKeeps ==
    ASSUME GrantInv, NEW f \in Fetches, NEW x, DOMAIN x = {"pc", "ask", "at", "response"},
           x.at \in Nat, x.at <= now, x.pc # "sent", fetch' = [fetch EXCEPT ![f] = x], now' = now, given' = given,
           DOMAIN cache' \subseteq DOMAIN cache, \A k \in DOMAIN cache' : cache'[k] = cache[k]
    PROVE  GrantInv' /\ \A e \in Fetches : WellSent(e)
<1>1. /\ FetchesType' /\ fetch'[f] = x
      /\ \A e \in Fetches : e # f => fetch'[e] = fetch[e]
  BY OneFetchMoves DEF GrantInv
<1> QED BY <1>1 DEF GrantInv, MadeFor, WellSent

LEMMA AskKeeps ==
    ASSUME GrantInv, NEW f \in Fetches, NEW a, P!Ask(f, a)
    PROVE  GrantInv' /\ \A e \in Fetches : WellSent(e)
<1>1. PICK x : /\ x = [pc |-> IF ~P!preflight_needed(a) \/ P!Granted(a) THEN "sent" ELSE "preflight", ask |-> a,
                       at |-> IF ~P!preflight_needed(a) \/ P!Granted(a) THEN 0 ELSE now, response |-> None]
               /\ fetch' = [fetch EXCEPT ![f] = x]
  BY DEF P!Ask
<1>2. now' = now /\ cache' = cache /\ given' = given
  BY DEF P!Ask
<1>3. DOMAIN x = {"pc", "ask", "at", "response"} /\ x.at \in Nat /\ x.at <= now /\ x.ask = a
      /\ (x.pc = "sent" => ~P!preflight_needed(a) \/ P!Granted(a))
  BY <1>1 DEF GrantInv
<1>4. /\ FetchesType' /\ fetch'[f] = x
      /\ \A e \in Fetches : e # f => fetch'[e] = fetch[e]
  BY ZenonT(60), <1>1, <1>2, <1>3, OneFetchMoves DEF GrantInv
<1>5. GrantInv'
  BY <1>2, <1>4 DEF GrantInv, MadeFor
<1>6. ASSUME P!Granted(a)
      PROVE  \E g \in DOMAIN given : /\ P!Covers(g, a) /\ now <= given[g] + g.allows.max_age
                                     /\ g.allows.max_age <= MaxPreflightAge
  <2>1. PICK include : P!fits(a, include) /\ (include = a.include \/ (include = TRUE /\ ~a.include))
    BY <1>6 DEF P!Granted
  <2>2. PICK k : k = P!Key(a, include) /\ k[1] = a.origin /\ k[2] = a.url /\ k[3] = include
    BY KeyIs
  <2>3. k \in DOMAIN cache /\ cache[k].expires > now /\ P!permits(cache[k].allows, a, include)
    BY <2>1, <2>2 DEF P!fits, P!get
  <2>4. PICK g \in DOMAIN given : MadeFor(g, k, cache[k])
    BY <2>3 DEF GrantInv
  <2>5. g.origin = a.origin /\ g.url = a.url /\ g.include = include /\ P!permits(g.allows, a, g.include)
    BY <2>2, <2>3, <2>4 DEF MadeFor
  <2>6. P!Covers(g, a)
    BY <2>1, <2>5, PermitsCovers
  <2>7. now <= given[g] + g.allows.max_age /\ g.allows.max_age <= MaxPreflightAge
    BY <2>3, <2>4 DEF MadeFor, GrantInv
  <2> QED BY <2>6, <2>7
<1>7. ASSUME NEW e \in Fetches
      PROVE  WellSent(e)
  <2>1. CASE e = f
    BY <1>2, <1>3, <1>4, <1>6, <2>1 DEF WellSent
  <2>2. CASE e # f
    BY <1>4, <2>2 DEF WellSent
  <2> QED BY <2>1, <2>2
<1> QED BY <1>5, <1>7

LEMMA ValidatedIs ==
    ASSUME P!GrantAssumption, NEW r \in Grants, NEW origin, NEW include,
           P!validate_preflight_response(r, origin, include) # None
    PROVE  /\ P!validate_preflight_response(r, origin, include).max_age \in Nat
           /\ P!validate_preflight_response(r, origin, include).max_age <= MaxPreflightAge
<1>1. PICK age : age = P!preflight_max_age(r)
  OBVIOUS
<1>2. age \in Nat
  <2>1. r.max_age \in Seq(Int)
    BY DEF P!GrantAssumption
  <2>2. Len(r.max_age) = 1 => r.max_age[1] \in Int
    BY <2>1
  <2> QED BY <1>1, <2>2 DEF P!preflight_max_age, P!GrantAssumption
<1> QED BY <1>1, <1>2 DEF P!validate_preflight_response, P!GrantAssumption

\* What is cached is the new grant, or was cached.
LEMMA PutIs ==
    ASSUME NEW key, NEW allows, NEW at, NEW c \in P!put(key, allows, at)
    PROVE  \A k \in DOMAIN c : \/ k = key /\ c[k] = [allows |-> allows, expires |-> at + allows.max_age]
                               \/ k \in DOMAIN cache /\ c[k] = cache[k]
<1>1. PICK live : live = {k \in DOMAIN cache : cache[k].expires > at}
  OBVIOUS
<1>2. PICK kept : kept \subseteq live /\ c = [k \in kept \cup {key} |->
         IF k = key THEN [allows |-> allows, expires |-> at + allows.max_age] ELSE cache[k]]
  BY <1>1 DEF P!put
<1> QED BY <1>1, <1>2

LEMMA AnsweredKeeps ==
    ASSUME P!GrantAssumption, GrantInv, NEW f \in Fetches, NEW r \in Grants, P!Answered(f, r)
    PROVE  GrantInv' /\ \A e \in Fetches : WellSent(e)
<1>1. PICK y : y = fetch[f] /\ DOMAIN y = {"pc", "ask", "at", "response"} /\ y.at \in Nat /\ y.at <= now
  BY DEF GrantInv, FetchesType
<1>2. PICK a, allows : a = y.ask /\ allows = P!validate_preflight_response(r, a.origin, a.include)
  OBVIOUS
<1>3. now' = now
  BY DEF P!Answered
<1>4. CASE ~(allows # None /\ P!permits(allows, a, a.include))
  <2>1. fetch' = [fetch EXCEPT ![f] = P!Idle] /\ cache' = cache /\ given' = given
    BY <1>1, <1>2, <1>4 DEF P!Answered
  <2>2. PICK x : x = P!Idle /\ DOMAIN x = {"pc", "ask", "at", "response"} /\ x.at = 0 /\ x.pc = "idle"
    BY IdleIs
  <2>3. 0 <= now /\ 0 \in Nat
    BY DEF GrantInv
  <2> QED BY <1>3, <2>1, <2>2, <2>3, IdleKeeps
<1>5. CASE allows # None /\ P!permits(allows, a, a.include)
  <2>1. allows.max_age \in Nat /\ allows.max_age <= MaxPreflightAge
    BY <1>2, <1>5, ValidatedIs
  <2>2. PICK g : g = [origin |-> a.origin, url |-> a.url, include |-> a.include, allows |-> allows]
    OBVIOUS
  <2>3. PICK key : key = P!Key(a, a.include) /\ key[1] = a.origin /\ key[2] = a.url /\ key[3] = a.include
    BY KeyIs
  <2>4. /\ cache' \in P!put(key, allows, y.at)
        /\ given' = [h \in DOMAIN given \cup {g} |-> IF h = g THEN now ELSE given[h]]
        /\ fetch' = [fetch EXCEPT ![f].pc = "sent", ![f].at = 0]
    BY <1>1, <1>2, <1>5, <2>2, <2>3 DEF P!Answered
  <2>5. PICK x : x = [[y EXCEPT !.pc = "sent"] EXCEPT !.at = 0] /\ fetch' = [fetch EXCEPT ![f] = x]
    BY <1>1, <2>4 DEF GrantInv, FetchesType
  <2>6. DOMAIN x = {"pc", "ask", "at", "response"} /\ x.at = 0 /\ x.ask = a /\ 0 <= now
    BY <1>1, <1>2, <2>5 DEF GrantInv
  <2>7. /\ FetchesType' /\ fetch'[f] = x
        /\ \A e \in Fetches : e # f => fetch'[e] = fetch[e]
    BY <1>3, <2>5, <2>6, OneFetchMoves DEF GrantInv
  <2>8. /\ DOMAIN given' = DOMAIN given \cup {g} /\ given'[g] = now
        /\ \A h \in DOMAIN given : given'[h] \in Nat /\ given[h] \in Nat /\ given[h] <= given'[h] /\ given'[h] <= now
    BY <2>4 DEF GrantInv
  <2>9. ASSUME NEW k \in DOMAIN cache'
        PROVE  \E h \in DOMAIN given' : MadeFor(h, k, cache[k])'
    <3>1. PICK entry : entry = cache'[k]
      OBVIOUS
    <3>2. CASE k = key /\ entry = [allows |-> allows, expires |-> y.at + allows.max_age]
      <4>1. MadeFor(g, key, entry)'
        BY <1>1, <2>1, <2>2, <2>3, <2>8, <3>2 DEF MadeFor, GrantInv
      <4> QED BY <2>8, <3>1, <3>2, <4>1 DEF MadeFor
    <3>3. CASE k \in DOMAIN cache /\ entry = cache[k]
      <4>1. PICK h \in DOMAIN given : MadeFor(h, k, entry)
        BY <3>3 DEF GrantInv
      <4>2. MadeFor(h, k, entry)'
        BY <2>8, <4>1 DEF MadeFor
      <4> QED BY <2>8, <3>1, <4>1, <4>2 DEF MadeFor
    <3> QED BY <2>4, <3>1, <3>2, <3>3, PutIs
  <2>10. GrantInv'
    BY <1>3, <2>7, <2>8, <2>9 DEF GrantInv
  <2>11. P!Covers(g, a)
    BY <1>5, <2>2, PermitsCovers
  <2>12. now <= given'[g] + g.allows.max_age /\ g.allows.max_age <= MaxPreflightAge
    BY <2>1, <2>2, <2>8 DEF GrantInv
  <2>13. ASSUME NEW e \in Fetches
         PROVE  WellSent(e)
    <3>1. CASE e = f
      BY <2>6, <2>7, <2>8, <2>11, <2>12, <3>1 DEF WellSent
    <3>2. CASE e # f
      BY <2>7, <3>2 DEF WellSent
    <3> QED BY <3>1, <3>2
  <2> QED BY <2>10, <2>13
<1> QED BY <1>4, <1>5

LEMMA GrantStart ==
    ASSUME now \in Nat, P!GrantInit
    PROVE  GrantInv
<1>1. DOMAIN cache = {} /\ DOMAIN given = {} /\ fetch = [f \in Fetches |-> P!Idle]
  BY DEF P!GrantInit
<1>2. FetchesType
  BY <1>1, IdleIs DEF FetchesType
<1> QED BY <1>1, <1>2 DEF GrantInv

LEMMA GrantStep ==
    ASSUME P!GrantAssumption, GrantInv, [P!GrantNext \/ P!Later]_<<now, cache, fetch, given>>
    PROVE  GrantInv' /\ \A e \in Fetches : WellSent(e)
<1>0. P!Idle.at \in Nat /\ P!Idle.at <= now
  BY IdleIs DEF GrantInv
<1>1. ASSUME NEW f \in Fetches, NEW r, P!Response(f, r)
      PROVE  GrantInv' /\ \A e \in Fetches : WellSent(e)
  <2>1. PICK y : y = fetch[f] /\ DOMAIN y = {"pc", "ask", "at", "response"} /\ y.at \in Nat /\ y.at <= now
    BY DEF GrantInv, FetchesType
  <2>2. PICK head : fetch' = [fetch EXCEPT ![f].pc = "read", ![f].response = head]
    BY <1>1 DEF P!Response
  <2>3. PICK x : x = [[y EXCEPT !.pc = "read"] EXCEPT !.response = head] /\ fetch' = [fetch EXCEPT ![f] = x]
    BY <2>1, <2>2 DEF GrantInv, FetchesType
  <2>4. DOMAIN x = {"pc", "ask", "at", "response"} /\ x.at \in Nat /\ x.at <= now /\ x.pc # "sent"
    BY <2>1, <2>3
  <2>5. now' = now /\ cache' = cache /\ given' = given
    BY <1>1 DEF P!Response
  <2> QED BY <2>3, <2>4, <2>5, IdleKeeps
<1>2. ASSUME NEW f \in Fetches, P!Failed(f)
      PROVE  GrantInv' /\ \A e \in Fetches : WellSent(e)
  <2>1. fetch' = [fetch EXCEPT ![f] = P!Idle] /\ now' = now /\ given' = given
    BY <1>2 DEF P!Failed
  <2>2. DOMAIN cache' \subseteq DOMAIN cache /\ \A k \in DOMAIN cache' : cache'[k] = cache[k]
    BY <1>2 DEF P!Failed, P!clear, P!Restrict
  <2>3. PICK x : x = P!Idle
    OBVIOUS
  <2> QED BY <1>0, <2>1, <2>2, <2>3, IdleIs, IdleKeeps
<1>3. ASSUME NEW f \in Fetches, P!Over(f)
      PROVE  GrantInv' /\ \A e \in Fetches : WellSent(e)
  <2>1. fetch' = [fetch EXCEPT ![f] = P!Idle] /\ now' = now /\ given' = given /\ cache' = cache
    BY <1>3 DEF P!Over
  <2>2. PICK x : x = P!Idle
    OBVIOUS
  <2> QED BY <1>0, <2>1, <2>2, IdleIs, IdleKeeps
<1>4. CASE P!Later
  BY <1>4 DEF P!Later, P!grantVars, GrantInv, FetchesType, MadeFor, WellSent
<1>5. CASE UNCHANGED <<now, cache, fetch, given>>
  BY <1>5 DEF GrantInv, FetchesType, MadeFor, WellSent
<1> QED BY <1>1, <1>2, <1>3, <1>4, <1>5, AskKeeps, AnsweredKeeps DEF P!GrantNext

\* A request that markup could not have sent goes out only under a grant the server made for
\* its origin, URL and credentials, and no longer ago than that was good for: however the
\* requests that ask, fail and clear interleave, however many there are, and whatever is
\* dropped for want of room (cors/preflight.rs, HopChain::preflight).
THEOREM GrantsAreKept ==
    ASSUME P!GrantAssumption
    PROVE  P!GrantSpec => SentIsGranted
<1>1. now \in Nat /\ P!GrantInit => GrantInv
  BY GrantStart
<1>2. GrantInv /\ [P!GrantNext \/ P!Later]_<<now, cache, fetch, given>> => GrantInv'
  BY GrantStep
<1>3. GrantInv /\ [P!GrantNext \/ P!Later]_<<now, cache, fetch, given>> =>
         [\A f \in Fetches :
             /\ fetch'[f].pc = "sent" /\ fetch[f].pc # "sent"
             /\ P!preflight_needed(fetch'[f].ask)
             => \E g \in DOMAIN given' : /\ P!Covers(g, fetch'[f].ask)
                                         /\ now <= given'[g] + g.allows.max_age
                                         /\ g.allows.max_age <= MaxPreflightAge]_(P!grantVars)
  BY GrantStep DEF WellSent
<1> QED BY <1>1, <1>2, <1>3, PTL DEF P!GrantSpec, P!SentIsGranted, SentIsGranted

-----------------------------------------------------------------------------
(* Credentials.  The invariant says of every entry what the property says  *)
(* of the one that is sent upfront, and of a login between its two calls   *)
(* on the store what its directory will be noted for.                      *)

\* The store: a space has one entry at most.
StoreType(es) ==
    /\ IsList(es)
    /\ \A n \in DOMAIN es : /\ DOMAIN es[n] = {"space", "credentials", "directories"}
                            /\ IsList(es[n].directories)
    /\ \A m, n \in DOMAIN es : m # n => es[m].space # es[n].space

\* What is left of a list of different spaces is one.
LEMMA PartIsStore ==
    ASSUME NEW es, StoreType(es), NEW l, PartOf(l, es)
    PROVE  StoreType(l) /\ Members(l) \subseteq Members(es)
<1>1. PICK at : /\ \A n \in DOMAIN l : at[n] \in DOMAIN es /\ l[n] = es[at[n]]
                /\ \A m, n \in DOMAIN l : m # n => at[m] # at[n]
  BY DEF PartOf
<1>2. IsList(l)
  BY DEF PartOf
<1> QED BY <1>1, <1>2 DEF StoreType, Members

LEMMA DroppedIs ==
    ASSUME StoreType(entries), NEW space
    PROVE  /\ StoreType(C!Dropped(space))
           /\ \A e \in Members(C!Dropped(space)) : e \in Members(entries) /\ e.space # space
<1>1. CASE C!Held(space) = {}
  BY <1>1 DEF C!Dropped, C!Held, Members
<1>2. CASE C!Held(space) # {}
  <2>1. PICK i \in C!Held(space) : i = CHOOSE j \in C!Held(space) : TRUE
    BY <1>2
  <2>2. i \in DOMAIN entries /\ entries[i].space = space
    BY DEF C!Held
  <2>3. PICK l : l = C!Dropped(space) /\ l = C!RemoveAt(entries, i)
    BY <1>2, <2>1 DEF C!Dropped
  <2>4. entries \in Seq(Members(entries)) /\ i \in 1..Len(entries)
    BY <2>2, ListIs DEF StoreType, IsList
  <2>5. PartOf(l, entries) /\ \A n \in DOMAIN l : \E m \in DOMAIN entries : m # i /\ l[n] = entries[m]
    BY <2>3, <2>4, RemovedIs
  <2>6. StoreType(l) /\ Members(l) \subseteq Members(entries)
    BY <2>5, PartIsStore
  <2>7. \A m \in DOMAIN entries : m # i => entries[m].space # space
    BY <2>2 DEF StoreType
  <2>8. \A e \in Members(l) : e.space # space
    BY <2>5, <2>7 DEF Members
  <2> QED BY <2>3, <2>6, <2>8
<1> QED BY <1>1, <1>2

LEMMA AppendedIs ==
    ASSUME NEW es, StoreType(es), NEW x, DOMAIN x = {"space", "credentials", "directories"},
           IsList(x.directories), \A e \in Members(es) : e.space # x.space
    PROVE  StoreType(Append(es, x)) /\ Members(Append(es, x)) = Members(es) \cup {x}
<1>1. PICK l : l = Append(es, x)
  OBVIOUS
<1>2. IsList(es)
  BY DEF StoreType
<1>3. Len(es) \in Nat /\ DOMAIN es = 1..Len(es)
  BY <1>2, ListIs
<1>4. /\ IsList(l) /\ DOMAIN l = 1..(Len(es) + 1) /\ l[Len(es) + 1] = x /\ \A n \in DOMAIN es : l[n] = es[n]
      /\ Members(l) = Members(es) \cup {x}
  BY <1>1, <1>2, AppendedList
<1>5. \A n \in DOMAIN l : (n \in DOMAIN es /\ l[n] = es[n]) \/ (n = Len(es) + 1 /\ l[n] = x)
  BY <1>3, <1>4
<1>6. \A n \in DOMAIN es : es[n].space # x.space
  BY DEF Members
<1>7. \A m, n \in DOMAIN l : m # n => l[m].space # l[n].space
  BY <1>5, <1>6 DEF StoreType
<1>8. \A n \in DOMAIN l : DOMAIN l[n] = {"space", "credentials", "directories"} /\ IsList(l[n].directories)
  BY <1>5 DEF StoreType
<1> QED BY <1>1, <1>4, <1>7, <1>8 DEF StoreType
\* What is stored anew has the directories of the old entry, where the credentials are the same.
LEMMA StoreIs ==
    ASSUME StoreType(entries), MaxSpaces \in Nat \ {0}, NEW space, NEW c
    PROVE  /\ StoreType(C!store(space, c))
           /\ \A e \in Members(C!store(space, c)) :
                 \/ e \in Members(entries) /\ e.space # space
                 \/ /\ e.space = space /\ e.credentials = c
                    /\ \/ e.directories = <<>>
                       \/ \E o \in Members(entries) : /\ o.space = space /\ o.credentials = c
                                                      /\ o.directories = e.directories
<1>1. PICK old : old = {i \in C!Held(space) : entries[i].credentials = c}
  OBVIOUS
<1>2. PICK rest : rest = IF C!Held(space) = {} /\ Len(entries) >= MaxSpaces THEN Tail(entries) ELSE C!Dropped(space)
  OBVIOUS
<1>3. PICK dirs : dirs = IF old = {} THEN <<>> ELSE entries[CHOOSE i \in old : TRUE].directories
  OBVIOUS
<1>4. PICK x : x = [space |-> space, credentials |-> c, directories |-> dirs]
  OBVIOUS
<1>5. C!store(space, c) = Append(rest, x)
  BY <1>1, <1>2, <1>3, <1>4 DEF C!store
<1>6. StoreType(rest) /\ \A e \in Members(rest) : e \in Members(entries) /\ e.space # space
  <2>1. CASE C!Held(space) = {} /\ Len(entries) >= MaxSpaces
    <3>1. entries # <<>>
      BY <2>1
    <3>2. \A e \in Members(entries) : e.space # space
      BY <2>1 DEF C!Held, Members
    <3>3. PartOf(rest, entries)
      BY <1>2, <2>1, <3>1, TailPart DEF StoreType, IsList
    <3> QED BY <3>2, <3>3, PartIsStore
  <2>2. CASE ~(C!Held(space) = {} /\ Len(entries) >= MaxSpaces)
    BY <1>2, <2>2, DroppedIs
  <2> QED BY <2>1, <2>2
<1>7. IsList(dirs) /\ (dirs = <<>> \/ \E o \in Members(entries) : o.space = space /\ o.credentials = c /\ o.directories = dirs)
  <2>1. CASE old = {}
    BY <1>3, <2>1 DEF IsList
  <2>2. CASE old # {}
    <3>1. PICK i \in old : dirs = entries[i].directories
      BY <1>3, <2>2
    <3>2. i \in DOMAIN entries /\ entries[i].space = space /\ entries[i].credentials = c
      BY <1>1 DEF C!Held
    <3> QED BY <3>1, <3>2 DEF StoreType, Members
  <2> QED BY <2>1, <2>2
<1>8. DOMAIN x = {"space", "credentials", "directories"} /\ x.space = space /\ x.credentials = c /\ x.directories = dirs
  BY <1>4
<1>9. StoreType(Append(rest, x)) /\ Members(Append(rest, x)) = Members(rest) \cup {x}
  BY <1>6, <1>7, <1>8, AppendedIs
<1> QED BY <1>5, <1>6, <1>7, <1>8, <1>9

\* One directory more at most, however many it takes the place of.
LEMMA CoveringIs ==
    ASSUME NEW dirs, IsList(dirs), NEW dir, MaxDirs \in Nat \ {0}
    PROVE  IsList(C!Covering(dirs, dir)) /\ Members(C!Covering(dirs, dir)) \subseteq Members(dirs) \cup {dir}
<1>1. PICK apart, keep : apart = Retained(dirs, keep) /\ keep = {i \in DOMAIN dirs : ~C!IsPrefix(dir, dirs[i])}
  OBVIOUS
<1>2. PICK rest : rest = IF Len(apart) >= MaxDirs THEN Tail(apart) ELSE apart
  OBVIOUS
<1>3. IsList(apart) /\ Members(apart) \subseteq Members(dirs)
  <2>1. dirs \in Seq(Members(dirs)) /\ keep \subseteq DOMAIN dirs
    BY <1>1 DEF IsList
  <2>2. PartOf(Retained(dirs, keep), dirs)
    BY <2>1, RetainedIs
  <2> QED BY <1>1, <2>2, PartMembers
<1>4. IsList(rest) /\ Members(rest) \subseteq Members(dirs)
  <2>1. CASE Len(apart) >= MaxDirs
    <3>1. apart # <<>>
      BY <2>1
    <3>2. PartOf(Tail(apart), apart)
      BY <1>3, <3>1, TailPart DEF IsList
    <3> QED BY <1>2, <1>3, <2>1, <3>2, PartMembers
  <2>2. CASE ~(Len(apart) >= MaxDirs)
    BY <1>2, <1>3, <2>2
  <2> QED BY <2>1, <2>2
<1>5. IsList(Append(rest, dir)) /\ Members(Append(rest, dir)) = Members(rest) \cup {dir}
  BY <1>4, AppendedList
<1>6. C!Covering(dirs, dir) = dirs \/ C!Covering(dirs, dir) = Append(rest, dir)
  BY <1>1, <1>2, SameRetained DEF C!Covering
<1> QED BY <1>4, <1>5, <1>6

\* accepted_at adds the directory to the entry of the space, and nothing else.
LEMMA AcceptedIs ==
    ASSUME StoreType(entries), MaxDirs \in Nat \ {0}, NEW space, NEW path
    PROVE  /\ StoreType(C!accepted_at(space, path))
           /\ \A e \in Members(C!accepted_at(space, path)) :
                 \/ e \in Members(entries) /\ (e.space = space => space.target # "Server" \/ space.scheme # "Basic")
                 \/ /\ e.space = space /\ space.target = "Server" /\ space.scheme = "Basic"
                    /\ \E o \in Members(entries) :
                          /\ o.space = space /\ o.credentials = e.credentials
                          /\ Members(e.directories) \subseteq Members(o.directories) \cup {C!directory_of(path)}
<1>1. CASE space.target # "Server" \/ space.scheme # "Basic"
  BY <1>1 DEF C!accepted_at
<1>2. CASE ~(space.target # "Server" \/ space.scheme # "Basic")
  <2>1. PICK dir : dir = C!directory_of(path)
    OBVIOUS
  <2>2. PICK l : /\ l = C!accepted_at(space, path)
                 /\ l = [i \in DOMAIN entries |->
                           IF entries[i].space = space
                           THEN [entries[i] EXCEPT !.directories = C!Covering(@, dir)]
                           ELSE entries[i]]
    BY <1>2, <2>1 DEF C!accepted_at
  <2>3. Len(entries) \in Nat /\ DOMAIN entries = 1..Len(entries) /\ DOMAIN l = DOMAIN entries
    BY <2>2, ListIs DEF StoreType
  <2>4. ASSUME NEW i \in DOMAIN entries
        PROVE  /\ DOMAIN l[i] = {"space", "credentials", "directories"} /\ IsList(l[i].directories)
               /\ l[i].space = entries[i].space /\ l[i].credentials = entries[i].credentials
               /\ \/ l[i].space # space /\ l[i] = entries[i]
                  \/ l[i].space = space /\ Members(l[i].directories) \subseteq Members(entries[i].directories) \cup {dir}
    <3>1. DOMAIN entries[i] = {"space", "credentials", "directories"} /\ IsList(entries[i].directories)
      BY DEF StoreType
    <3>2. CASE entries[i].space # space
      BY <2>2, <3>1, <3>2
    <3>3. CASE entries[i].space = space
      <4>1. PICK o, c : o = entries[i] /\ c = C!Covering(o.directories, dir)
        OBVIOUS
      <4>2. l[i] = [o EXCEPT !.directories = c]
        BY <2>2, <3>3, <4>1
      <4>3. DOMAIN l[i] = {"space", "credentials", "directories"} /\ l[i].directories = c
            /\ l[i].space = o.space /\ l[i].credentials = o.credentials
        BY <3>1, <4>1, <4>2
      <4>4. IsList(c) /\ Members(c) \subseteq Members(o.directories) \cup {dir}
        BY <3>1, <4>1, CoveringIs
      <4> QED BY <3>3, <4>1, <4>3, <4>4
    <3> QED BY <3>2, <3>3
  <2>5. IsList(l)
    <3>1. \A i \in 1..Len(entries) : l[i] \in Members(l)
      BY <2>3 DEF Members
    <3>2. l = [i \in 1..Len(entries) |-> l[i]]
      BY <2>2, <2>3
    <3> QED BY <2>3, <3>1, <3>2 DEF IsList
  <2>6. StoreType(l)
    BY <2>3, <2>4, <2>5 DEF StoreType
  <2>7. ASSUME NEW e \in Members(l)
        PROVE  \/ e \in Members(entries) /\ e.space # space
               \/ e.space = space /\ \E o \in Members(entries) :
                     /\ o.space = space /\ o.credentials = e.credentials
                     /\ Members(e.directories) \subseteq Members(o.directories) \cup {dir}
    <3>1. PICK i \in DOMAIN entries : e = l[i]
      BY <2>3 DEF Members
    <3>2. entries[i] \in Members(entries)
      BY DEF Members
    <3> QED BY <2>4, <3>1, <3>2
  <2> QED BY <1>2, <2>1, <2>2, <2>6, <2>7
<1> QED BY <1>1, <1>2

IsUpfront(space) == space.target = "Server" /\ space.scheme = "Basic"
Proof(space, secret, dir) == [space |-> space, secret |-> secret, directory |-> dir]

\* Every directory of an entry is one the server let these credentials in at.
EntryProven(e) ==
    e.space \in raced \/ \A n \in DOMAIN e.directories : Proof(e.space, e.credentials, e.directories[n]) \in proven

\* What a login between its two calls is about to vouch for is what it was let in with.
LoginProven(x) ==
    x.pc = "stored" /\ IsUpfront(x.space) =>
        \/ x.space \in raced
        \/ \A e \in Members(entries) : e.space = x.space =>
              e.credentials = x.secret /\ Proof(x.space, x.secret, C!directory_of(x.path)) \in proven

LoginType ==
    /\ login = [l \in Logins |-> login[l]]
    /\ \A l \in Logins : DOMAIN login[l] = {"pc", "space", "secret", "path"}

CredInv ==
    /\ StoreType(entries) /\ LoginType
    /\ \A e \in Members(entries) : EntryProven(e)
    /\ \A l \in Logins : LoginProven(login[l])

LEMMA NoLoginIs == DOMAIN C!NoLogin = {"pc", "space", "secret", "path"} /\ C!NoLogin.pc = "idle"
  BY DEF C!NoLogin

LEMMA CredStart ==
    ASSUME C!CredInit
    PROVE  CredInv
<1>1. entries = <<>> /\ login = [l \in Logins |-> C!NoLogin]
  BY DEF C!CredInit
<1>2. Members(entries) = {}
  BY <1>1 DEF Members
<1>3. StoreType(entries)
  BY <1>1 DEF StoreType, IsList, Members
<1>4. LoginType /\ \A l \in Logins : LoginProven(login[l])
  BY <1>1, NoLoginIs DEF LoginType, LoginProven
<1> QED BY <1>2, <1>3, <1>4 DEF CredInv

\* What the space of a login that is between its two calls is given makes it raced.
LEMMA RacingIs ==
    ASSUME NEW space
    PROVE  \A m \in Logins : login[m].pc = "stored" /\ login[m].space = space => space \in C!Racing(space)
  BY DEF C!Racing

\* Storing: proofs of other credentials of the space go, those of these stay.
LEMMA StoringKeeps ==
    ASSUME CredInv, C!SomeRoom, NEW space, NEW c, entries' = C!store(space, c),
           raced' = raced \cup C!Racing(space),
           \A p \in proven : p.space # space \/ p.secret = c => p \in proven'
    PROVE  /\ StoreType(entries)'
           /\ \A e \in Members(entries') : EntryProven(e)'
           /\ \A e \in Members(entries') : e.space = space => e.credentials = c
<1>1. /\ StoreType(C!store(space, c))
      /\ \A e \in Members(entries') :
            \/ e \in Members(entries) /\ e.space # space
            \/ /\ e.space = space /\ e.credentials = c
               /\ \/ e.directories = <<>>
                  \/ \E o \in Members(entries) : /\ o.space = space /\ o.credentials = c
                                                 /\ o.directories = e.directories
  BY StoreIs DEF CredInv, C!SomeRoom
<1>2. ASSUME NEW e \in Members(entries')
      PROVE  EntryProven(e)'
  <2>1. CASE e \in Members(entries) /\ e.space # space
    BY <2>1 DEF CredInv, EntryProven, Proof
  <2>2. CASE e.space = space /\ e.directories = <<>>
    BY <2>2 DEF EntryProven
  <2>3. CASE /\ e.space = space /\ e.credentials = c
             /\ \E o \in Members(entries) : o.space = space /\ o.credentials = c /\ o.directories = e.directories
    <3>1. PICK o \in Members(entries) : o.space = space /\ o.credentials = c /\ o.directories = e.directories
      BY <2>3
    <3>2. EntryProven(o)
      BY DEF CredInv
    <3> QED BY <2>3, <3>1, <3>2 DEF EntryProven, Proof
  <2> QED BY <1>1, <2>1, <2>2, <2>3
<1> QED BY <1>1, <1>2 DEF StoreType

\* ... and a login that is between its two calls still vouches for what is so.
LEMMA StoringKeepsLogin ==
    ASSUME CredInv, C!SomeRoom, NEW space, NEW c, entries' = C!store(space, c),
           raced' = raced \cup C!Racing(space),
           \A p \in proven : p.space # space \/ p.secret = c => p \in proven',
           NEW x, LoginProven(x), x.pc = "stored" /\ x.space = space => space \in C!Racing(space)
    PROVE  LoginProven(x)'
<1> SUFFICES ASSUME x.pc = "stored", IsUpfront(x.space), x.space \notin raced', NEW e \in Members(entries'), e.space = x.space
             PROVE  e.credentials = x.secret /\ Proof(x.space, x.secret, C!directory_of(x.path)) \in proven'
  BY DEF LoginProven, IsUpfront, Proof, C!directory_of
<1>1. x.space # space /\ x.space \notin raced
  OBVIOUS
<1>2. \A f \in Members(C!store(space, c)) : f \in Members(entries) \/ f.space = space
  BY StoreIs DEF CredInv, C!SomeRoom
<1>3. e \in Members(entries)
  BY <1>1, <1>2
<1>4. e.credentials = x.secret /\ Proof(x.space, x.secret, C!directory_of(x.path)) \in proven
  BY <1>1, <1>3 DEF LoginProven
<1>5. Proof(x.space, x.secret, C!directory_of(x.path)).space = x.space
  BY DEF Proof
<1> QED BY <1>1, <1>4, <1>5

\* One login moves, the others stay.
LEMMA OneMoves ==
    ASSUME LoginType, NEW l \in Logins, NEW x, DOMAIN x = {"pc", "space", "secret", "path"},
           login' = [login EXCEPT ![l] = x]
    PROVE  /\ LoginType' /\ login'[l] = x
           /\ \A m \in Logins : m # l => login'[m] = login[m]
<1>1. login' = [m \in Logins |-> IF m = l THEN x ELSE login[m]]
  BY DEF LoginType
<1> QED BY <1>1 DEF LoginType

LEMMA ChallengedKeeps ==
    ASSUME CredInv, NEW l \in Logins, NEW question, NEW path, NEW hook, C!Challenged(l, question, path, hook)
    PROVE  CredInv'
<1>1. entries' = entries /\ proven' = proven /\ raced' = raced
  BY DEF C!Challenged
<1>2. PICK x : x.pc = "sent" /\ DOMAIN x = {"pc", "space", "secret", "path"} /\ login' = [login EXCEPT ![l] = x]
  BY DEF C!Challenged
<1>3. /\ LoginType' /\ login'[l] = x
      /\ \A m \in Logins : m # l => login'[m] = login[m]
  BY <1>2, OneMoves DEF CredInv
<1>4. StoreType(entries)' /\ \A e \in Members(entries') : EntryProven(e)'
  BY <1>1 DEF CredInv, StoreType, EntryProven
<1>5. \A m \in Logins : LoginProven(login[m])'
  BY <1>1, <1>2, <1>3 DEF CredInv, LoginProven
<1> QED BY <1>3, <1>4, <1>5 DEF CredInv

\* A login that is over leaves everything else as it is.
LEMMA OverKeeps ==
    ASSUME CredInv, NEW l \in Logins, login' = [login EXCEPT ![l] = C!NoLogin],
           entries' = entries, proven' = proven, raced' = raced
    PROVE  CredInv'
<1>3. /\ LoginType' /\ login'[l] = C!NoLogin
      /\ \A m \in Logins : m # l => login'[m] = login[m]
  BY NoLoginIs, OneMoves DEF CredInv
<1>4. StoreType(entries)' /\ \A e \in Members(entries') : EntryProven(e)'
  BY DEF CredInv, StoreType, EntryProven
<1>5. \A m \in Logins : LoginProven(login[m])'
  BY NoLoginIs, <1>3 DEF CredInv, LoginProven
<1> QED BY <1>3, <1>4, <1>5 DEF CredInv

LEMMA LetThroughKeeps ==
    ASSUME CredInv, C!SomeRoom, NEW l \in Logins, C!LetThrough(l)
    PROVE  CredInv'
<1>1. PICK x : x = login[l] /\ x.pc = "sent" /\ DOMAIN x = {"pc", "space", "secret", "path"}
  BY DEF CredInv, LoginType, C!LetThrough
<1>2. CASE x.secret \notin Secrets
  BY <1>1, <1>2, OverKeeps DEF C!LetThrough
<1>3. CASE x.secret \in Secrets
  <2>1. PICK y : y = [x EXCEPT !.pc = "stored"] /\ login' = [login EXCEPT ![l] = y]
    BY <1>1, <1>3 DEF C!LetThrough
  <2>2. DOMAIN y = {"pc", "space", "secret", "path"} /\ y.space = x.space /\ y.secret = x.secret /\ y.path = x.path
    BY <1>1, <2>1
  <2>3. /\ LoginType' /\ login'[l] = y
        /\ \A m \in Logins : m # l => login'[m] = login[m]
    BY <2>1, <2>2, OneMoves DEF CredInv
  <2>4. entries' = C!store(x.space, x.secret) /\ raced' = raced \cup C!Racing(x.space)
    BY <1>1, <1>3 DEF C!LetThrough
  <2>5. /\ \A p \in proven : p.space # x.space \/ p.secret = x.secret => p \in proven'
        /\ IsUpfront(x.space) => Proof(x.space, x.secret, C!directory_of(x.path)) \in proven'
    BY <1>1, <1>3 DEF C!LetThrough, IsUpfront, Proof
  <2>6. /\ StoreType(entries)' /\ \A e \in Members(entries') : EntryProven(e)'
        /\ \A e \in Members(entries') : e.space = x.space => e.credentials = x.secret
    BY <2>4, <2>5, StoringKeeps
  <2>7. ASSUME NEW m \in Logins
        PROVE  LoginProven(login[m])'
    <3>1. CASE m = l
      <4>1. LoginProven(y)'
        BY <2>2, <2>5, <2>6 DEF LoginProven, IsUpfront, Proof, C!directory_of
      <4> QED BY <2>3, <3>1, <4>1 DEF LoginProven, IsUpfront, Proof, C!directory_of
    <3>2. CASE m # l
      <4>1. PICK z : z = login[m]
        OBVIOUS
      <4>2. LoginProven(z) /\ (z.pc = "stored" /\ z.space = x.space => x.space \in C!Racing(x.space))
        BY <4>1, RacingIs DEF CredInv
      <4>3. LoginProven(z)'
        BY <2>4, <2>5, <4>2, StoringKeepsLogin
      <4> QED BY <2>3, <3>2, <4>1, <4>3 DEF LoginProven, IsUpfront, Proof, C!directory_of
    <3> QED BY <3>1, <3>2
  <2> QED BY <2>3, <2>6, <2>7 DEF CredInv
<1> QED BY <1>2, <1>3

LEMMA SeedKeeps ==
    ASSUME CredInv, C!SomeRoom, NEW space, NEW c, C!Seed(space, c)
    PROVE  CredInv'
<1>1. /\ entries' = C!store(space, c) /\ raced' = raced \cup C!Racing(space) /\ login' = login
      /\ \A p \in proven : p.space # space \/ p.secret = c => p \in proven'
  BY DEF C!Seed
<1>2. StoreType(entries)' /\ \A e \in Members(entries') : EntryProven(e)'
  BY <1>1, StoringKeeps
<1>3. ASSUME NEW m \in Logins
      PROVE  LoginProven(login[m])'
  <2>1. PICK z : z = login[m]
    OBVIOUS
  <2>2. LoginProven(z) /\ (z.pc = "stored" /\ z.space = space => space \in C!Racing(space))
    BY <2>1, RacingIs DEF CredInv
  <2>3. LoginProven(z)'
    BY <1>1, <2>2, StoringKeepsLogin
  <2> QED BY <1>1, <2>1, <2>3 DEF LoginProven, IsUpfront, Proof, C!directory_of
<1>4. LoginType'
  BY <1>1 DEF CredInv, LoginType
<1> QED BY <1>2, <1>3, <1>4 DEF CredInv

LEMMA AcceptedAtKeeps ==
    ASSUME CredInv, C!SomeRoom, NEW l \in Logins, C!AcceptedAt(l)
    PROVE  CredInv'
<1>1. PICK x : x = login[l] /\ x.pc = "stored"
  BY DEF C!AcceptedAt
<1>2. /\ entries' = C!accepted_at(x.space, x.path) /\ login' = [login EXCEPT ![l] = C!NoLogin]
      /\ proven' = proven /\ raced' = raced
  BY <1>1 DEF C!AcceptedAt
<1>3. /\ LoginType' /\ login'[l] = C!NoLogin
      /\ \A m \in Logins : m # l => login'[m] = login[m]
  BY <1>2, NoLoginIs, OneMoves DEF CredInv
<1>4. /\ StoreType(C!accepted_at(x.space, x.path))
      /\ \A e \in Members(entries') :
            \/ e \in Members(entries) /\ (e.space = x.space => ~IsUpfront(x.space))
            \/ /\ e.space = x.space /\ IsUpfront(x.space)
               /\ \E o \in Members(entries) :
                     /\ o.space = x.space /\ o.credentials = e.credentials
                     /\ Members(e.directories) \subseteq Members(o.directories) \cup {C!directory_of(x.path)}
  BY <1>2, AcceptedIs DEF CredInv, C!SomeRoom, IsUpfront
<1>5. ASSUME NEW e \in Members(entries')
      PROVE  EntryProven(e)'
  <2>1. CASE e \in Members(entries)
    BY <1>2, <2>1 DEF CredInv, EntryProven, Proof
  <2>2. ASSUME e.space = x.space, IsUpfront(x.space), NEW o \in Members(entries),
               o.space = x.space, o.credentials = e.credentials,
               Members(e.directories) \subseteq Members(o.directories) \cup {C!directory_of(x.path)},
               x.space \notin raced
        PROVE  EntryProven(e)'
    <3>1. o.credentials = x.secret /\ Proof(x.space, x.secret, C!directory_of(x.path)) \in proven
      BY <1>1, <2>2 DEF CredInv, LoginProven
    <3>2. \A d \in Members(o.directories) : Proof(x.space, x.secret, d) \in proven
      BY <2>2, <3>1 DEF CredInv, EntryProven, Members
    <3>3. \A n \in DOMAIN e.directories : e.directories[n] \in Members(e.directories)
      BY DEF Members
    <3>4. \A n \in DOMAIN e.directories : Proof(e.space, e.credentials, e.directories[n]) \in proven
      BY <2>2, <3>1, <3>2, <3>3
    <3> QED BY <1>2, <3>4 DEF EntryProven, Proof
  <2>3. CASE e.space = x.space /\ x.space \in raced
    BY <1>2, <2>3 DEF EntryProven
  <2> QED BY <1>4, <2>1, <2>2, <2>3
<1>6. ASSUME NEW m \in Logins
      PROVE  LoginProven(login[m])'
  <2>1. CASE m = l
    BY <1>3, <2>1, NoLoginIs DEF LoginProven
  <2>2. CASE m # l
    <3>1. \A e \in Members(entries') : \E o \in Members(entries) : o.space = e.space /\ o.credentials = e.credentials
      BY <1>4
    <3> QED BY <1>2, <1>3, <2>2, <3>1 DEF CredInv, LoginProven
  <2> QED BY <2>1, <2>2
<1> QED BY <1>2, <1>3, <1>4, <1>5, <1>6 DEF CredInv, StoreType

LEMMA RejectedKeeps ==
    ASSUME CredInv, NEW l \in Logins, C!Rejected(l)
    PROVE  CredInv'
<1>1. PICK space : space = login[l].space
  OBVIOUS
<1>2. /\ entries' = C!Dropped(space) /\ login' = [login EXCEPT ![l] = C!NoLogin]
      /\ proven' = {p \in proven : p.space # space} /\ raced' = raced \ {space}
  BY <1>1 DEF C!Rejected
<1>3. /\ LoginType' /\ login'[l] = C!NoLogin
      /\ \A m \in Logins : m # l => login'[m] = login[m]
  BY <1>2, NoLoginIs, OneMoves DEF CredInv
<1>4. StoreType(C!Dropped(space)) /\ \A e \in Members(entries') : e \in Members(entries) /\ e.space # space
  BY <1>2, DroppedIs DEF CredInv
<1>6. \A e \in Members(entries') : EntryProven(e)'
  <2>1. ASSUME NEW e \in Members(entries')
        PROVE  EntryProven(e)'
    BY <1>2, <1>4 DEF CredInv, EntryProven, Proof
  <2> QED BY <2>1
<1>7. ASSUME NEW m \in Logins
      PROVE  LoginProven(login[m])'
  <2>1. CASE m = l
    BY <1>3, <2>1, NoLoginIs DEF LoginProven
  <2>2. CASE m # l
    <3>1. PICK x : x = login[m] /\ login'[m] = x /\ LoginProven(x)
      BY <1>3, <2>2 DEF CredInv
    <3>2. CASE x.space = space
      BY <1>4, <3>1, <3>2 DEF LoginProven
    <3>3. CASE x.space # space
      <4>1. ASSUME x.pc = "stored", IsUpfront(x.space), x.space \notin raced', NEW e \in Members(entries'), e.space = x.space
            PROVE  e.credentials = x.secret /\ Proof(x.space, x.secret, C!directory_of(x.path)) \in proven'
        <5>1. e \in Members(entries) /\ x.space \notin raced
          BY <1>2, <1>4, <3>3, <4>1
        <5>2. e.credentials = x.secret /\ Proof(x.space, x.secret, C!directory_of(x.path)) \in proven
          BY <3>1, <4>1, <5>1 DEF LoginProven
        <5> QED BY <1>2, <3>3, <5>2 DEF Proof
      <4>2. LoginProven(x)'
        BY <4>1 DEF LoginProven, IsUpfront, Proof, C!directory_of
      <4> QED BY <3>1, <4>2 DEF LoginProven, IsUpfront, Proof, C!directory_of
    <3> QED BY <3>2, <3>3
  <2> QED BY <2>1, <2>2
<1> QED BY <1>2, <1>3, <1>4, <1>6, <1>7 DEF CredInv, StoreType

LEMMA ClearKeeps ==
    ASSUME CredInv, C!Clear
    PROVE  CredInv'
<1>1. entries' = <<>> /\ Members(entries') = {} /\ login' = login
  BY DEF C!Clear, Members
<1>2. StoreType(entries)'
  BY <1>1 DEF StoreType, IsList, Members
<1>3. LoginType' /\ \A l \in Logins : LoginProven(login[l])'
  BY <1>1 DEF CredInv, LoginType, LoginProven
<1> QED BY <1>1, <1>2, <1>3 DEF CredInv

LEMMA CredStep ==
    ASSUME C!SomeRoom, CredInv, [C!CredNext]_(C!credVars)
    PROVE  CredInv'
<1>1. CASE C!CredNext
  <2>1. ASSUME NEW l \in Logins, C!Login(l)
        PROVE  CredInv'
    <3>1. CASE \E r \in Responses : \E path \in Paths, hook \in Hooks : C!Challenged(l, C!parse_challenges(r), path, hook)
      BY <3>1, ChallengedKeeps
    <3>2. CASE C!LetThrough(l)
      BY <3>2, LetThroughKeeps
    <3>3. CASE C!AcceptedAt(l)
      BY <3>3, AcceptedAtKeeps
    <3>4. CASE C!Rejected(l)
      BY <3>4, RejectedKeeps
    <3>5. CASE C!GivenUp(l)
      BY <3>5, OverKeeps DEF C!GivenUp
    <3> QED BY <2>1, <3>1, <3>2, <3>3, <3>4, <3>5 DEF C!Login
  <2>2. ASSUME NEW space, NEW c, C!Seed(space, c)
        PROVE  CredInv'
    BY <2>2, SeedKeeps
  <2> QED BY <1>1, <2>1, <2>2, ClearKeeps DEF C!CredNext
<1>2. CASE UNCHANGED C!credVars
  <2>1. entries' = entries /\ login' = login /\ proven' = proven /\ raced' = raced
    BY <1>2 DEF C!credVars
  <2> QED BY <2>1 DEF CredInv, StoreType, LoginType, EntryProven, LoginProven
<1> QED BY <1>1, <1>2

LEMMA UpfrontHolds ==
    ASSUME CredInv
    PROVE  C!UpfrontWasProven
<1> SUFFICES ASSUME NEW r \in Responses, NEW path \in Paths, NEW e \in C!upfront_for(r.asker, path), e.space \notin raced
             PROVE  \E p \in proven : /\ p.secret = e.credentials /\ p.space = e.space
                                      /\ p.space.origin = r.asker
                                      /\ C!IsPrefix(p.directory, C!directory_of(path))
  BY DEF C!UpfrontWasProven
<1>1. PICK i \in DOMAIN entries : e = entries[i] /\ e.space.origin = r.asker
           /\ \E j \in DOMAIN e.directories : C!IsPrefix(e.directories[j], C!directory_of(path))
  BY DEF C!upfront_for
<1>2. PICK j \in DOMAIN e.directories : C!IsPrefix(e.directories[j], C!directory_of(path))
  BY <1>1
<1>3. Proof(e.space, e.credentials, e.directories[j]) \in proven
  BY <1>1 DEF CredInv, EntryProven, Members
<1> QED BY <1>1, <1>2, <1>3 DEF Proof

\* Credentials go out unasked only to the server that let them in, Basic ones, below a
\* directory where these very credentials were let in and not turned down, replaced or
\* cleared since, but for a space that was stored to between the two calls of a login
\* (auth.rs store, accepted_at, upfront_for, fetch.rs AuthSlot::accepted).
THEOREM UpfrontIsProven ==
    ASSUME C!SomeRoom
    PROVE  C!CredSpec => []UpfrontWasProven
<1>1. C!CredInit => CredInv
  BY CredStart
<1>2. CredInv /\ [C!CredNext]_(C!credVars) => CredInv'
  BY CredStep
<1>3. CredInv => C!UpfrontWasProven
  BY UpfrontHolds
<1> QED BY <1>1, <1>2, <1>3, PTL DEF C!CredSpec, UpfrontWasProven
=============================================================================
