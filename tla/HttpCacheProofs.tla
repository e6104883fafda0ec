-------------------------- MODULE HttpCacheProofs --------------------------
(***************************************************************************)
(* Proofs about HttpCache: for any number of fetches, keys, replies and    *)
(* writes and any budget, what was stored before a write was answered is   *)
(* gone with the answer and comes back only with what was then on its way; *)
(* what is stored under a key was got with the key's own jar, each variant *)
(* by headers of its own; what is answered from the store stands up in true *)
(* time; and the books of the store are kept.                              *)
(*                                                                         *)
(* The argument follows a response from the server to the cache: SrcFits   *)
(* holds of what is behind it from Serve on, while it is on its way as well *)
(* as where it is stored.  It needs that a 304 which answers a revalidation *)
(* names the version the revalidated response shows.  EntryFits adds that  *)
(* an entry never says less of its age than the true age of that response. *)
(* A charge is counted byte by byte, so the laws of sums the books need are *)
(* those of the cardinalities of finite sets.                              *)
(***************************************************************************)
EXTENDS HttpCache, FiniteSetTheorems, WellFoundedInduction, TLAPS

ReqOK(q) == {"method", "url", "jar"} \subseteq DOMAIN q /\ q.url \in Urls /\ q.jar \in Jars

SrcType == [ver: Nat, born: Int, skew: Int, jar: Jars, over: Nat]

\* Of a URL whose last answered write made version w.
SrcFits(src, w, jar) == src \in SrcType /\ src.jar = jar /\ (src.ver < w => w <= src.over)

Cached == {"GET", "HEAD"}

\* A fetch, given the last answered writes and the versions.
FetchOK(g, wr, ve) ==
    /\ g.pc \in {"idle", "behind", "sent", "served", "reading"}
    /\ g.pc # "idle" => ReqOK(g.req)
    /\ g.pc \in {"sent", "served"} => (g.reval # None => g.req.method \in Cached)
    /\ g.pc = "served" =>
          /\ DOMAIN g = {"pc", "req", "reval", "at", "reply", "head", "src"}
          /\ SrcFits(g.src, wr[g.req.url], g.req.jar) /\ g.src.ver <= ve[g.req.url]
          /\ g.reval # None /\ g.reply.status = 304 => g.reval.src.ver = g.src.ver
    /\ g.pc = "reading" =>
          /\ DOMAIN g = {"pc", "req", "src", "entry"}
          /\ SrcFits(g.src, wr[g.req.url], g.req.jar) /\ g.req.method \in Cached

IsList(l) == l \in Seq({l[n] : n \in DOMAIN l})

Selected(e) == <<e.vary, e.decoded>>

\* The variants under a key.
VariantsOK(l, w, jar) ==
    /\ IsList(l)
    /\ \A n \in DOMAIN l : SrcFits(l[n].src, w, jar)
    /\ \A m, n \in DOMAIN l : m # n => Selected(l[m].entry) # Selected(l[n].entry)

KeysOK(ks, wr) == DOMAIN ks = Keys /\ \A k \in Keys : VariantsOK(ks[k], wr[k.url], k.jar)

CacheInv ==
    /\ now \in Nat
    /\ version \in [Urls -> Nat] /\ written \in [Urls -> Nat] /\ \A u \in Urls : written[u] <= version[u]
    /\ KeysOK(keys, written)
    /\ DOMAIN fetch = Fetches /\ \A f \in Fetches : FetchOK(fetch[f], written, version)

-----------------------------------------------------------------------------
(* Lists of variants.                                                      *)

LEMMA NoVariants == ASSUME NEW w, NEW jar PROVE VariantsOK(<<>>, w, jar)
  BY DEF VariantsOK, IsList

LEMMA Appended ==
    ASSUME NEW l, NEW w, NEW jar, VariantsOK(l, w, jar), NEW x, SrcFits(x.src, w, jar),
           \A n \in DOMAIN l : Selected(l[n].entry) # Selected(x.entry)
    PROVE  VariantsOK(Append(l, x), w, jar)
<1>1. PICK S : S = {l[n] : n \in DOMAIN l} /\ l \in Seq(S)
  BY DEF VariantsOK, IsList
<1>2. PICK a : a = Append(l, x)
  OBVIOUS
<1>3. Len(l) \in Nat /\ DOMAIN l = 1..Len(l) /\ DOMAIN a = 1..(Len(l) + 1) /\ a[Len(l) + 1] = x
      /\ \A n \in DOMAIN l : a[n] = l[n]
  BY <1>1, <1>2
<1>4. \A n \in DOMAIN a : (n \in DOMAIN l /\ a[n] = l[n]) \/ (n = Len(l) + 1 /\ a[n] = x)
  BY <1>3
<1>5. IsList(a)
  <2>1. a = [n \in 1..(Len(l) + 1) |-> a[n]]
    <3>1. l \in Seq(S \cup {x})
      BY <1>1
    <3>2. a \in Seq(S \cup {x})
      BY <1>2, <3>1
    <3> QED
      BY <1>3, <3>2
  <2>2. \A n \in 1..(Len(l) + 1) : a[n] \in {a[m] : m \in DOMAIN a}
    BY <1>3
  <2> QED
    BY <1>3, <2>1, <2>2 DEF IsList
<1>6. \A n \in DOMAIN a : SrcFits(a[n].src, w, jar)
  BY <1>4 DEF VariantsOK
<1>7. ASSUME NEW m \in DOMAIN a, NEW n \in DOMAIN a, m # n PROVE Selected(a[m].entry) # Selected(a[n].entry)
  BY <1>4, <1>7 DEF VariantsOK
<1> QED
  BY <1>2, <1>5, <1>6, <1>7 DEF VariantsOK

LEMMA Replaced ==
    ASSUME NEW l, NEW w, NEW jar, VariantsOK(l, w, jar), NEW x, SrcFits(x.src, w, jar),
           NEW p \in DOMAIN l, Selected(l[p].entry) = Selected(x.entry)
    PROVE  VariantsOK([l EXCEPT ![p] = x], w, jar)
<1>1. PICK S : S = {l[n] : n \in DOMAIN l} /\ l \in Seq(S)
  BY DEF VariantsOK, IsList
<1>2. PICK a : a = [l EXCEPT ![p] = x]
  OBVIOUS
<1>3. Len(l) \in Nat /\ DOMAIN l = 1..Len(l) /\ DOMAIN a = 1..Len(l) /\ a[p] = x
      /\ \A n \in DOMAIN l : n # p => a[n] = l[n]
  BY <1>1, <1>2
<1>4. IsList(a)
  <2>1. a = [n \in 1..Len(l) |-> a[n]]
    BY <1>1, <1>2, <1>3
  <2>2. \A n \in 1..Len(l) : a[n] \in {a[m] : m \in DOMAIN a}
    BY <1>3
  <2> QED
    BY <1>3, <2>1, <2>2 DEF IsList
<1>5. \A n \in DOMAIN a : SrcFits(a[n].src, w, jar)
  BY <1>3 DEF VariantsOK
<1>6. ASSUME NEW m \in DOMAIN a, NEW n \in DOMAIN a, m # n PROVE Selected(a[m].entry) # Selected(a[n].entry)
  BY <1>3, <1>6 DEF VariantsOK
<1> QED
  BY <1>2, <1>4, <1>5, <1>6 DEF VariantsOK

-----------------------------------------------------------------------------
(* The operations of the cache.                                            *)

\* Whatever the budget, a key keeps what it has or loses it all.
LEMMA EvictDoes ==
    ASSUME NEW ks, NEW order, NEW total, evict(ks, order, total)
    PROVE  DOMAIN keys' = Keys /\ \A k \in Keys : keys'[k] = <<>> \/ keys'[k] = ks[k]
  BY DEF evict

LEMMA EvictKeeps ==
    ASSUME NEW ks, NEW order, NEW total, NEW wr, evict(ks, order, total), KeysOK(ks, wr)
    PROVE  KeysOK(keys', wr)
  BY EvictDoes, NoVariants DEF KeysOK

LEMMA PutKeeps ==
    ASSUME NEW wr, KeysOK(keys, wr), NEW k \in Keys, NEW e, NEW src, SrcFits(src, wr[k.url], k.jar),
           put(k, e, src)
    PROVE  KeysOK(keys', wr)
<1>1. PICK stored : stored = [entry |-> e, charged |-> charge(e), src |-> src]
  OBVIOUS
<1>2. stored.entry = e /\ stored.src = src
  BY <1>1
<1>3. PICK same : same = {n \in DOMAIN keys[k] : /\ keys[k][n].entry.vary = e.vary
                                                /\ keys[k][n].entry.decoded = e.decoded}
  OBVIOUS
<1>4. VariantsOK(keys[k], wr[k.url], k.jar) /\ DOMAIN keys = Keys
  BY DEF KeysOK
<1>5. CASE e.length > MaxEntryBytes
  BY <1>5 DEF put
<1>6. CASE ~(e.length > MaxEntryBytes) /\ same # {}
  <2>1. PICK p : p = CHOOSE n \in same : TRUE
    OBVIOUS
  <2>2. p \in same
    BY <1>6, <2>1
  <2>3. \E order, total : evict([keys EXCEPT ![k][p] = stored], order, total)
    BY <1>1, <1>3, <1>6, <2>1 DEF put
  <2>4. VariantsOK([keys[k] EXCEPT ![p] = stored], wr[k.url], k.jar)
    BY <1>2, <1>3, <1>4, <2>2, Replaced DEF Selected
  <2>5. KeysOK([keys EXCEPT ![k][p] = stored], wr)
    BY <1>4, <2>4 DEF KeysOK
  <2> QED
    BY <2>3, <2>5, EvictKeeps
<1>7. CASE ~(e.length > MaxEntryBytes) /\ same = {}
  <2>1. \E order, total : evict([keys EXCEPT ![k] = Append(@, stored)], order, total)
    BY <1>1, <1>3, <1>7 DEF put
  <2>2. VariantsOK(Append(keys[k], stored), wr[k.url], k.jar)
    <3>1. \A n \in DOMAIN keys[k] : Selected(keys[k][n].entry) # Selected(stored.entry)
      BY <1>2, <1>3, <1>7 DEF Selected
    <3> QED
      BY <1>2, <1>4, <3>1, Appended
  <2>3. KeysOK([keys EXCEPT ![k] = Append(@, stored)], wr)
    BY <1>4, <2>2 DEF KeysOK
  <2> QED
    BY <2>1, <2>3, EvictKeeps
<1> QED
  BY <1>5, <1>6, <1>7

LEMMA InvalidateDoes ==
    ASSUME NEW order, NEW targets, invalidate(order, targets)
    PROVE  /\ DOMAIN keys' = Keys
           /\ \A k \in Keys : /\ keys'[k] = <<>> \/ keys'[k] = keys[k]
                              /\ <<k.method, k.url>> \in targets => keys'[k] = <<>>
  BY DEF invalidate

LEMMA InvalidateKeeps ==
    ASSUME NEW order, NEW targets, NEW wr, invalidate(order, targets), KeysOK(keys, wr)
    PROVE  KeysOK(keys', wr)
  BY InvalidateDoes, NoVariants DEF KeysOK

-----------------------------------------------------------------------------
(* The steps of a fetch.                                                   *)

\* Only a request that has a key is answered with, or revalidates, what is stored.
LEMMA LookupNeedsKey ==
    ASSUME NEW q, lookup(q).kind = "Revalidate" PROVE KeyFor(q) \in Keys
<1> SUFFICES ASSUME KeyFor(q) \notin Keys PROVE FALSE
  OBVIOUS
<1>1. PICK d : d = decide(<<>>, q, now)
  OBVIOUS
<1>2. d.kind \in {"Send", "NotCached"}
  BY <1>1 DEF decide, Decision
<1>3. lookup(q) = IF q.background THEN d ELSE revalidated(d)
  BY <1>1 DEF lookup
<1>4. revalidated(d) = d
  BY <1>2 DEF revalidated
<1> QED
  BY <1>2, <1>3, <1>4

LEMMA KeyIsCached ==
    ASSUME NEW q, ReqOK(q) PROVE KeyFor(q) \in Keys <=> q.method \in Cached
  BY DEF ReqOK, KeyFor, Keys, Cached

LEMMA KeyFields ==
    ASSUME NEW q PROVE KeyFor(q).url = q.url /\ KeyFor(q).jar = q.jar /\ KeyFor(q).method = q.method
  BY DEF KeyFor

\* A step that changes the fetch f alone.
LEMMA OneFetch ==
    ASSUME CacheInv, NEW f \in Fetches, NEW g, fetch' = [fetch EXCEPT ![f] = g],
           FetchOK(g, written, version), UNCHANGED <<version, written>>,
           now' \in Nat, KeysOK(keys', written)
    PROVE  CacheInv'
<1>1. DOMAIN fetch' = Fetches /\ \A h \in Fetches : FetchOK(fetch'[h], written, version)
  BY DEF CacheInv
<1> QED
  BY <1>1 DEF CacheInv

LEMMA IdleOK == ASSUME NEW wr, NEW ve PROVE FetchOK(Idle, wr, ve)
  BY DEF FetchOK, Idle

LEMMA StepConsult ==
    ASSUME CacheInv, NEW f \in Fetches, NEW q, ReqOK(q), consult_cache(f, q) PROVE CacheInv'
<1>1. UNCHANGED <<now, keys, bytes, version, written>>
  BY DEF consult_cache
<1>2. PICK g : fetch' = [fetch EXCEPT ![f] = g]
               /\ g = (CASE lookup(q).kind \in {"Use", "NotCached"} -> Idle
                         [] lookup(q).kind = "UseStale" ->
                              [pc |-> "behind", req |-> [q EXCEPT !.mode = "NoCache", !.background = FALSE]]
                         [] lookup(q).kind = "Revalidate" -> Sent(q, Behind(KeyFor(q), lookup(q).entry))
                         [] lookup(q).kind = "Send" -> Sent(q, None))
  BY DEF consult_cache
<1>3. PICK d : d = lookup(q)
  OBVIOUS
<1>4. FetchOK(g, written, version)
  <2>1. CASE d.kind \in {"Use", "NotCached"}
    BY <1>2, <1>3, <2>1, IdleOK
  <2>2. CASE d.kind = "UseStale"
    <3>1. PICK b : b = [q EXCEPT !.mode = "NoCache", !.background = FALSE]
      OBVIOUS
    <3>2. ReqOK(b)
      BY <3>1 DEF ReqOK
    <3>3. g = [pc |-> "behind", req |-> b]
      BY <1>2, <1>3, <2>2, <3>1
    <3> QED
      BY <3>2, <3>3 DEF FetchOK
  <2>3. CASE d.kind = "Revalidate"
    <3>1. q.method \in Cached
      BY <1>3, <2>3, LookupNeedsKey, KeyIsCached
    <3>2. g = Sent(q, Behind(KeyFor(q), d.entry))
      BY <1>2, <1>3, <2>3
    <3> QED
      BY <3>1, <3>2 DEF FetchOK, Sent
  <2>4. CASE d.kind = "Send"
    <3>1. g = Sent(q, None)
      BY <1>2, <1>3, <2>4
    <3> QED
      BY <3>1 DEF FetchOK, Sent
  <2>5. d.kind \in {"Use", "UseStale", "NotCached", "Revalidate", "Send"}
    <3>1. PICK es, x : x = decide(es, q, now) /\ d = IF q.background THEN x ELSE revalidated(x)
      BY <1>3 DEF lookup
    <3>2. \A e : revalidate(e).kind \in {"Revalidate", "Send"}
      BY DEF revalidate, Decision
    <3>3. x.kind \in {"Use", "UseStale", "NotCached", "Revalidate", "Send"}
      BY <3>1, <3>2 DEF decide, Decision
    <3> QED
      BY <3>1, <3>2, <3>3 DEF revalidated
  <2> QED
    BY <2>1, <2>2, <2>3, <2>4, <2>5
<1> QED
  BY <1>1, <1>2, <1>4, OneFetch DEF CacheInv

\* What the server answers is at least as new as the last write it has answered.
LEMMA StepServe == ASSUME CacheInv, NEW f \in Fetches, Serve(f) PROVE CacheInv'
<1>1. PICK q, u : q = fetch[f].req /\ u = q.url
  OBVIOUS
<1>2. fetch[f].pc = "sent" /\ UNCHANGED <<now, keys, written>>
  BY DEF Serve
<1>3. PICK p \in Replies :
        /\ p.status = 304 => IF fetch[f].reval = None THEN q.asks = "condition"
                             ELSE fetch[f].reval.src.ver = version[u]
        /\ IF invalidates(q.method) /\ p.status < 400
             THEN version[u] < MaxVersion /\ version' = [version EXCEPT ![u] = @ + 1]
             ELSE UNCHANGED version
        /\ fetch' = [fetch EXCEPT ![f] =
              [pc |-> "served", req |-> q, reval |-> @.reval, at |-> @.at,
               reply |-> p, head |-> Stamped(p, u),
               src |-> [ver |-> version'[u], born |-> now - p.told, skew |-> p.skew,
                        jar |-> q.jar, over |-> 0]]]
  BY <1>1, ZenonT(40) DEF Serve
<1>4. FetchOK(fetch[f], written, version) /\ now \in Nat /\ version \in [Urls -> Nat] /\ written \in [Urls -> Nat]
      /\ (\A v \in Urls : written[v] <= version[v]) /\ DOMAIN fetch = Fetches /\ KeysOK(keys, written)
  BY DEF CacheInv
<1>5. ReqOK(q) /\ u \in Urls /\ q.jar \in Jars /\ (fetch[f].reval # None => q.method \in Cached)
  BY <1>1, <1>2, <1>4 DEF FetchOK, ReqOK
<1>6. p.told \in Nat /\ p.skew \in Int
  BY CacheAssumption DEF CacheAssumption
<1>7. version' \in [Urls -> Nat] /\ \A v \in Urls : version[v] <= version'[v]
  BY <1>3, <1>4, <1>5
<1>8. PICK src : src = [ver |-> version'[u], born |-> now - p.told, skew |-> p.skew, jar |-> q.jar, over |-> 0]
  OBVIOUS
<1>9. SrcFits(src, written[u], q.jar) /\ src.ver = version'[u]
  <2>1. src \in SrcType /\ src.ver = version'[u] /\ src.jar = q.jar
    BY <1>4, <1>5, <1>6, <1>7, <1>8 DEF SrcType
  <2>2. version[u] \in Nat /\ version'[u] \in Nat /\ written[u] \in Nat /\ written[u] <= version[u] /\ version[u] <= version'[u]
    BY <1>4, <1>5, <1>7
  <2> QED
    BY <2>1, <2>2 DEF SrcFits
<1>10. PICK g : g = [pc |-> "served", req |-> q, reval |-> fetch[f].reval, at |-> fetch[f].at,
                     reply |-> p, head |-> Stamped(p, u), src |-> src]
                /\ fetch' = [fetch EXCEPT ![f] = g]
  BY <1>3, <1>8
<1>11. FetchOK(g, written, version')
  <2>1. /\ g.pc = "served" /\ g.req = q /\ g.reval = fetch[f].reval /\ g.reply = p /\ g.src = src
        /\ DOMAIN g = {"pc", "req", "reval", "at", "reply", "head", "src"}
    BY <1>10
  <2>2. ASSUME g.reval # None, p.status = 304 PROVE g.reval.src.ver = src.ver
    <3>1. ~invalidates(q.method)
      BY <1>5, <2>1, <2>2 DEF invalidates, Cached
    <3> QED
      BY <1>3, <1>9, <2>1, <2>2, <3>1
  <2>3. version'[u] \in Nat
    BY <1>5, <1>7
  <2> QED
    BY <1>1, <1>5, <1>9, <2>1, <2>2, <2>3 DEF FetchOK
<1>12. ASSUME NEW h \in Fetches PROVE FetchOK(fetch'[h], written, version')
  <2>1. CASE h = f
    BY <1>4, <1>10, <1>11, <2>1
  <2>2. CASE h # f
    <3>1. fetch'[h] = fetch[h]
      BY <1>10, <2>2
    <3>2. FetchOK(fetch[h], written, version)
      BY DEF CacheInv
    <3>3. fetch[h].pc = "served" => fetch[h].src.ver <= version'[fetch[h].req.url]
      <4>1. ASSUME fetch[h].pc = "served" PROVE fetch[h].src.ver <= version'[fetch[h].req.url]
        <5>1. /\ fetch[h].src.ver \in Nat /\ fetch[h].req.url \in Urls
              /\ fetch[h].src.ver <= version[fetch[h].req.url]
          BY <3>2, <4>1 DEF FetchOK, SrcFits, SrcType, ReqOK
        <5>2. version[fetch[h].req.url] \in Nat /\ version'[fetch[h].req.url] \in Nat
              /\ version[fetch[h].req.url] <= version'[fetch[h].req.url]
          BY <1>4, <1>7, <5>1
        <5> QED
          BY <5>1, <5>2
      <4> QED
        BY <4>1
    <3> QED
      BY <3>1, <3>2, <3>3 DEF FetchOK
  <2> QED
    BY <2>1, <2>2
<1>13. \A v \in Urls : written[v] <= version'[v]
  BY <1>4, <1>7
<1>14. DOMAIN fetch' = Fetches
  BY <1>4, <1>10
<1> QED
  BY <1>2, <1>4, <1>7, <1>12, <1>13, <1>14 DEF CacheInv

LEMMA StepContradicted == ASSUME CacheInv, NEW f \in Fetches, Contradicted(f) PROVE CacheInv'
<1>1. /\ fetch[f].pc = "served" /\ fetch' = [fetch EXCEPT ![f] = Sent(fetch[f].req, None)]
      /\ invalidate(lru, {<<fetch[f].req.method, fetch[f].req.url>>}) /\ UNCHANGED <<now, version, written>>
  BY DEF Contradicted, Answering304
<1>2. FetchOK(fetch[f], written, version) /\ KeysOK(keys, written) /\ now \in Nat
  BY DEF CacheInv
<1>3. FetchOK(Sent(fetch[f].req, None), written, version)
  BY <1>1, <1>2 DEF FetchOK, Sent
<1>4. KeysOK(keys', written)
  BY <1>1, <1>2, InvalidateKeeps
<1> QED
  BY <1>1, <1>2, <1>3, <1>4, OneFetch

LEMMA StepValidated == ASSUME CacheInv, NEW f \in Fetches, Validated(f) PROVE CacheInv'
<1>1. /\ fetch[f].pc = "served" /\ fetch[f].reply.status = 304 /\ fetch[f].reval # None
      /\ fetch' = [fetch EXCEPT ![f] = Idle] /\ UNCHANGED <<now, version, written>>
  BY DEF Validated, Answering304
<1>2. PICK g : g = fetch[f]
  OBVIOUS
<1>3. FetchOK(g, written, version) /\ KeysOK(keys, written) /\ now \in Nat
  BY <1>2 DEF CacheInv
<1>4. /\ SrcFits(g.src, written[g.req.url], g.req.jar) /\ g.reval.src.ver = g.src.ver
      /\ ReqOK(g.req) /\ g.req.method \in Cached
  BY <1>1, <1>2, <1>3 DEF FetchOK
<1>5. [g.src EXCEPT !.ver = g.reval.src.ver] = g.src
  <2>1. g.src \in SrcType
    BY <1>4 DEF SrcFits
  <2> QED
    BY <1>4, <2>1 DEF SrcType
<1>6. \E e : put(KeyFor(g.req), e, g.src)
  BY <1>2, <1>5 DEF Validated
<1>7. KeysOK(keys', written)
  BY <1>3, <1>4, <1>6, KeyIsCached, KeyFields, PutKeeps
<1>8. fetch' = [fetch EXCEPT ![f] = Idle] /\ UNCHANGED <<now, version, written>>
  BY <1>1
<1> QED
  BY <1>3, <1>7, <1>8, IdleOK, OneFetch

\* A response that is stored: at once, or when its body is in.
LEMMA StepStore ==
    ASSUME CacheInv, NEW f \in Fetches, ReceivedRedirect(f) \/ commit(f) PROVE CacheInv'
<1>1. PICK g : g = fetch[f]
  OBVIOUS
<1>2. FetchOK(g, written, version) /\ KeysOK(keys, written) /\ now \in Nat
  BY <1>1 DEF CacheInv
<1>3. /\ \E e : put(KeyFor(g.req), e, g.src)
      /\ fetch' = [fetch EXCEPT ![f] = Idle] /\ UNCHANGED <<now, version, written>>
  BY <1>1 DEF ReceivedRedirect, commit
<1>4. SrcFits(g.src, written[g.req.url], g.req.jar) /\ ReqOK(g.req) /\ g.req.method \in Cached
  <2>1. CASE ReceivedRedirect(f)
    BY <1>1, <1>2, <2>1 DEF ReceivedRedirect, pending_store, is_storable, FetchOK, Cached
  <2>2. CASE commit(f)
    BY <1>1, <1>2, <2>2 DEF commit, FetchOK
  <2> QED
    BY <2>1, <2>2
<1>5. KeysOK(keys', written)
  BY <1>2, <1>3, <1>4, KeyIsCached, KeyFields, PutKeeps
<1> QED
  BY <1>2, <1>3, <1>5, IdleOK, OneFetch

LEMMA StepReceivedStorable == ASSUME CacheInv, NEW f \in Fetches, ReceivedStorable(f) PROVE CacheInv'
<1>1. PICK g : g = fetch[f]
  OBVIOUS
<1>2. FetchOK(g, written, version) /\ KeysOK(keys, written) /\ now \in Nat
  BY <1>1 DEF CacheInv
<1>3. fetch[f].pc = "served" /\ g.req.method \in Cached /\ invalidate_cache(f) /\ UNCHANGED <<now, version>>
  BY <1>1 DEF ReceivedStorable, pending_store, is_storable, Cached
<1>4. InvalidatedUrls(f) = {}
  BY <1>1, <1>3 DEF InvalidatedUrls, invalidates, Cached
<1>5. written' = written /\ \E order, targets : invalidate(order, targets)
  <2>1. CASE HeadArrived(f)
    BY <1>3, <2>1 DEF invalidate_cache
  <2>2. CASE ~HeadArrived(f)
    <3>1. written' = [u \in Urls |-> written[u]] /\ \E order, targets : invalidate(order, targets)
      BY <1>3, <1>4, <2>2 DEF invalidate_cache
    <3> QED
      BY <3>1 DEF CacheInv
  <2> QED
    BY <2>1, <2>2
<1>6. PICK e : fetch' = [fetch EXCEPT ![f] = [pc |-> "reading", req |-> g.req, src |-> g.src, entry |-> e]]
  BY <1>1 DEF ReceivedStorable
<1>7. FetchOK([pc |-> "reading", req |-> g.req, src |-> g.src, entry |-> e], written, version)
  BY <1>1, <1>2, <1>3 DEF FetchOK
<1>8. KeysOK(keys', written)
  BY <1>2, <1>5, InvalidateKeeps
<1> QED
  BY <1>2, <1>3, <1>5, <1>6, <1>7, <1>8, OneFetch

\* The answer of a write: what is stored of its URL goes, what is on its way is overtaken.
LEMMA StepReceived == ASSUME CacheInv, NEW f \in Fetches, Received(f) PROVE CacheInv'
<1>1. PICK g, u : g = fetch[f] /\ u = g.req.url
  OBVIOUS
<1>2. FetchOK(g, written, version) /\ KeysOK(keys, written) /\ now \in Nat /\ DOMAIN fetch = Fetches
      /\ version \in [Urls -> Nat] /\ written \in [Urls -> Nat] /\ \A v \in Urls : written[v] <= version[v]
  BY <1>1 DEF CacheInv
<1>3. g.pc = "served" /\ invalidate_cache(f) /\ UNCHANGED <<now, version>>
      /\ fetch' = [IF InvalidatedUrls(f) # {} THEN Overtaken(f) ELSE fetch EXCEPT ![f] = Idle]
  BY <1>1 DEF Received
<1>4. u \in Urls /\ g.src.ver \in Nat /\ g.src.ver <= version[u]
  BY <1>1, <1>2, <1>3 DEF FetchOK, ReqOK, SrcFits, SrcType
<1>5. CASE InvalidatedUrls(f) = {}
  <2>1. written' = written /\ \E order, targets : invalidate(order, targets)
    <3>1. CASE HeadArrived(f)
      BY <1>3, <3>1 DEF invalidate_cache
    <3>2. CASE ~HeadArrived(f)
      <4>1. written' = [v \in Urls |-> written[v]] /\ \E order, targets : invalidate(order, targets)
        BY <1>3, <1>5, <3>2 DEF invalidate_cache
      <4> QED
        BY <1>2, <4>1
    <3> QED
      BY <3>1, <3>2
  <2>2. KeysOK(keys', written)
    BY <1>2, <2>1, InvalidateKeeps
  <2>3. fetch' = [fetch EXCEPT ![f] = Idle]
    BY <1>3, <1>5
  <2>4. UNCHANGED <<version, written>> /\ now' \in Nat
    BY <1>2, <1>3, <2>1
  <2> QED
    BY <2>2, <2>3, <2>4, IdleOK, OneFetch
<1>6. CASE InvalidatedUrls(f) # {}
  <2>1. u \in InvalidatedUrls(f) /\ invalidates(g.req.method)
    BY <1>1, <1>6 DEF InvalidatedUrls
  <2>2. ~HeadArrived(f)
    BY <1>1, <2>1 DEF HeadArrived, invalidates
  <2>3. /\ invalidate(lru, {"GET", "HEAD"} \X InvalidatedUrls(f))
        /\ written' = [v \in Urls |-> IF v = u THEN Larger(written[v], g.src.ver) ELSE written[v]]
    BY <1>1, <1>3, <1>6, <2>2 DEF invalidate_cache
  <2>4. PICK w \in Nat : w = Larger(written[u], g.src.ver) /\ w <= version[u] /\ w = written'[u]
    BY <1>2, <1>4, <2>3 DEF Larger
  <2>5. written' \in [Urls -> Nat] /\ (\A v \in Urls : v # u => written'[v] = written[v])
        /\ \A v \in Urls : written'[v] <= version[v]
    BY <1>2, <1>4, <2>3, <2>4
  <2>6. KeysOK(keys', written')
    <3>1. DOMAIN keys' = Keys /\ \A k \in Keys : keys'[k] = <<>> \/ keys'[k] = keys[k]
      BY <2>3, InvalidateDoes
    <3>2. ASSUME NEW k \in Keys PROVE VariantsOK(keys'[k], written'[k.url], k.jar)
      <4>0. k.url \in Urls /\ k.method \in {"GET", "HEAD"}
        BY DEF Keys
      <4>1. CASE k.url = u
        <5>1. <<k.method, k.url>> \in {"GET", "HEAD"} \X InvalidatedUrls(f)
          BY <2>1, <4>0, <4>1
        <5>2. keys'[k] = <<>>
          BY <2>3, <5>1, InvalidateDoes
        <5> QED
          BY <5>2, NoVariants
      <4>2. CASE k.url # u
        BY <1>2, <2>5, <3>1, <4>0, <4>2, NoVariants DEF KeysOK
      <4> QED
        BY <4>1, <4>2
    <3> QED
      BY <3>1, <3>2 DEF KeysOK
  <2>7. DOMAIN fetch' = Fetches /\ fetch'[f] = Idle /\ \A h \in Fetches : h # f => fetch'[h] = Overtaken(f)[h]
    BY <1>3, <1>6 DEF Overtaken
  <2>8. ASSUME NEW h \in Fetches PROVE FetchOK(fetch'[h], written', version)
    <3>1. CASE h = f
      BY <2>7, <3>1, IdleOK
    <3>2. CASE h # f
      <4>1. PICK x : x = fetch[h] /\ FetchOK(x, written, version)
        BY DEF CacheInv
      <4>2. fetch'[h] = IF x.pc \in {"served", "reading"} /\ x.req.url = u
                          THEN [x EXCEPT !.src.over = Larger(@, g.src.ver)] ELSE x
        BY <1>1, <2>7, <3>2, <4>1 DEF Overtaken
      <4>3. CASE x.pc \in {"served", "reading"} /\ x.req.url = u
        <5>1. /\ SrcFits(x.src, written[u], x.req.jar) /\ "src" \in DOMAIN x
              /\ x.src \in SrcType /\ x.src.over \in Nat /\ x.src.ver \in Nat
          BY <4>1, <4>3 DEF FetchOK, SrcFits, SrcType
        <5>2. PICK o \in Nat : o = Larger(x.src.over, g.src.ver) /\ x.src.over <= o /\ g.src.ver <= o
          BY <1>4, <5>1 DEF Larger
        <5>3. PICK s : s = [x.src EXCEPT !.over = o]
          OBVIOUS
        <5>4. s \in SrcType /\ s.over = o /\ s.ver = x.src.ver /\ s.jar = x.src.jar
          BY <5>1, <5>3 DEF SrcType
        <5>5. SrcFits(s, w, x.req.jar)
          <6>1. written[u] \in Nat /\ (x.src.ver < written[u] => written[u] <= x.src.over) /\ x.src.jar = x.req.jar
            BY <1>2, <1>4, <5>1 DEF SrcFits
          <6> QED
            BY <1>4, <2>4, <5>1, <5>2, <5>4, <6>1 DEF SrcFits, Larger
        <5>6. PICK y : y = [x EXCEPT !.src = s] /\ fetch'[h] = y
          <6>1. fetch'[h] = [x EXCEPT !.src.over = Larger(@, g.src.ver)]
            BY <4>2, <4>3
          <6>2. fetch'[h] = [x EXCEPT !.src = [x.src EXCEPT !.over = Larger(x.src.over, g.src.ver)]]
            BY <6>1
          <6> QED
            BY <5>2, <5>3, <6>2
        <5>7. /\ y.pc = x.pc /\ y.req = x.req /\ y.src = s /\ DOMAIN y = DOMAIN x
              /\ x.pc = "served" => y.reval = x.reval /\ y.reply = x.reply
          BY <4>1, <4>3, <5>1, <5>6 DEF FetchOK
        <5> QED
          BY <2>4, <4>1, <4>3, <5>4, <5>5, <5>6, <5>7 DEF FetchOK
      <4>4. CASE ~(x.pc \in {"served", "reading"} /\ x.req.url = u)
        <5>1. fetch'[h] = x
          BY <4>2, <4>4
        <5>2. x.pc \in {"served", "reading"} => x.req.url \in Urls /\ written'[x.req.url] = written[x.req.url]
          BY <2>5, <4>1, <4>4 DEF FetchOK, ReqOK
        <5> QED
          BY <4>1, <5>1, <5>2 DEF FetchOK
      <4> QED
        BY <4>3, <4>4
    <3> QED
      BY <3>1, <3>2
  <2> QED
    BY <1>2, <1>3, <2>5, <2>6, <2>7, <2>8 DEF CacheInv
<1> QED
  BY <1>5, <1>6

LEMMA InitCache == Init => CacheInv
<1> SUFFICES ASSUME Init PROVE CacheInv
  OBVIOUS
<1>1. KeysOK(keys, written)
  BY NoVariants DEF Init, KeysOK
<1>2. \A f \in Fetches : fetch[f] = Idle
  BY DEF Init
<1> QED
  BY <1>1, <1>2, IdleOK DEF Init, CacheInv

LEMMA StepCache == CacheInv /\ [Next]_vars => CacheInv'
<1> SUFFICES ASSUME CacheInv, [Next]_vars PROVE CacheInv'
  OBVIOUS
<1>1. ASSUME NEW f \in Fetches, Ask(f) PROVE CacheInv'
  <2>1. PICK q \in Requests : consult_cache(f, q)
    BY <1>1 DEF Ask
  <2>2. ReqOK(q)
    BY CacheAssumption DEF CacheAssumption, ReqOK
  <2> QED
    BY <2>1, <2>2, StepConsult
<1>2. ASSUME NEW f \in Fetches, RevalidateBehind(f) PROVE CacheInv'
  <2>1. fetch[f].pc = "behind" /\ consult_cache(f, fetch[f].req)
    BY <1>2 DEF RevalidateBehind
  <2>2. ReqOK(fetch[f].req)
    BY <2>1 DEF CacheInv, FetchOK
  <2> QED
    BY <2>1, <2>2, StepConsult
<1>3. ASSUME NEW f \in Fetches, Drop(f) PROVE CacheInv'
  <2>1. fetch' = [fetch EXCEPT ![f] = Idle] /\ UNCHANGED <<now, keys, version, written>>
    BY <1>3 DEF Drop
  <2> QED
    BY <2>1, IdleOK, OneFetch DEF CacheInv
<1>4. CASE Tick
  <2>1. now' \in Nat /\ UNCHANGED <<keys, version, written, fetch>>
    BY <1>4 DEF Tick, CacheInv
  <2> QED
    BY <2>1 DEF CacheInv
<1>5. CASE clear
  <2>1. keys' = [k \in Keys |-> <<>>] /\ UNCHANGED <<now, version, written, fetch>>
    BY <1>5 DEF clear
  <2>2. KeysOK(keys', written)
    BY <2>1, NoVariants DEF KeysOK
  <2> QED
    BY <2>1, <2>2 DEF CacheInv
<1>6. CASE UNCHANGED vars
  BY <1>6 DEF vars, CacheInv
<1> QED
  BY <1>1, <1>2, <1>3, <1>4, <1>5, <1>6, StepServe, StepContradicted, StepValidated, StepStore,
     StepReceivedStorable, StepReceived DEF Next

LEMMA CacheInvariant == Spec => []CacheInv
  BY InitCache, StepCache, PTL DEF Spec

-----------------------------------------------------------------------------
(* What the invariant gives.                                               *)

\* Once a write has been answered, nothing stored by then of the versions before it is left
\* in any partition; such a version is stored later only if it was on its way when the
\* answer came.  A revalidation that the write crossed cannot bring it back either
\* (invalidate_cache, pending_store, CacheCollector::commit).
THEOREM OldIsOvertaken == Spec => []OldWasOvertaken
<1>1. ASSUME CacheInv PROVE OldWasOvertaken
  BY <1>1 DEF CacheInv, KeysOK, VariantsOK, SrcFits, OldWasOvertaken, StoredUnder
<1> QED
  BY CacheInvariant, <1>1, PTL

\* What is stored under a key was got with the cookies of the key's own jar, over
\* revalidations and redirects too; and no two variants have the same list of selecting
\* headers, in its order, with its repeats (CacheKey, InMemoryHttpCache::put).
Partitioned ==
    \A k \in Keys :
        /\ \A s \in StoredUnder(k) : s.src.jar = k.jar
        /\ \A m, n \in DOMAIN keys[k] : m # n => Selected(keys[k][m].entry) # Selected(keys[k][n].entry)

\* No jar is answered with what another jar's cookies bought, for any requests and replies.
THEOREM JarsApart == Spec => []Partitioned
<1>1. ASSUME CacheInv PROVE Partitioned
  BY <1>1 DEF CacheInv, KeysOK, VariantsOK, SrcFits, Partitioned, StoredUnder
<1> QED
  BY CacheInvariant, <1>1, PTL
-----------------------------------------------------------------------------
(* Greatest and least members.                                             *)

Less == {p \in Nat \X Nat : p[1] < p[2]}

\* Every set of numbers that is not empty has a least member.
LEMMA Least ==
    ASSUME NEW T, T \subseteq Nat, T # {}
    PROVE  \E x \in T : \A y \in T : x <= y
<1>1. IsWellFoundedOn(Less, Nat)
  BY NatLessThanWellFounded DEF OpToRel, Less
<1>2. PICK x \in T : \A y \in T : ~(<<y, x>> \in Less)
  BY <1>1, WFMin
<1>3. ASSUME NEW y \in T PROVE x <= y
  <2>1. <<y, x>> \in Nat \X Nat /\ ~(<<y, x>> \in Less)
    BY <1>2
  <2>2. ~(y < x)
    BY <2>1 DEF Less
  <2> QED
    BY <2>2
<1> QED
  BY <1>3

\* So what holds of 0, and of n + 1 where it holds of n, holds of every number.
LEMMA Induction == ASSUME NEW T, 0 \in T, \A n \in T : n + 1 \in T PROVE Nat \subseteq T
<1>1. SUFFICES ASSUME Nat \ T # {} PROVE FALSE
  OBVIOUS
<1>2. PICK x \in Nat \ T : \A y \in Nat \ T : x <= y
  BY <1>1, Least
<1>3. x # 0 /\ x - 1 \in Nat /\ ~(x <= x - 1) /\ (x - 1) + 1 = x
  OBVIOUS
<1>4. x - 1 \in T
  BY <1>2, <1>3
<1>5. (x - 1) + 1 \in T
  BY <1>4
<1> QED
  BY <1>3, <1>5

\* The first and the last directive of a name are directives, so their values are numbers or
\* nothing.
LEMMA ValuesOf ==
    ASSUME NEW cc \in Directives, NEW name, Says(cc, name)
    PROVE  FirstValue(cc, name) \in Nat \cup {None} /\ LastValue(cc, name) \in Nat \cup {None}
<1>1. Len(cc) \in Nat /\ DOMAIN cc = 1..Len(cc) /\ \A n \in DOMAIN cc : cc[n].value \in Nat \cup {None}
  <2>1. PICK S : S = [name: STRING, value: Nat \cup {None}] /\ cc \in Seq(S)
    BY DEF Directives
  <2>2. cc \in Seq(S)
    BY <2>1
  <2>3. Len(cc) \in Nat /\ DOMAIN cc = 1..Len(cc) /\ \A n \in DOMAIN cc : cc[n] \in S
    BY <2>2
  <2>4. \A x \in S : x.value \in Nat \cup {None}
    BY <2>1
  <2> QED
    BY <2>3, <2>4
<1> DEFINE at == {n \in DOMAIN cc : cc[n].name = name}
           back == {Len(cc) - n : n \in at}
<1>2. at # {} /\ at \subseteq Nat
  BY <1>1 DEF Says
<1>3. PICK x \in at : \A y \in at : x <= y
  <2> HIDE DEF at
  <2> QED
    BY <1>2, Least
<1>4. x \in DOMAIN cc /\ cc[x].name = name /\ \A m \in 1..(x - 1) : cc[m].name # name
  <2>1. ASSUME NEW m \in 1..(x - 1), cc[m].name = name PROVE FALSE
    <3>1. m \in DOMAIN cc /\ ~(x <= m)
      BY <1>1, <1>3
    <3> QED
      BY <1>3, <2>1, <3>1
  <2> QED
    BY <1>3, <2>1
<1>5. FirstValue(cc, name) \in Nat \cup {None}
  BY <1>1, <1>4 DEF FirstValue
<1>6. back # {} /\ back \subseteq Nat
  <2>1. \A n \in at : Len(cc) - n \in Nat
    BY <1>1
  <2> QED
    BY <1>2, <2>1
<1>7. PICK b \in back : \A c \in back : b <= c
  <2> HIDE DEF back
  <2> QED
    BY <1>6, Least
<1>8. PICK z \in at : b = Len(cc) - z
  BY <1>7
<1>9. z \in DOMAIN cc /\ cc[z].name = name /\ \A m \in (z + 1)..Len(cc) : cc[m].name # name
  <2>1. ASSUME NEW m \in (z + 1)..Len(cc), cc[m].name = name PROVE FALSE
    <3>1. m \in DOMAIN cc /\ m > z /\ z \in Nat /\ m \in Nat
      BY <1>1, <1>8
    <3>2. Len(cc) - m \in back
      BY <2>1, <3>1
    <3>3. Len(cc) - z <= Len(cc) - m
      BY <1>7, <1>8, <3>2
    <3> QED
      BY <1>1, <3>1, <3>3
  <2> QED
    BY <1>8, <2>1
<1>10. LastValue(cc, name) \in Nat \cup {None}
  BY <1>1, <1>9 DEF LastValue
<1> QED
  BY <1>5, <1>10

\* Of the entries that match one is the newest.
LEMMA NewestIsThere ==
    ASSUME NEW es, NEW q, NEW len \in Nat, DOMAIN es = 1..len,
           \A n \in DOMAIN es : es[n].head.date \in Int,
           NEW w \in DOMAIN es, matches(es[w], q)
    PROVE  \E n \in DOMAIN es : Newest(es, q) = es[n]
<1> DEFINE found == {n \in DOMAIN es : matches(es[n], q)}
           Above(n, m) == es[m].head.date < es[n].head.date \/ (es[m].head.date = es[n].head.date /\ m <= n)
           Best(n, k) == n \in found /\ n <= k /\ \A m \in found : m <= k => Above(n, m)
           T == {k \in Nat : (\E n \in found : n <= k) => \E n \in found : Best(n, k)}
<1>0. found \subseteq Nat /\ w \in found /\ w <= len /\ \A n \in found : es[n].head.date \in Int /\ n <= len /\ n > 0
  OBVIOUS
<1>1. 0 \in T
  BY <1>0
<1>2. ASSUME NEW k \in T PROVE k + 1 \in T
  <2>0. k \in Nat /\ ((\E n \in found : n <= k) => \E n \in found : Best(n, k))
    OBVIOUS
  <2>1. CASE k + 1 \notin found
    <3>1. \A n \in found : n <= k + 1 => n <= k
      BY <1>0, <2>0, <2>1
    <3>2. \A n \in found : Best(n, k) => Best(n, k + 1)
      BY <1>0, <2>0, <3>1
    <3> QED
      BY <2>0, <3>1, <3>2
  <2>2. CASE k + 1 \in found /\ ~\E n \in found : n <= k
    <3>1. \A m \in found : m <= k + 1 => m = k + 1
      BY <1>0, <2>0, <2>2
    <3>2. Best(k + 1, k + 1)
      BY <1>0, <2>0, <2>2, <3>1
    <3> QED
      BY <2>0, <2>2, <3>2
  <2>3. CASE k + 1 \in found /\ \E n \in found : n <= k
    <3>1. PICK n \in found : Best(n, k)
      BY <2>0, <2>3
    <3>2. \A m \in found : m <= k + 1 => m <= k \/ m = k + 1
      BY SMTT(30), <1>0, <2>0
    <3>3. CASE es[k + 1].head.date < es[n].head.date
      <4>1. Best(n, k + 1)
        BY <1>0, <2>0, <3>1, <3>2, <3>3
      <4> QED
        BY <2>0, <4>1
    <3>4. CASE ~(es[k + 1].head.date < es[n].head.date)
      <4>1. ASSUME NEW m \in found, m <= k + 1 PROVE Above(k + 1, m)
        BY SMTT(30), <1>0, <2>0, <2>3, <3>1, <3>2, <3>4, <4>1
      <4>2. Best(k + 1, k + 1)
        BY <2>0, <2>3, <4>1
      <4> QED
        BY SMTT(30), <2>0, <2>3, <4>2
    <3> QED
      BY <3>3, <3>4
  <2> QED
    BY <2>1, <2>2, <2>3
<1>3. len \in T
  <2> HIDE DEF T
  <2> QED
    BY <1>1, <1>2, Induction
<1>4. PICK n \in found : \A m \in found : Above(n, m)
  BY <1>0, <1>3
<1> DEFINE Day(m) == IF es[m].head.date = None THEN es[m].received_at ELSE es[m].head.date
<1>5. \A m \in found : Day(m) = es[m].head.date
  BY <1>0, RulesAssumption DEF RulesAssumption
<1>6. \E x \in found : \A m \in found : Day(m) < Day(x) \/ (Day(m) = Day(x) /\ m <= x)
  BY <1>4, <1>5
<1>7. PICK x \in found : x = CHOOSE y \in found : \A m \in found : Day(m) < Day(y) \/ (Day(m) = Day(y) /\ m <= y)
  BY <1>6
<1>8. Newest(es, q) = es[x]
  BY <1>7 DEF Newest
<1> QED
  BY <1>7, <1>8
-----------------------------------------------------------------------------
(* Time.                                                                   *)

HeadType(h) ==
    /\ DOMAIN h = {"cc", "age", "date", "expires", "modified", "etag", "vary", "range", "length"}
    /\ h.cc \in Directives /\ h.age \in Nat \cup {None} /\ h.date \in Int \cup {None}
    /\ h.expires \in Int \cup {None, Unparsable} /\ h.vary \in Seq(STRING) \cup {None}

Told(h) == IF h.age = None THEN 0 ELSE delta_seconds(h.age)

\* A clock that is fast shows in the Date.
DateFits(h, src) == src.skew <= 0 \/ (h.date \in Int /\ h.date >= src.born + src.skew)

EntryType(e) ==
    /\ DOMAIN e = {"status", "decoded", "length", "head", "vary", "requested_at", "received_at"}
    /\ HeadType(e.head) /\ e.head.date \in Int /\ e.requested_at \in Int /\ e.received_at \in Int
    /\ e.length \in Nat /\ Len(e.vary) \in Nat

\* What an entry says of its age is never less than the age of what is behind it.
EntryFits(e, src) ==
    /\ EntryType(e) /\ src.born \in Int /\ src.skew \in Int
    /\ Told(e.head) + Larger(e.received_at - e.requested_at, 0) >= e.received_at - src.born
    /\ DateFits(e.head, src)

FetchTimes(g, t) ==
    /\ g.pc \in {"sent", "served"} =>
          /\ g.at \in Nat /\ g.at <= t
          /\ g.reval # None => EntryType(g.reval.entry)
    /\ g.pc = "served" =>
          /\ HeadType(g.head) /\ g.src.born \in Int /\ g.src.skew \in Int
          /\ Told(g.head) >= g.at - g.src.born /\ DateFits(g.head, g.src) /\ g.reply.length \in Nat
    /\ g.pc = "reading" => EntryFits(g.entry, g.src)

VariantsFit(l) == \A n \in DOMAIN l : EntryFits(l[n].entry, l[n].src)

TimesInv ==
    /\ \A k \in Keys : VariantsFit(keys[k])
    /\ \A f \in Fetches : FetchTimes(fetch[f], now)

LEMMA ToldIsNat == ASSUME NEW h, h.age \in Nat \cup {None} PROVE Told(h) \in Nat
  BY RulesAssumption DEF RulesAssumption, Told, delta_seconds, Smaller

LEMMA SelectingIsList ==
    ASSUME NEW h, NEW q, h.vary \in Seq(STRING) \cup {None} PROVE Len(Selecting(h, q)) \in Nat
<1>1. PICK names \in Seq(STRING) : names = vary_names(h)
  <2>1. CASE h.vary = None
    <3>1. vary_names(h) = <<>> /\ <<>> \in Seq(STRING)
      BY <2>1 DEF vary_names
    <3> QED
      BY <3>1
  <2>2. CASE h.vary # None
    BY <2>2 DEF vary_names
  <2> QED
    BY <2>1, <2>2
<1>2. Selecting(h, q) = [n \in 1..Len(names) |-> <<names[n], vary_value(q, names[n])>>]
  BY <1>1 DEF Selecting
<1> QED
  BY <1>1, <1>2

\* A variant of a key is one it had, or the one that is put.
LEMMA PutAdds ==
    ASSUME CacheInv, NEW k \in Keys, NEW e, NEW src, put(k, e, src),
           \A j \in Keys : VariantsFit(keys[j]), EntryFits(e, src)
    PROVE  \A j \in Keys : VariantsFit(keys'[j])
<1>1. PICK stored : stored = [entry |-> e, charged |-> charge(e), src |-> src]
  OBVIOUS
<1>2. stored.entry = e /\ stored.src = src
  BY <1>1
<1>3. PICK same : same = {n \in DOMAIN keys[k] : /\ keys[k][n].entry.vary = e.vary
                                                /\ keys[k][n].entry.decoded = e.decoded}
  OBVIOUS
<1>4. DOMAIN keys = Keys /\ IsList(keys[k]) /\ VariantsFit(keys[k])
  BY DEF CacheInv, KeysOK, VariantsOK
<1>5. VariantsFit(<<>>)
  BY DEF VariantsFit
<1>6. ASSUME NEW ks, NEW order, NEW total, evict(ks, order, total), \A j \in Keys : VariantsFit(ks[j])
      PROVE  \A j \in Keys : VariantsFit(keys'[j])
  BY <1>5, <1>6, EvictDoes
<1>7. CASE e.length > MaxEntryBytes
  BY <1>7 DEF put
<1>8. CASE ~(e.length > MaxEntryBytes) /\ same # {}
  <2>1. PICK p : p = CHOOSE n \in same : TRUE
    OBVIOUS
  <2>2. p \in DOMAIN keys[k]
    BY <1>3, <1>8, <2>1
  <2>3. PICK l : l = [keys[k] EXCEPT ![p] = stored]
    OBVIOUS
  <2>4. VariantsFit(l)
    <3>1. DOMAIN l = DOMAIN keys[k] /\ l[p] = stored /\ \A n \in DOMAIN keys[k] : n # p => l[n] = keys[k][n]
      BY <2>2, <2>3
    <3> QED
      BY <1>2, <1>4, <3>1 DEF VariantsFit
  <2>5. PICK ks : ks = [keys EXCEPT ![k] = l] /\ \E order, total : evict(ks, order, total)
    BY <1>1, <1>3, <1>8, <2>1, <2>3 DEF put
  <2>6. \A j \in Keys : VariantsFit(ks[j])
    BY <1>4, <2>4, <2>5
  <2> QED
    BY <1>6, <2>5, <2>6
<1>9. CASE ~(e.length > MaxEntryBytes) /\ same = {}
  <2>1. PICK l : l = Append(keys[k], stored)
    OBVIOUS
  <2>2. VariantsFit(l)
    <3>1. \A n \in DOMAIN l : (n \in DOMAIN keys[k] /\ l[n] = keys[k][n]) \/ l[n] = stored
      BY <1>4, <2>1 DEF IsList
    <3> QED
      BY <1>2, <1>4, <3>1 DEF VariantsFit
  <2>3. PICK ks : ks = [keys EXCEPT ![k] = l] /\ \E order, total : evict(ks, order, total)
    BY <1>1, <1>3, <1>9, <2>1 DEF put
  <2>4. \A j \in Keys : VariantsFit(ks[j])
    BY <1>4, <2>2, <2>3
  <2> QED
    BY <1>6, <2>3, <2>4
<1> QED
  BY <1>7, <1>8, <1>9

LEMMA InvalidateFits ==
    ASSUME NEW order, NEW targets, invalidate(order, targets), \A j \in Keys : VariantsFit(keys[j])
    PROVE  \A j \in Keys : VariantsFit(keys'[j])
<1>1. VariantsFit(<<>>)
  BY DEF VariantsFit
<1>2. \A k \in Keys : keys'[k] = <<>> \/ keys'[k] = keys[k]
  BY InvalidateDoes
<1> QED
  BY <1>1, <1>2

\* The response a fetch got, as it is stored.
LEMMA FreshFits ==
    ASSUME NEW g, g.pc = "served", FetchTimes(g, now), now \in Nat, NEW status, NEW length \in Nat
    PROVE  EntryFits(entry_from_response(status, g.head, g.req, length, g.at, now), g.src)
<1>1. PICK h : h = [g.head EXCEPT !.date = Or(g.head.date, now), !.length = IF g.req.decode THEN None ELSE g.head.length]
  OBVIOUS
<1>2. PICK e : e = [status |-> status, decoded |-> g.req.decode, length |-> length,
                    head |-> h, vary |-> Selecting(g.head, g.req),
                    requested_at |-> g.at, received_at |-> now]
  OBVIOUS
<1>3. e = entry_from_response(status, g.head, g.req, length, g.at, now)
  BY <1>1, <1>2 DEF entry_from_response
<1>4. /\ HeadType(g.head) /\ g.src.born \in Int /\ g.src.skew \in Int
      /\ Told(g.head) >= g.at - g.src.born /\ DateFits(g.head, g.src) /\ g.at \in Nat
  BY DEF FetchTimes
<1>5. /\ DOMAIN h = DOMAIN g.head /\ h.cc = g.head.cc /\ h.age = g.head.age /\ h.expires = g.head.expires
      /\ h.date = Or(g.head.date, now) /\ h.vary = g.head.vary
  BY <1>1, <1>4 DEF HeadType
<1>6. HeadType(h) /\ h.date \in Int /\ Told(h) = Told(g.head) /\ Told(h) \in Nat
  BY <1>4, <1>5, ToldIsNat DEF HeadType, Or, Told
<1>7. DateFits(h, g.src)
  <2>1. g.head.date \in Int => h.date = g.head.date
    BY <1>5, RulesAssumption DEF Or, RulesAssumption
  <2> QED
    BY <1>4, <2>1 DEF DateFits
<1>8. /\ DOMAIN e = {"status", "decoded", "length", "head", "vary", "requested_at", "received_at"}
      /\ e.head = h /\ e.requested_at = g.at /\ e.received_at = now
      /\ e.length = length /\ Len(e.vary) \in Nat
  <2>1. Len(Selecting(g.head, g.req)) \in Nat
    BY <1>4, SelectingIsList DEF HeadType
  <2> QED
    BY <1>2, <2>1
<1>9. Told(h) + Larger(now - g.at, 0) >= now - g.src.born
  BY <1>4, <1>6 DEF Larger
<1>10. EntryFits(e, g.src)
  BY <1>4, <1>6, <1>7, <1>8, <1>9 DEF EntryFits, EntryType
<1> QED
  BY <1>3, <1>10

\* ... and the one a 304 confirmed.
LEMMA ConfirmedFits ==
    ASSUME NEW g, g.pc = "served", FetchTimes(g, now), now \in Nat, g.reval # None
    PROVE  EntryFits(updated_by_304(g.reval.entry, g.head, g.at, now, g.req), g.src)
<1>1. PICK old, head : old = g.reval.entry /\ head = g.head
  OBVIOUS
<1>2. /\ HeadType(head) /\ g.src.born \in Int /\ g.src.skew \in Int
      /\ Told(head) >= g.at - g.src.born /\ DateFits(head, g.src) /\ g.at \in Nat /\ EntryType(old)
  BY <1>1 DEF FetchTimes
<1>3. PICK h : h = Merged(old.head, head)
  OBVIOUS
<1>4. HeadType(old.head) /\ old.head.date \in Int
  BY <1>2 DEF EntryType
<1>5. /\ DOMAIN h = DOMAIN old.head
      /\ h.cc = (IF head.cc # <<>> THEN head.cc ELSE old.head.cc)
      /\ h.age = Or(head.age, old.head.age) /\ h.expires = Or(head.expires, old.head.expires)
      /\ h.date = Or(head.date, old.head.date) /\ h.vary = Or(head.vary, old.head.vary)
  BY <1>3, <1>4 DEF HeadType, Merged
<1>6. HeadType(h) /\ h.date \in Int
  BY <1>2, <1>4, <1>5 DEF HeadType, Or
<1>7. Told(h) \in Nat /\ Told(head) \in Nat /\ Told(h) >= Told(head)
  <2>1. Told(h) \in Nat /\ Told(head) \in Nat
    BY <1>2, <1>6, ToldIsNat DEF HeadType
  <2>2. head.age # None => Told(h) = Told(head)
    BY <1>5 DEF Told, Or
  <2>3. head.age = None => Told(head) = 0
    BY DEF Told
  <2> QED
    BY <2>1, <2>2, <2>3
<1>8. DateFits(h, g.src)
  <2>1. head.date \in Int => h.date = head.date
    BY <1>5, RulesAssumption DEF Or, RulesAssumption
  <2> QED
    BY <1>2, <2>1 DEF DateFits
<1>9. PICK e : e = updated_by_304(old, head, g.at, now, g.req)
  OBVIOUS
<1>10. /\ DOMAIN e = {"status", "decoded", "length", "head", "vary", "requested_at", "received_at"}
       /\ e.head = h /\ e.requested_at = g.at /\ e.received_at = now /\ e.length = old.length
       /\ e.vary = old.vary \/ e.vary = Selecting(head, g.req)
  BY <1>2, <1>3, <1>9 DEF EntryType, updated_by_304
<1>11. Told(h) + Larger(now - g.at, 0) >= now - g.src.born
  BY <1>2, <1>7 DEF Larger
<1>12. e.length \in Nat /\ Len(e.vary) \in Nat
  <2>1. Len(Selecting(head, g.req)) \in Nat
    BY <1>2, SelectingIsList DEF HeadType
  <2> QED
    BY <1>2, <1>10, <2>1 DEF EntryType
<1>13. EntryFits(e, g.src)
  BY <1>2, <1>6, <1>8, <1>10, <1>11, <1>12 DEF EntryFits, EntryType
<1> QED
  BY <1>1, <1>9, <1>13

\* What is chosen to answer or to be revalidated is stored.
LEMMA ChosenIsStored ==
    ASSUME CacheInv, TimesInv, NEW q, NEW d, d = lookup(q), d.kind \in {"Use", "UseStale", "Revalidate"}
    PROVE  /\ KeyFor(q) \in Keys
           /\ \E n \in DOMAIN keys[KeyFor(q)] :
                 Behind(KeyFor(q), d.entry) = keys[KeyFor(q)][n] /\ keys[KeyFor(q)][n].entry = d.entry
           /\ \E es : d.entry = Newest(es, q) /\ (d.kind # "Revalidate" => d = decide(es, q, now))
<1>1. PICK k, es : /\ k = KeyFor(q)
                   /\ es = IF k \in Keys THEN [n \in DOMAIN keys[k] |-> keys[k][n].entry] ELSE <<>>
  OBVIOUS
<1>2. PICK x : x = decide(es, q, now)
  OBVIOUS
<1>3. d = IF q.background THEN x ELSE revalidated(x)
  BY <1>1, <1>2 DEF lookup
<1>4. \A e : \/ revalidate(e).kind = "Revalidate" /\ revalidate(e).entry = e
             \/ revalidate(e).kind = "Send"
  BY DEF revalidate, Decision
<1>5. x.kind \in {"Use", "UseStale", "Revalidate"} =>
          x.entry = Newest(es, q) /\ ~\A n \in DOMAIN es : ~matches(es[n], q)
  BY <1>2, <1>4 DEF decide, Decision
<1>6. x.kind \in {"Use", "UseStale", "Revalidate", "Send", "NotCached"}
  BY <1>2, <1>4 DEF decide, Decision
<1>7. /\ x.kind \in {"Use", "UseStale", "Revalidate"} /\ d.entry = x.entry
      /\ d.kind # "Revalidate" => d = x
  BY <1>3, <1>4, <1>6 DEF revalidated
<1>8. PICK w \in DOMAIN es : matches(es[w], q)
  BY <1>5, <1>7
<1>9. k \in Keys /\ DOMAIN es = DOMAIN keys[k] /\ \A n \in DOMAIN es : es[n] = keys[k][n].entry
  <2>1. k \in Keys
    BY <1>1, <1>8
  <2> QED
    BY <1>1, <2>1
<1>10. PICK len \in Nat : DOMAIN es = 1..len
  <2>1. IsList(keys[k])
    BY <1>9 DEF CacheInv, KeysOK, VariantsOK
  <2> QED
    BY <1>9, <2>1 DEF IsList
<1>11. \A n \in DOMAIN es : es[n].head.date \in Int
  BY <1>9 DEF TimesInv, VariantsFit, EntryFits, EntryType
<1>12. PICK n \in DOMAIN es : Newest(es, q) = es[n]
  BY <1>8, <1>10, <1>11, NewestIsThere
<1>13. keys[k][n].entry = d.entry
  BY <1>5, <1>7, <1>9, <1>12
<1>14. \E m \in DOMAIN keys[k] : Behind(k, d.entry) = keys[k][m] /\ keys[k][m].entry = d.entry
  BY <1>9, <1>12, <1>13 DEF Behind
<1> QED
  BY <1>1, <1>2, <1>5, <1>7, <1>9, <1>14

LEMMA IdleTimes == ASSUME NEW t PROVE FetchTimes(Idle, t)
  BY DEF FetchTimes, Idle

\* A step that changes the fetch f alone.
LEMMA OneFetchTimes ==
    ASSUME CacheInv, TimesInv, NEW f \in Fetches, NEW g, fetch' = [fetch EXCEPT ![f] = g], FetchTimes(g, now),
           now' = now, \A k \in Keys : VariantsFit(keys'[k])
    PROVE  TimesInv'
<1>1. \A h \in Fetches : FetchTimes(fetch'[h], now)
  BY DEF CacheInv, TimesInv
<1> QED
  BY <1>1 DEF TimesInv

LEMMA ConsultTimes ==
    ASSUME CacheInv, TimesInv, NEW f \in Fetches, NEW q, consult_cache(f, q) PROVE TimesInv'
<1>1. PICK d : d = lookup(q)
  OBVIOUS
<1>2. PICK g : fetch' = [fetch EXCEPT ![f] = g]
               /\ g = (CASE d.kind \in {"Use", "NotCached"} -> Idle
                         [] d.kind = "UseStale" ->
                              [pc |-> "behind", req |-> [q EXCEPT !.mode = "NoCache", !.background = FALSE]]
                         [] d.kind = "Revalidate" -> Sent(q, Behind(KeyFor(q), d.entry))
                         [] d.kind = "Send" -> Sent(q, None))
  BY <1>1 DEF consult_cache
<1>3. UNCHANGED <<now, keys>> /\ now \in Nat
  BY DEF consult_cache, CacheInv
<1>4. d.kind \in {"Use", "UseStale", "NotCached", "Revalidate", "Send"}
  <2>1. PICK es, x : x = decide(es, q, now) /\ d = IF q.background THEN x ELSE revalidated(x)
    BY <1>1 DEF lookup
  <2>2. \A e : revalidate(e).kind \in {"Revalidate", "Send"}
    BY DEF revalidate, Decision
  <2>3. x.kind \in {"Use", "UseStale", "NotCached", "Revalidate", "Send"}
    BY <2>1, <2>2 DEF decide, Decision
  <2> QED
    BY <2>1, <2>2, <2>3 DEF revalidated
<1>5. ASSUME NEW s, s # None => EntryType(s.entry) PROVE FetchTimes(Sent(q, s), now)
  BY <1>3, <1>5 DEF Sent, FetchTimes
<1>6. FetchTimes(g, now)
  <2>1. CASE d.kind \in {"Use", "NotCached"}
    BY <1>2, <2>1, IdleTimes
  <2>2. CASE d.kind = "UseStale"
    BY <1>2, <2>2 DEF FetchTimes
  <2>3. CASE d.kind = "Revalidate"
    <3>1. PICK s : s = Behind(KeyFor(q), d.entry) /\ EntryType(s.entry)
      <4>1. KeyFor(q) \in Keys /\ \E n \in DOMAIN keys[KeyFor(q)] : Behind(KeyFor(q), d.entry) = keys[KeyFor(q)][n]
        BY <1>1, <2>3, ChosenIsStored
      <4> QED
        BY <4>1 DEF TimesInv, VariantsFit, EntryFits
    <3>2. g = Sent(q, s)
      BY <1>2, <2>3, <3>1
    <3> QED
      BY <1>5, <3>1, <3>2
  <2>4. CASE d.kind = "Send"
    <3>1. g = Sent(q, None)
      BY <1>2, <2>4
    <3> QED
      BY <1>5, <3>1
  <2> QED
    BY <1>4, <2>1, <2>2, <2>3, <2>4
<1>7. \A k \in Keys : VariantsFit(keys'[k])
  BY <1>3 DEF TimesInv
<1> QED
  BY <1>2, <1>3, <1>6, <1>7, OneFetchTimes

\* The Age a server states reaches back to when the response was made, its Date too.
LEMMA ServeTimes == ASSUME CacheInv, TimesInv, NEW f \in Fetches, Serve(f) PROVE TimesInv'
<1>1. PICK x, q, u : x = fetch[f] /\ q = x.req /\ u = q.url
  OBVIOUS
<1>2. x.pc = "sent" /\ UNCHANGED <<now, keys>> /\ now \in Nat
  BY <1>1 DEF Serve, CacheInv
<1>3. PICK p \in Replies :
        fetch' = [fetch EXCEPT ![f] =
              [pc |-> "served", req |-> q, reval |-> @.reval, at |-> @.at,
               reply |-> p, head |-> Stamped(p, u),
               src |-> [ver |-> version'[u], born |-> now - p.told, skew |-> p.skew,
                        jar |-> q.jar, over |-> 0]]]
  BY <1>1, ZenonT(40) DEF Serve
<1>4. PICK src : src = [ver |-> version'[u], born |-> now - p.told, skew |-> p.skew, jar |-> q.jar, over |-> 0]
  OBVIOUS
<1>5. PICK h : h = Stamped(p, u)
  OBVIOUS
<1>6. PICK g : g = [pc |-> "served", req |-> q, reval |-> x.reval, at |-> x.at,
                    reply |-> p, head |-> h, src |-> src]
               /\ fetch' = [fetch EXCEPT ![f] = g]
  BY <1>1, <1>3, <1>4, <1>5 DEF CacheInv
<1>7. /\ p.told \in Nat /\ p.skew \in Int /\ p.cc \in Directives /\ p.expires \in Int \cup {None, Unparsable}
      /\ p.told <= MaxDelta /\ (p.dated \/ p.skew <= 0) /\ MaxDelta \in Nat /\ None \notin Int
      /\ p.length \in Nat /\ p.vary \in Seq(STRING) \cup {None}
  BY CacheAssumption, TimeAssumption, RulesAssumption DEF CacheAssumption, TimeAssumption, RulesAssumption
<1>8. /\ src.born = now - p.told /\ src.skew = p.skew /\ src.born \in Int /\ src.skew \in Int
  BY <1>2, <1>4, <1>7
<1>9. /\ DOMAIN h = {"cc", "age", "date", "expires", "modified", "etag", "vary", "range", "length"}
      /\ h.cc = p.cc /\ h.age = (IF p.told = 0 THEN None ELSE p.told)
      /\ h.date = (IF p.dated THEN now - p.told + p.skew ELSE None)
      /\ h.expires = (IF p.expires \in Int THEN now - p.told + p.skew + p.expires ELSE p.expires)
      /\ h.vary = p.vary
  BY <1>5 DEF Stamped
<1>10. HeadType(h)
  BY <1>2, <1>7, <1>9 DEF HeadType
<1>11. Told(h) = p.told
  BY <1>7, <1>9 DEF Told, delta_seconds, Smaller
<1>12. DateFits(h, src)
  BY <1>2, <1>7, <1>8, <1>9 DEF DateFits
<1>13. x.at \in Nat /\ x.at <= now /\ (x.reval # None => EntryType(x.reval.entry))
  BY <1>1, <1>2 DEF TimesInv, FetchTimes
<1>14. g.pc = "served" /\ g.reval = x.reval /\ g.at = x.at /\ g.head = h /\ g.src = src /\ g.reply = p
  BY <1>6
<1>15. Told(h) >= x.at - src.born
  BY <1>2, <1>7, <1>8, <1>11, <1>13
<1>16. FetchTimes(g, now)
  BY <1>7, <1>8, <1>10, <1>12, <1>13, <1>14, <1>15 DEF FetchTimes
<1>17. \A k \in Keys : VariantsFit(keys'[k])
  BY <1>2 DEF TimesInv
<1> QED
  BY <1>2, <1>6, <1>16, <1>17, OneFetchTimes

LEMMA ContradictedTimes == ASSUME CacheInv, TimesInv, NEW f \in Fetches, Contradicted(f) PROVE TimesInv'
<1>1. PICK x : x = fetch[f]
  OBVIOUS
<1>2. /\ x.pc = "served" /\ fetch' = [fetch EXCEPT ![f] = Sent(x.req, None)]
      /\ invalidate(lru, {<<x.req.method, x.req.url>>}) /\ now' = now /\ now \in Nat
  BY <1>1 DEF Contradicted, Answering304, CacheInv
<1>3. FetchTimes(Sent(x.req, None), now)
  BY <1>2 DEF Sent, FetchTimes
<1>4. \A k \in Keys : VariantsFit(keys'[k])
  BY <1>2, InvalidateFits DEF TimesInv
<1> QED
  BY <1>2, <1>3, <1>4, OneFetchTimes

\* What is stored, after a redirect, a body or a 304, fits.
LEMMA WhatIsPut ==
    ASSUME CacheInv, TimesInv, NEW f \in Fetches, Validated(f) \/ ReceivedRedirect(f) \/ commit(f)
    PROVE  \E k \in Keys : \E e, src : put(k, e, src) /\ EntryFits(e, src)
<1>1. PICK g : g = fetch[f]
  OBVIOUS
<1>2. FetchOK(g, written, version) /\ FetchTimes(g, now) /\ now \in Nat
  BY <1>1 DEF CacheInv, TimesInv
<1>3. ASSUME NEW e, NEW src, put(KeyFor(g.req), e, src), EntryFits(e, src), ReqOK(g.req), g.req.method \in Cached
      PROVE  \E k \in Keys : \E y, s : put(k, y, s) /\ EntryFits(y, s)
  <2>1. PICK k \in Keys : k = KeyFor(g.req)
    BY <1>3, KeyIsCached
  <2> QED BY <1>3, <2>1
<1>4. CASE Validated(f)
  <2>1. g.pc = "served" /\ g.reply.status = 304 /\ g.reval # None
    BY <1>1, <1>4 DEF Validated, Answering304
  <2>2. /\ g.src \in SrcType /\ g.reval.src.ver = g.src.ver /\ ReqOK(g.req) /\ g.req.method \in Cached
    BY <1>2, <2>1 DEF FetchOK, SrcFits
  <2>3. [g.src EXCEPT !.ver = g.reval.src.ver] = g.src
    BY <2>2 DEF SrcType
  <2>4. put(KeyFor(g.req), updated_by_304(g.reval.entry, g.head, g.at, now, g.req), g.src)
    BY <1>1, <1>4, <2>3 DEF Validated
  <2>5. EntryFits(updated_by_304(g.reval.entry, g.head, g.at, now, g.req), g.src)
    BY <1>2, <2>1, ConfirmedFits
  <2> QED BY <1>3, <2>2, <2>4, <2>5
<1>5. CASE ReceivedRedirect(f)
  <2>1. g.pc = "served" /\ ReqOK(g.req) /\ g.req.method \in Cached
    BY <1>1, <1>2, <1>5 DEF ReceivedRedirect, pending_store, is_storable, FetchOK, Cached
  <2>2. put(KeyFor(g.req), entry_from_response(g.reply.status, g.head, g.req, 0, g.at, now), g.src)
    BY <1>1, <1>5 DEF ReceivedRedirect
  <2> QED BY <1>2, <1>3, <2>1, <2>2, FreshFits
<1>6. CASE commit(f)
  <2>1. put(KeyFor(g.req), g.entry, g.src) /\ g.pc = "reading"
    BY <1>1, <1>6 DEF commit
  <2> QED BY <1>2, <1>3, <2>1 DEF FetchOK, FetchTimes
<1> QED BY <1>4, <1>5, <1>6

LEMMA StoreTimes ==
    ASSUME CacheInv, TimesInv, NEW f \in Fetches, Validated(f) \/ ReceivedRedirect(f) \/ commit(f) PROVE TimesInv'
<1>1. now' = now /\ fetch' = [fetch EXCEPT ![f] = Idle]
  BY DEF Validated, ReceivedRedirect, commit
<1>2. PICK k \in Keys : \E e, src : put(k, e, src) /\ EntryFits(e, src)
  BY WhatIsPut
<1>3. \A j \in Keys : VariantsFit(keys'[j])
  BY <1>2, PutAdds DEF TimesInv
<1> QED
  BY <1>1, <1>3, IdleTimes, OneFetchTimes

LEMMA InvalidateCacheFits ==
    ASSUME TimesInv, NEW f, invalidate_cache(f) PROVE \A k \in Keys : VariantsFit(keys'[k])
<1>1. \E order, targets : invalidate(order, targets)
  BY DEF invalidate_cache
<1> QED
  BY <1>1, InvalidateFits DEF TimesInv

LEMMA ReceivedStorableTimes ==
    ASSUME CacheInv, TimesInv, NEW f \in Fetches, ReceivedStorable(f) PROVE TimesInv'
<1>1. PICK g : g = fetch[f]
  OBVIOUS
<1>2. /\ g.pc = "served" /\ invalidate_cache(f) /\ now' = now /\ now \in Nat /\ FetchTimes(g, now)
  BY <1>1 DEF ReceivedStorable, CacheInv, TimesInv
<1>3. PICK length \in Nat : fetch' = [fetch EXCEPT ![f] =
          [pc |-> "reading", req |-> g.req, src |-> g.src,
           entry |-> entry_from_response(g.reply.status, g.head, g.req, length, g.at, now)]]
  <2>1. PICK n : n = IF g.req.method = "HEAD" THEN 0 ELSE g.reply.length
    OBVIOUS
  <2>2. n \in Nat
    BY <1>2, <2>1 DEF FetchTimes
  <2>3. fetch' = [fetch EXCEPT ![f] =
          [pc |-> "reading", req |-> g.req, src |-> g.src,
           entry |-> entry_from_response(g.reply.status, g.head, g.req, n, g.at, now)]]
    BY <1>1, <2>1 DEF ReceivedStorable
  <2> QED BY <2>2, <2>3
<1>4. PICK e : e = entry_from_response(g.reply.status, g.head, g.req, length, g.at, now) /\ EntryFits(e, g.src)
  BY <1>2, FreshFits
<1>5. FetchTimes([pc |-> "reading", req |-> g.req, src |-> g.src, entry |-> e], now)
  BY <1>4 DEF FetchTimes
<1>6. \A k \in Keys : VariantsFit(keys'[k])
  BY <1>2, InvalidateCacheFits
<1> QED
  BY <1>2, <1>3, <1>4, <1>5, <1>6, OneFetchTimes

\* A write that overtakes a response changes nothing about its age.
LEMMA ReceivedTimes ==
    ASSUME CacheInv, TimesInv, NEW f \in Fetches, Received(f) PROVE TimesInv'
<1>1. /\ invalidate_cache(f) /\ now' = now
      /\ fetch' = [IF InvalidatedUrls(f) # {} THEN Overtaken(f) ELSE fetch EXCEPT ![f] = Idle]
  BY DEF Received
<1>2. DOMAIN fetch = Fetches
  BY DEF CacheInv
<1>3. ASSUME NEW g \in Fetches PROVE FetchTimes(fetch'[g], now)
  <2>1. PICK x : x = fetch[g] /\ FetchTimes(x, now) /\ FetchOK(x, written, version)
    BY DEF TimesInv, CacheInv
  <2>2. CASE g = f
    BY <1>1, <1>2, <2>2, IdleTimes DEF Overtaken
  <2>3. CASE g # f
    <3>1. \/ fetch'[g] = x
          \/ /\ x.pc \in {"served", "reading"}
             /\ \E o : fetch'[g] = [x EXCEPT !.src.over = o]
      BY <1>1, <1>2, <2>1, <2>3 DEF Overtaken
    <3>2. ASSUME NEW o, x.pc \in {"served", "reading"}, fetch'[g] = [x EXCEPT !.src.over = o]
          PROVE  FetchTimes(fetch'[g], now)
      <4>1. PICK s : s = [x.src EXCEPT !.over = o]
        OBVIOUS
      <4>2. x.src \in SrcType /\ "src" \in DOMAIN x
        BY <2>1, <3>2 DEF FetchOK, SrcFits
      <4>3. s.born = x.src.born /\ s.skew = x.src.skew
        BY <4>1, <4>2 DEF SrcType
      <4>4. PICK y : y = [x EXCEPT !.src = s] /\ fetch'[g] = y
        BY <3>2, <4>1
      <4>5. /\ y.pc = x.pc /\ y.src = s
            /\ x.pc = "served" => y.at = x.at /\ y.reval = x.reval /\ y.head = x.head /\ y.reply = x.reply
            /\ x.pc = "reading" => y.entry = x.entry
        BY <2>1, <3>2, <4>4 DEF FetchOK
      <4>6. CASE x.pc = "served"
        BY <2>1, <4>3, <4>4, <4>5, <4>6 DEF FetchTimes, DateFits
      <4>7. CASE x.pc = "reading"
        BY <2>1, <4>3, <4>4, <4>5, <4>7 DEF FetchTimes, EntryFits, DateFits
      <4> QED
        BY <3>2, <4>6, <4>7
    <3>3. CASE fetch'[g] = x
      BY <2>1, <3>3
    <3>4. CASE x.pc \in {"served", "reading"} /\ \E o : fetch'[g] = [x EXCEPT !.src.over = o]
      BY <3>2, <3>4
    <3> QED
      BY <3>1, <3>3, <3>4
  <2> QED
    BY <2>2, <2>3
<1>4. \A k \in Keys : VariantsFit(keys'[k])
  BY <1>1, InvalidateCacheFits
<1> QED
  BY <1>1, <1>3, <1>4 DEF TimesInv

LEMMA StepTimes == CacheInv /\ TimesInv /\ [Next]_vars => TimesInv'
<1> SUFFICES ASSUME CacheInv, TimesInv, [Next]_vars PROVE TimesInv'
  OBVIOUS
<1>1. ASSUME NEW f \in Fetches, Ask(f) \/ RevalidateBehind(f) PROVE TimesInv'
  BY <1>1, ConsultTimes DEF Ask, RevalidateBehind
<1>2. ASSUME NEW f \in Fetches, Drop(f) PROVE TimesInv'
  <2>1. fetch' = [fetch EXCEPT ![f] = Idle] /\ UNCHANGED <<now, keys>>
    BY <1>2 DEF Drop
  <2>2. \A k \in Keys : VariantsFit(keys'[k])
    BY <2>1 DEF TimesInv
  <2> QED
    BY <2>1, <2>2, IdleTimes, OneFetchTimes
<1>3. CASE Tick
  <2>1. now' = now + 1 /\ UNCHANGED <<keys, fetch>> /\ now \in Nat
    BY <1>3 DEF Tick, CacheInv
  <2>2. ASSUME NEW g, FetchTimes(g, now) PROVE FetchTimes(g, now + 1)
    <3>1. g.at \in Nat /\ g.at <= now => g.at <= now + 1
      BY <2>1
    <3> QED
      BY <2>2, <3>1 DEF FetchTimes
  <2> QED
    BY <2>1, <2>2 DEF TimesInv
<1>4. CASE clear
  BY <1>4 DEF clear, TimesInv, VariantsFit
<1>5. CASE UNCHANGED vars
  BY <1>5 DEF vars, TimesInv
<1> QED
  BY <1>1, <1>2, <1>3, <1>4, <1>5, ServeTimes, ContradictedTimes, StoreTimes,
     ReceivedStorableTimes, ReceivedTimes DEF Next

LEMMA InitTimes == Init => TimesInv
<1> SUFFICES ASSUME Init PROVE TimesInv
  OBVIOUS
<1>1. \A k \in Keys : VariantsFit(keys[k])
  BY DEF Init, VariantsFit
<1>2. \A f \in Fetches : FetchTimes(fetch[f], now)
  BY IdleTimes DEF Init
<1> QED
  BY <1>1, <1>2 DEF TimesInv

-----------------------------------------------------------------------------
(* Answers.                                                                *)

\* What a stored response answers with, and why.
LEMMA WhyUsed ==
    ASSUME NEW es, NEW q, NEW d, d = decide(es, q, now), d.kind \in {"Use", "UseStale"},
           NEW e, e = Newest(es, q), NEW asked, asked = RequestDirectives(q),
           NEW said, said = ResponseDirectives(e.head.cc), NEW age, age = current_age(e, now),
           NEW life, life = IF freshness_lifetime(e) = None THEN 0 ELSE freshness_lifetime(e)
    PROVE  /\ ~said.no_cache
           /\ \/ /\ effective_mode(q) = "ForceCache" \/ effective_mode(q) = "OnlyIfCached" \/ asked.only_if_cached
                 /\ said.must_revalidate => is_fresh(e, now)
              \/ /\ ~asked.no_cache
                 /\ asked.max_age = None \/ age <= asked.max_age
                 /\ asked.min_fresh = None \/ life - age >= asked.min_fresh
                 /\ \/ age < life
                    \/ StaleAllowed(asked, said, age - life)
                    \/ /\ d.kind = "UseStale" /\ ~said.must_revalidate
                       /\ said.swr # None /\ age - life <= said.swr
<1>1. \A x : revalidate(x).kind \notin {"Use", "UseStale"}
  BY DEF revalidate, Decision
<1> QED
  BY <1>1, ZenonT(60) DEF decide, Decision

\* An entry is at least as old as it says, and the server stands by it as long as it lives.
LEMMA AgeIsKnown ==
    ASSUME NEW e, NEW src, EntryFits(e, src), now \in Nat
    PROVE  current_age(e, now) \in Int /\ now - src.born <= current_age(e, now)
                                       /\ now - e.head.date <= current_age(e, now)
                                       /\ 0 <= current_age(e, now)
<1>1. /\ e.head.date \in Int /\ e.requested_at \in Int /\ e.received_at \in Int /\ src.born \in Int
      /\ Told(e.head) + Larger(e.received_at - e.requested_at, 0) >= e.received_at - src.born
      /\ HeadType(e.head)
  BY DEF EntryFits, EntryType
<1>2. Told(e.head) \in Nat
  BY <1>1, ToldIsNat DEF HeadType
<1>3. e.head.date # None
  BY <1>1, RulesAssumption DEF RulesAssumption
<1>4. current_age(e, now) =
          Larger(Larger(e.received_at - e.head.date, 0), Told(e.head) + Larger(e.received_at - e.requested_at, 0))
            + Larger(now - e.received_at, 0)
  BY <1>3 DEF current_age, Told
<1> QED
  BY <1>1, <1>2, <1>4 DEF Larger

\* For any n: as long as the age is less than the lifetime by n, or no more over it than -n.
LEMMA LifeIsVouched ==
    ASSUME NEW s, EntryFits(s.entry, s.src), now \in Nat, NEW until, until = VouchedUntil(s), until # None,
           NEW age, age = current_age(s.entry, now),
           NEW life, life = IF freshness_lifetime(s.entry) = None THEN 0 ELSE freshness_lifetime(s.entry)
    PROVE  /\ until \in Int /\ life \in Nat /\ age \in Int /\ freshness_lifetime(s.entry) # None
           /\ until - now >= life - age
<1>1. PICK e, src, h : e = s.entry /\ src = s.src /\ h = e.head
  OBVIOUS
<1>2. /\ HeadType(h) /\ h.date \in Int /\ src.born \in Int /\ src.skew \in Int /\ DateFits(h, src)
  BY <1>1 DEF EntryFits, EntryType
<1>3. age \in Int /\ now - src.born <= age /\ now - h.date <= age /\ 0 <= age
  BY <1>1, AgeIsKnown
<1>4. None \notin Int /\ Unparsable \notin Int /\ None # Unparsable /\ MaxDelta \in Nat
  BY RulesAssumption DEF RulesAssumption
<1>5. CASE Says(h.cc, "max-age")
  <2>1. PICK v : v = FirstValue(h.cc, "max-age") /\ v \in Nat \cup {None}
    BY <1>2, <1>5, ValuesOf DEF HeadType
  <2>2. until = src.born + Or(v, 0)
    BY <1>1, <1>5, <2>1 DEF VouchedUntil
  <2>3. ResponseDirectives(h.cc).max_age = IF v = None THEN 0 ELSE Smaller(v, MaxDelta)
    BY <1>5, <2>1 DEF ResponseDirectives, delta_seconds
  <2>4. freshness_lifetime(e) = IF v = None THEN 0 ELSE Smaller(v, MaxDelta)
    BY <1>1, <1>4, <2>1, <2>3 DEF freshness_lifetime, Smaller
  <2>5. freshness_lifetime(e) \in Nat /\ freshness_lifetime(e) <= Or(v, 0) /\ Or(v, 0) \in Nat
    BY <1>4, <2>1, <2>4 DEF Smaller, Or
  <2>6. life = freshness_lifetime(e)
    BY <1>1, <1>4, <2>5
  <2> QED
    BY <1>1, <1>2, <1>3, <1>4, <2>2, <2>5, <2>6
<1>6. CASE ~Says(h.cc, "max-age")
  <2>1. ResponseDirectives(h.cc).max_age = None
    BY <1>6 DEF ResponseDirectives
  <2>2. h.expires # None
    BY <1>1, <1>4, <1>6 DEF VouchedUntil
  <2>3. CASE h.expires = Unparsable
    <3>1. until = src.born /\ freshness_lifetime(e) = 0
      BY <1>1, <1>6, <2>1, <2>3 DEF VouchedUntil, freshness_lifetime
    <3> QED
      BY <1>1, <1>2, <1>3, <1>4, <3>1
  <2>4. CASE h.expires # Unparsable
    <3>1. h.expires \in Int
      BY <1>2, <2>2, <2>4 DEF HeadType
    <3>2. until = Larger(h.expires - src.skew, src.born)
      BY <1>1, <1>6, <2>2, <2>4 DEF VouchedUntil
    <3>3. freshness_lifetime(e) = Larger(h.expires - h.date, 0)
      BY <1>1, <1>2, <1>4, <2>1, <2>2, <2>4 DEF freshness_lifetime
    <3>4. freshness_lifetime(e) \in Nat /\ life = freshness_lifetime(e)
      BY <1>1, <1>2, <1>4, <3>1, <3>3 DEF Larger
    <3> QED
      BY <1>1, <1>2, <1>3, <1>4, <3>1, <3>2, <3>3, <3>4 DEF Larger, DateFits
  <2> QED
    BY <2>3, <2>4
<1> QED
  BY <1>5, <1>6

\* The numbers of a request, and of a response.
LEMMA Numbers ==
    ASSUME NEW cc \in Directives, NEW q, q.cc \in Directives
    PROVE  /\ ResponseDirectives(cc).swr \in Nat \cup {None}
           /\ RequestDirectives(q).max_age \in Nat \cup {None}
           /\ RequestDirectives(q).min_fresh \in Nat \cup {None}
           /\ RequestDirectives(q).max_stale \in Nat \cup {None}
<1>1. ASSUME NEW v \in Nat \cup {None} PROVE delta_seconds(v) \in Nat \cup {None}
  BY RulesAssumption DEF RulesAssumption, delta_seconds, Smaller
<1>2. ASSUME NEW dd \in Directives, NEW name, Says(dd, name)
      PROVE  delta_seconds(FirstValue(dd, name)) \in Nat \cup {None}
             /\ delta_seconds(LastValue(dd, name)) \in Nat \cup {None}
  BY <1>1, <1>2, ValuesOf
<1>3. ResponseDirectives(cc).swr =
          IF ~Says(cc, "stale-while-revalidate") THEN None ELSE delta_seconds(FirstValue(cc, "stale-while-revalidate"))
  BY DEF ResponseDirectives
<1> DEFINE Value(name) == IF Says(q.cc, name) THEN delta_seconds(LastValue(q.cc, name)) ELSE None
<1>4. /\ RequestDirectives(q).max_age = Value("max-age") /\ RequestDirectives(q).min_fresh = Value("min-fresh")
      /\ RequestDirectives(q).max_stale = Value("max-stale")
  BY DEF RequestDirectives
<1>5. \A name : Value(name) \in Nat \cup {None}
  BY <1>2
<1>6. ResponseDirectives(cc).swr \in Nat \cup {None}
  BY <1>2, <1>3
<1> QED
  BY <1>4, <1>5, <1>6

\* Every answer from the cache stands up, in true time: whatever the servers' clocks show and
\* however long responses, 304s and writes take, for any requests and replies of any
\* directives (InMemoryHttpCache::get, CacheEntry::current_age, freshness_lifetime,
\* updated_by_304).
THEOREM AnswersHold == Spec => []AnswersStandUp
<1>1. CacheInv /\ TimesInv => AnswersStandUp
  <2> SUFFICES ASSUME CacheInv, TimesInv, NEW q \in Probes, NEW d, d = lookup(q), d.kind \in {"Use", "UseStale"}
               PROVE  StandsUp(q, d, Behind(KeyFor(q), d.entry))
    BY DEF AnswersStandUp
  <2>1. PICK k : k = KeyFor(q) /\ k \in Keys /\ k.jar = q.jar
    BY ChosenIsStored, KeyFields
  <2>2. PICK n \in DOMAIN keys[k] : Behind(k, d.entry) = keys[k][n] /\ keys[k][n].entry = d.entry
    BY <2>1, ChosenIsStored
  <2>3. PICK es : d.entry = Newest(es, q) /\ d = decide(es, q, now)
    BY ChosenIsStored
  <2>4. PICK s, e : s = keys[k][n] /\ e = d.entry /\ e = s.entry /\ s = Behind(k, d.entry)
    BY <2>2
  <2>5. EntryFits(s.entry, s.src) /\ s.src.jar = q.jar /\ now \in Nat
    BY ZenonT(60), <2>1, <2>4 DEF TimesInv, VariantsFit, CacheInv, KeysOK, VariantsOK, SrcFits
  <2>6. PICK asked, said : asked = RequestDirectives(q) /\ said = ResponseDirectives(e.head.cc)
    OBVIOUS
  <2>7. PICK age, life : age = current_age(e, now)
            /\ life = IF freshness_lifetime(e) = None THEN 0 ELSE freshness_lifetime(e)
    OBVIOUS
  <2>8. /\ ~said.no_cache
        /\ \/ /\ effective_mode(q) = "ForceCache" \/ effective_mode(q) = "OnlyIfCached" \/ asked.only_if_cached
              /\ said.must_revalidate => is_fresh(e, now)
           \/ /\ ~asked.no_cache
              /\ asked.max_age = None \/ age <= asked.max_age
              /\ asked.min_fresh = None \/ life - age >= asked.min_fresh
              /\ \/ age < life
                 \/ StaleAllowed(asked, said, age - life)
                 \/ /\ d.kind = "UseStale" /\ ~said.must_revalidate
                    /\ said.swr # None /\ age - life <= said.swr
    BY ZenonT(60), <2>3, <2>4, <2>6, <2>7, WhyUsed
  <2>9. /\ said.swr \in Nat \cup {None} /\ asked.max_age \in Nat \cup {None}
        /\ asked.min_fresh \in Nat \cup {None} /\ asked.max_stale \in Nat \cup {None} /\ None \notin Int
    <3>1. e.head.cc \in Directives /\ q.cc \in Directives
      BY <2>4, <2>5, TimeAssumption DEF EntryFits, EntryType, HeadType, TimeAssumption
    <3> QED
      BY <2>6, <3>1, Numbers, RulesAssumption DEF RulesAssumption
  <2>10. age \in Int /\ now - s.src.born <= age /\ s.src.born \in Int
    BY <2>4, <2>5, <2>7, AgeIsKnown DEF EntryFits
  <2>11. PICK until : until = VouchedUntil(s)
    OBVIOUS
  <2>12. until # None => /\ until \in Int /\ life \in Nat /\ until - now >= life - age
                         /\ freshness_lifetime(e) = life
    BY <2>4, <2>5, <2>7, <2>11, LifeIsVouched
  <2>13. said.must_revalidate => ~(until # None /\ now >= until)
    <3>1. CASE is_fresh(e, now)
      BY <2>5, <2>7, <2>10, <2>12, <3>1 DEF is_fresh
    <3>2. CASE age < life
      BY <2>5, <2>10, <2>12, <3>2
    <3> QED
      BY <2>8, <3>1, <3>2 DEF StaleAllowed
  <2>14. ASSUME q.mode = "Default", ~asked.only_if_cached
         PROVE  /\ ~asked.no_cache
                /\ asked.max_age # None => now - s.src.born <= asked.max_age
                /\ asked.min_fresh # None /\ until # None => now + asked.min_fresh <= until
                /\ until # None /\ now >= until =>
                      \/ d.kind = "UseStale" /\ said.swr # None /\ (until # None => now <= until + said.swr)
                      \/ asked.stale /\ (asked.max_stale = None \/ (until # None => now <= until + asked.max_stale))
    <3>1. effective_mode(q) \notin {"ForceCache", "OnlyIfCached"}
      BY <2>14 DEF effective_mode
    <3>2. /\ ~asked.no_cache
          /\ asked.max_age = None \/ age <= asked.max_age
          /\ asked.min_fresh = None \/ life - age >= asked.min_fresh
      BY <2>8, <2>14, <3>1
    <3>3. \/ age < life
          \/ asked.stale /\ (asked.max_stale = None \/ age - life <= asked.max_stale)
          \/ d.kind = "UseStale" /\ said.swr # None /\ age - life <= said.swr
      BY <2>8, <2>14, <3>1 DEF StaleAllowed
    <3>4. asked.max_age # None => now - s.src.born <= asked.max_age
      BY <2>5, <2>9, <2>10, <3>2
    <3>5. asked.min_fresh # None /\ until # None => now + asked.min_fresh <= until
      BY <2>5, <2>9, <2>10, <2>12, <3>2
    <3>6. ASSUME until # None, now >= until
          PROVE  \/ d.kind = "UseStale" /\ said.swr # None /\ now <= until + said.swr
                 \/ asked.stale /\ (asked.max_stale = None \/ now <= until + asked.max_stale)
      <4>1. ~(age < life)
        BY <2>5, <2>10, <2>12, <3>6
      <4>2. CASE asked.stale /\ (asked.max_stale = None \/ age - life <= asked.max_stale)
        BY <2>5, <2>9, <2>10, <2>12, <3>6, <4>2
      <4>3. CASE d.kind = "UseStale" /\ said.swr # None /\ age - life <= said.swr
        BY <2>5, <2>9, <2>10, <2>12, <3>6, <4>3
      <4> QED
        BY <3>3, <4>1, <4>2, <4>3
    <3> QED
      BY <3>2, <3>4, <3>5, <3>6
  <2>15. StandsUp(q, d, s)
    BY <2>4, <2>5, <2>6, <2>8, <2>11, <2>13, <2>14 DEF StandsUp
  <2> QED
    BY <2>1, <2>4, <2>15
<1> QED
  BY <1>1, InitTimes, StepTimes, CacheInvariant, PTL DEF Spec

-----------------------------------------------------------------------------
(* The books: what is charged, byte by byte.                               *)

ListCharged(l) == IsList(l) /\ \A n \in DOMAIN l : l[n].charged \in Nat

Charges(ks) == DOMAIN ks = Keys /\ \A k \in Keys : ListCharged(ks[k])

OrderOnce(order) == order \in Seq(Keys) /\ IsInjective(order)

InOrderOnce(order, ks) == OrderOnce(order) /\ ToSet(order) = {k \in Keys : ks[k] # <<>>}

BookInv ==
    /\ Charges(keys) /\ InOrderOnce(lru, keys)
    /\ bytes = ChargedUnder(keys, ToSet(lru)) /\ bytes <= MaxBytes

LEMMA ListIs ==
    ASSUME NEW l, IsList(l)
    PROVE  Len(l) \in Nat /\ DOMAIN l = 1..Len(l)
<1>1. PICK S : l \in Seq(S)
  BY DEF IsList
<1> QED BY <1>1

\* What finitely many finite sets have together, and what two have that share nothing.
LEMMA FiniteUnion ==
    ASSUME NEW S, IsFiniteSet(S), NEW f, \A x \in S : IsFiniteSet(f[x]),
           NEW T, \A y \in T : \E x \in S : y = f[x]
    PROVE  IsFiniteSet(UNION T)
<1>1. PICK R, g : R = {f[x] : x \in S} /\ g = [x \in S |-> f[x]]
  OBVIOUS
<1>2. g \in Surjection(S, R)
  BY <1>1 DEF Surjection
<1>3. IsFiniteSet(R)
  BY <1>2, FS_Surjection
<1>4. IsFiniteSet(T)
  <2>1. T \in SUBSET R
    BY <1>1
  <2> QED BY <1>3, <2>1, FS_Subset
<1>5. \A y \in T : IsFiniteSet(y)
  OBVIOUS
<1> QED BY <1>4, <1>5, FS_UNION

LEMMA Adds ==
    ASSUME NEW A, NEW B, IsFiniteSet(A), IsFiniteSet(B), A \cap B = {}
    PROVE  /\ IsFiniteSet(A \cup B) /\ Cardinality(A) \in Nat /\ Cardinality(B) \in Nat
           /\ Cardinality(A \cup B) = Cardinality(A) + Cardinality(B)
<1>1. Cardinality(A \cap B) = 0 /\ Cardinality(A) \in Nat /\ Cardinality(B) \in Nat
  BY FS_EmptySet, FS_CardinalityType
<1>2. IsFiniteSet(A \cup B) /\ Cardinality(A \cup B) = Cardinality(A) + Cardinality(B) - Cardinality(A \cap B)
  BY FS_Union
<1> QED BY <1>1, <1>2

LEMMA Several ==
    ASSUME NEW x, NEW B, IsFiniteSet(B)
    PROVE  IsFiniteSet({x} \X B) /\ Cardinality({x} \X B) = Cardinality(B)
<1>1. IsFiniteSet({x}) /\ Cardinality({x}) = 1 /\ Cardinality(B) \in Nat
  BY FS_Singleton, FS_CardinalityType
<1>2. IsFiniteSet({x} \X B) /\ Cardinality({x} \X B) = Cardinality({x}) * Cardinality(B)
  BY <1>1, FS_Product
<1> QED BY <1>1, <1>2

-----------------------------------------------------------------------------
(* The variants of a key.                                                  *)

\* The bytes of the variants at some indices.
BytesAt(l, ns) == UNION {{n} \X (1..l[n].charged) : n \in ns}

LEMMA BytesAtFinite ==
    ASSUME NEW l, ListCharged(l), NEW ns, ns \subseteq DOMAIN l
    PROVE  IsFiniteSet(BytesAt(l, ns))
<1>1. PICK f : f = [n \in ns |-> {n} \X (1..l[n].charged)]
  OBVIOUS
<1>2. IsFiniteSet(ns)
  <2>1. Len(l) \in Nat /\ DOMAIN l = 1..Len(l)
    BY ListIs DEF ListCharged
  <2>2. IsFiniteSet(1..Len(l))
    BY <2>1, FS_Interval
  <2> QED BY <2>1, <2>2, FS_Subset
<1>3. ASSUME NEW n \in ns PROVE IsFiniteSet(f[n])
  <2>1. l[n].charged \in Nat
    BY DEF ListCharged
  <2>2. IsFiniteSet(1..l[n].charged)
    BY <2>1, FS_Interval
  <2> QED BY <1>1, <2>2, Several
<1>4. PICK T : T = {{n} \X (1..l[n].charged) : n \in ns}
  OBVIOUS
<1>5. \A y \in T : \E n \in ns : y = f[n]
  BY <1>1, <1>4
<1>6. IsFiniteSet(UNION T)
  BY <1>2, <1>3, <1>5, FiniteUnion
<1> QED BY <1>4, <1>6 DEF BytesAt

\* One variant apart from the others.
LEMMA OneVariant ==
    ASSUME NEW l, ListCharged(l), NEW p \in DOMAIN l
    PROVE  /\ Cardinality(Bytes(l)) = Cardinality(BytesAt(l, DOMAIN l \ {p})) + l[p].charged
           /\ Cardinality(BytesAt(l, DOMAIN l \ {p})) \in Nat
<1>1. PICK A, B : A = BytesAt(l, DOMAIN l \ {p}) /\ B = {p} \X (1..l[p].charged)
  OBVIOUS
<1>2. PICK c \in Nat : c = l[p].charged
  BY DEF ListCharged
<1>3. IsFiniteSet(1..c) /\ Cardinality(1..c) = c
  <2>1. Cardinality(1..c) = IF 1 > c THEN 0 ELSE c - 1 + 1
    BY FS_Interval
  <2>2. IsFiniteSet(1..c)
    BY FS_Interval
  <2> QED BY <2>1, <2>2
<1>4. IsFiniteSet(B) /\ Cardinality(B) = l[p].charged
  BY <1>1, <1>2, <1>3, Several
<1>5. IsFiniteSet(A)
  BY <1>1, BytesAtFinite
<1>6. A \cap B = {}
  BY <1>1 DEF BytesAt
<1>7. Bytes(l) = A \cup B
  BY <1>1 DEF Bytes, BytesAt
<1> QED BY <1>1, <1>4, <1>5, <1>6, <1>7, Adds

LEMMA BytesFinite ==
    ASSUME NEW l, ListCharged(l)
    PROVE  IsFiniteSet(Bytes(l)) /\ Cardinality(Bytes(l)) \in Nat
<1>1. Bytes(l) = BytesAt(l, DOMAIN l)
  BY DEF Bytes, BytesAt
<1> QED BY <1>1, BytesAtFinite, FS_CardinalityType

LEMMA NoBytes == ListCharged(<<>>) /\ Cardinality(Bytes(<<>>)) = 0
<1>1. Bytes(<<>>) = {}
  BY DEF Bytes
<1> QED BY <1>1, FS_EmptySet DEF ListCharged, IsList

LEMMA ReplacedCharge ==
    ASSUME NEW l, ListCharged(l), NEW p \in DOMAIN l, NEW x, x.charged \in Nat
    PROVE  /\ ListCharged([l EXCEPT ![p] = x]) /\ [l EXCEPT ![p] = x] # <<>>
           /\ Cardinality(Bytes([l EXCEPT ![p] = x])) = Cardinality(Bytes(l)) - l[p].charged + x.charged
<1>1. PICK S : S = {l[n] : n \in DOMAIN l} /\ l \in Seq(S)
  BY DEF ListCharged, IsList
<1>2. PICK a : a = [l EXCEPT ![p] = x]
  OBVIOUS
<1>3. Len(l) \in Nat /\ DOMAIN l = 1..Len(l) /\ DOMAIN a = 1..Len(l) /\ a[p] = x
      /\ \A n \in DOMAIN l : n # p => a[n] = l[n]
  BY <1>1, <1>2
<1>4. ListCharged(a)
  <2>1. a = [n \in 1..Len(l) |-> a[n]]
    BY <1>1, <1>2, <1>3
  <2>2. \A n \in 1..Len(l) : a[n] \in {a[m] : m \in DOMAIN a}
    BY <1>3
  <2>3. \A n \in DOMAIN a : a[n].charged \in Nat
    BY <1>3 DEF ListCharged
  <2> QED BY <1>3, <2>1, <2>2, <2>3 DEF ListCharged, IsList
<1>5. BytesAt(a, DOMAIN a \ {p}) = BytesAt(l, DOMAIN l \ {p})
  <2>1. DOMAIN a = DOMAIN l /\ \A n \in DOMAIN l \ {p} : a[n].charged = l[n].charged
    BY <1>3
  <2> QED BY <2>1 DEF BytesAt
<1>6. l[p].charged \in Nat /\ p \in DOMAIN a
  BY <1>3 DEF ListCharged
<1>7. /\ Cardinality(Bytes(l)) = Cardinality(BytesAt(l, DOMAIN l \ {p})) + l[p].charged
      /\ Cardinality(BytesAt(l, DOMAIN l \ {p})) \in Nat
  BY OneVariant
<1>8. Cardinality(Bytes(a)) = Cardinality(BytesAt(a, DOMAIN a \ {p})) + a[p].charged
  BY <1>4, <1>6, OneVariant
<1>9. Cardinality(Bytes(a)) = Cardinality(Bytes(l)) - l[p].charged + x.charged
  BY <1>3, <1>5, <1>6, <1>7, <1>8
<1>10. a # <<>>
  BY <1>3, <1>6
<1> QED BY <1>2, <1>4, <1>9, <1>10

LEMMA AppendedCharge ==
    ASSUME NEW l, ListCharged(l), NEW x, x.charged \in Nat
    PROVE  /\ ListCharged(Append(l, x)) /\ Append(l, x) # <<>>
           /\ Cardinality(Bytes(Append(l, x))) = Cardinality(Bytes(l)) + x.charged
<1>1. PICK S : S = {l[n] : n \in DOMAIN l} /\ l \in Seq(S)
  BY DEF ListCharged, IsList
<1>2. PICK a : a = Append(l, x)
  OBVIOUS
<1>3. PICK p \in Nat : p = Len(l) + 1
  BY <1>1
<1>4. DOMAIN l = 1..(p - 1) /\ DOMAIN a = 1..p /\ a[p] = x /\ \A n \in DOMAIN l : a[n] = l[n]
  BY <1>1, <1>2, <1>3
<1>5. \A n \in DOMAIN a : (n \in DOMAIN l /\ a[n] = l[n]) \/ (n = p /\ a[n] = x)
  BY <1>3, <1>4
<1>6. ListCharged(a)
  <2>1. a = [n \in 1..p |-> a[n]]
    <3>1. l \in Seq(S \cup {x})
      BY <1>1
    <3>2. a \in Seq(S \cup {x})
      BY <1>2, <3>1
    <3> QED BY <1>4, <3>2
  <2>2. \A n \in 1..p : a[n] \in {a[m] : m \in DOMAIN a}
    BY <1>4
  <2>3. \A n \in DOMAIN a : a[n].charged \in Nat
    BY <1>5 DEF ListCharged
  <2> QED BY <1>3, <2>1, <2>2, <2>3, <1>4 DEF ListCharged, IsList
<1>7. p \in DOMAIN a /\ DOMAIN a \ {p} = DOMAIN l
  <2>1. p >= 1
    BY <1>1, <1>3
  <2> QED BY <1>3, <1>4, <2>1
<1>8. BytesAt(a, DOMAIN a \ {p}) = Bytes(l)
  <2>1. \A n \in DOMAIN l : a[n].charged = l[n].charged
    BY <1>4
  <2> QED BY <1>7, <2>1 DEF BytesAt, Bytes
<1>9. Cardinality(Bytes(a)) = Cardinality(BytesAt(a, DOMAIN a \ {p})) + a[p].charged
  BY <1>6, <1>7, OneVariant
<1>10. a # <<>>
  BY <1>7
<1> QED BY <1>2, <1>4, <1>6, <1>8, <1>9, <1>10

-----------------------------------------------------------------------------
(* The keys.                                                               *)

LEMMA UnderFinite ==
    ASSUME NEW ks, Charges(ks), NEW held, held \subseteq Keys, IsFiniteSet(held)
    PROVE  IsFiniteSet(BytesUnder(ks, held)) /\ ChargedUnder(ks, held) \in Nat
<1>1. PICK f : f = [k \in held |-> {k} \X Bytes(ks[k])]
  OBVIOUS
<1>2. ASSUME NEW k \in held PROVE IsFiniteSet(f[k])
  <2>1. IsFiniteSet(Bytes(ks[k]))
    BY BytesFinite DEF Charges
  <2> QED BY <1>1, <2>1, Several
<1>3. PICK T : T = {{k} \X Bytes(ks[k]) : k \in held}
  OBVIOUS
<1>4. IsFiniteSet(BytesUnder(ks, held))
  <2>1. \A y \in T : \E k \in held : y = f[k]
    BY <1>1, <1>3
  <2>2. IsFiniteSet(UNION T)
    BY <1>2, <2>1, FiniteUnion
  <2> QED BY <1>3, <2>2 DEF BytesUnder
<1> QED BY <1>4, FS_CardinalityType DEF ChargedUnder

LEMMA UnderSplit ==
    ASSUME NEW ks, Charges(ks), NEW S, NEW T, S \subseteq Keys, T \subseteq Keys,
           IsFiniteSet(S), IsFiniteSet(T), S \cap T = {}
    PROVE  /\ ChargedUnder(ks, S \cup T) = ChargedUnder(ks, S) + ChargedUnder(ks, T)
           /\ ChargedUnder(ks, S) \in Nat /\ ChargedUnder(ks, T) \in Nat
<1>1. PICK A, B : A = BytesUnder(ks, S) /\ B = BytesUnder(ks, T)
  OBVIOUS
<1>2. IsFiniteSet(A) /\ IsFiniteSet(B)
  BY <1>1, UnderFinite
<1>3. A \cap B = {}
  BY <1>1 DEF BytesUnder
<1>4. BytesUnder(ks, S \cup T) = A \cup B
  BY <1>1 DEF BytesUnder
<1> QED BY <1>1, <1>2, <1>3, <1>4, Adds DEF ChargedUnder

LEMMA UnderSame ==
    ASSUME NEW ks, NEW js, NEW held, \A k \in held : ks[k] = js[k]
    PROVE  ChargedUnder(ks, held) = ChargedUnder(js, held)
<1>1. BytesUnder(ks, held) = BytesUnder(js, held)
  BY DEF BytesUnder
<1> QED BY <1>1 DEF ChargedUnder

LEMMA UnderOne ==
    ASSUME NEW ks, Charges(ks), NEW k \in Keys
    PROVE  ChargedUnder(ks, {k}) = Cardinality(Bytes(ks[k]))
<1>1. BytesUnder(ks, {k}) = {k} \X Bytes(ks[k])
  BY DEF BytesUnder
<1>2. IsFiniteSet(Bytes(ks[k]))
  BY BytesFinite DEF Charges
<1> QED BY <1>1, <1>2, Several DEF ChargedUnder

LEMMA UnderNone == ASSUME NEW ks PROVE ChargedUnder(ks, {}) = 0
<1>1. BytesUnder(ks, {}) = {}
  BY DEF BytesUnder
<1> QED BY <1>1, FS_EmptySet DEF ChargedUnder

-----------------------------------------------------------------------------
(* The order of the keys.                                                  *)

\* A set of indices has an order.
LEMMA InOrder ==
    ASSUME NEW len \in Nat, NEW keep, keep \subseteq 1..len
    PROVE  \E f \in [1..Cardinality(keep) -> keep] : \A m, n \in DOMAIN f : m < n => f[m] < f[n]
<1> DEFINE Lined(s) == \E f \in [1..Cardinality(s) -> s] : \A m, n \in DOMAIN f : m < n => f[m] < f[n]
           T == {k \in Nat : \A s \in SUBSET (1..k) : Lined(s)}
<1>1. 0 \in T
  <2>1. \A s \in SUBSET (1..0) : s = {}
    OBVIOUS
  <2>2. Cardinality({}) = 0
    BY FS_EmptySet
  <2>3. Lined({})
    <3>1. PICK f : f = [n \in 1..0 |-> n]
      OBVIOUS
    <3>2. f \in [1..Cardinality({}) -> {}] /\ DOMAIN f = {}
      BY <2>2, <3>1
    <3> QED BY <3>2
  <2> QED BY <2>1, <2>3
<1>2. ASSUME NEW k \in T
      PROVE  k + 1 \in T
  <2>1. k \in Nat /\ \A s \in SUBSET (1..k) : Lined(s)
    OBVIOUS
  <2>2. SUFFICES ASSUME NEW s \in SUBSET (1..(k + 1))
                 PROVE  Lined(s)
    BY <2>1
  <2>3. CASE k + 1 \notin s
    <3>1. s \in SUBSET (1..k)
      BY <2>1, <2>3
    <3> QED BY <2>1, <3>1
  <2>4. CASE k + 1 \in s
    <3>1. PICK r : r = s \ {k + 1}
      OBVIOUS
    <3>2. r \in SUBSET (1..k)
      BY <2>1, <3>1
    <3>3. IsFiniteSet(s)
      <4>1. IsFiniteSet(1..(k + 1)) /\ s \in SUBSET (1..(k + 1))
        BY <2>1, FS_Interval
      <4> QED BY <4>1, FS_Subset
    <3>4. PICK c \in Nat : Cardinality(r) = c /\ Cardinality(s) = c + 1
      <4>1. Cardinality(s) \in Nat /\ Cardinality(r) = Cardinality(s) - 1 /\ IsFiniteSet(r)
        BY <2>4, <3>1, <3>3, FS_RemoveElement, FS_CardinalityType
      <4>2. Cardinality(r) \in Nat
        BY <4>1, FS_CardinalityType
      <4> QED BY <4>1, <4>2
    <3>5. PICK f \in [1..c -> r] : \A m, n \in DOMAIN f : m < n => f[m] < f[n]
      BY <2>1, <3>2, <3>4
    <3>6. PICK g : g = [n \in 1..(c + 1) |-> IF n = c + 1 THEN k + 1 ELSE f[n]]
      OBVIOUS
    <3>7. DOMAIN g = 1..(c + 1) /\ g[c + 1] = k + 1 /\ \A n \in 1..c : g[n] = f[n] /\ f[n] \in r /\ f[n] < k + 1
      <4>1. \A x \in r : x < k + 1
        BY <2>1, <3>2
      <4> QED BY <3>5, <3>6, <4>1
    <3>8. g \in [1..(c + 1) -> s]
      BY <2>4, <3>1, <3>6, <3>7
    <3>9. ASSUME NEW m \in DOMAIN g, NEW n \in DOMAIN g, m < n
          PROVE  g[m] < g[n]
      <4>1. m \in 1..c
        BY <3>7, <3>9
      <4>2. CASE n = c + 1
        BY <3>7, <4>1, <4>2
      <4>3. CASE n # c + 1
        <5>1. n \in 1..c
          BY <3>7, <4>3
        <5> QED BY <3>5, <3>7, <3>9, <4>1, <5>1
      <4> QED BY <4>2, <4>3
    <3> QED BY <3>4, <3>8, <3>9
  <2> QED BY <2>3, <2>4
<1>3. len \in T
  <2> HIDE DEF T
  <2> QED BY <1>1, <1>2, Induction
<1> QED BY <1>3

LEMMA OrderedIs ==
    ASSUME NEW len \in Nat, NEW keep, keep \subseteq 1..len
    PROVE  /\ Ordered(keep) \in [1..Cardinality(keep) -> keep]
           /\ \A m, n \in DOMAIN Ordered(keep) : m < n => Ordered(keep)[m] < Ordered(keep)[n]
<1>1. \E f \in [1..Cardinality(keep) -> keep] : \A m, n \in DOMAIN f : m < n => f[m] < f[n]
  BY InOrder
<1> QED BY <1>1 DEF Ordered

LEMMA OrderIs ==
    ASSUME NEW order, OrderOnce(order)
    PROVE  /\ Len(order) \in Nat /\ DOMAIN order = 1..Len(order)
           /\ ToSet(order) \subseteq Keys /\ IsFiniteSet(ToSet(order))
           /\ \A m, n \in DOMAIN order : order[m] = order[n] => m = n
<1>1. Len(order) \in Nat /\ DOMAIN order = 1..Len(order) /\ ToSet(order) \subseteq Keys
      /\ \A m, n \in DOMAIN order : order[m] = order[n] => m = n
  BY DEF OrderOnce, IsInjective, ToSet
<1>2. IsFiniteSet(DOMAIN order)
  BY <1>1, FS_Interval
<1>3. order \in Surjection(DOMAIN order, ToSet(order))
  <2>1. order = [n \in DOMAIN order |-> order[n]]
    BY DEF OrderOnce
  <2> QED BY <2>1 DEF Surjection, ToSet
<1>4. IsFiniteSet(ToSet(order))
  BY <1>2, <1>3, FS_Surjection
<1> QED BY <1>1, <1>4

LEMMA WithoutIs ==
    ASSUME NEW order, OrderOnce(order), NEW doomed
    PROVE  OrderOnce(Without(order, doomed)) /\ ToSet(Without(order, doomed)) = ToSet(order) \ doomed
<1>1. /\ Len(order) \in Nat /\ DOMAIN order = 1..Len(order)
      /\ \A m, n \in DOMAIN order : order[m] = order[n] => m = n
  BY OrderIs
<1>2. PICK keep : keep = {n \in DOMAIN order : order[n] \notin doomed}
  OBVIOUS
<1>3. IsFiniteSet(keep)
  <2>1. IsFiniteSet(1..Len(order)) /\ keep \subseteq 1..Len(order)
    BY <1>1, <1>2, FS_Interval
  <2> QED BY <2>1, FS_Subset
<1>4. PICK c \in Nat : c = Cardinality(keep)
  BY <1>3, FS_CardinalityType
<1>5. PICK f : f = Ordered(keep) /\ f \in [1..c -> keep] /\ \A m, n \in DOMAIN f : m < n => f[m] < f[n]
  <2>1. keep \subseteq 1..Len(order)
    BY <1>1, <1>2
  <2> QED BY <1>1, <1>4, <2>1, OrderedIs
<1>6. \A m, n \in 1..c : f[m] = f[n] => m = n
  <2>1. SUFFICES ASSUME NEW m \in 1..c, NEW n \in 1..c, m # n PROVE f[m] # f[n]
    OBVIOUS
  <2>2. f[m] \in Nat /\ f[n] \in Nat /\ (m < n \/ n < m)
    BY <1>1, <1>2, <1>5, <2>1
  <2>3. m < n => f[m] < f[n]
    BY <1>5
  <2>4. n < m => f[n] < f[m]
    BY <1>5
  <2> QED BY <2>2, <2>3, <2>4
<1>7. \A x \in keep : \E n \in 1..c : f[n] = x
  <2>1. f \in Injection(1..c, keep)
    BY <1>5, <1>6 DEF Injection, IsInjective
  <2>2. Cardinality(1..c) = c
    BY <1>4, FS_Interval
  <2>3. f \in Surjection(1..c, keep)
    BY <1>3, <1>4, <2>1, <2>2, FS_Injection
  <2> QED BY <2>3 DEF Surjection
<1>8. PICK r : r = Without(order, doomed) /\ r = [n \in 1..c |-> order[f[n]]]
  BY <1>2, <1>4, <1>5 DEF Without, Retained
<1>9. DOMAIN r = 1..c /\ \A n \in 1..c : r[n] = order[f[n]] /\ f[n] \in keep
  BY <1>5, <1>8
<1>10. OrderOnce(r)
  <2>1. \A n \in 1..c : r[n] \in Keys
    <3>1. \A n \in DOMAIN order : order[n] \in Keys
      BY DEF OrderOnce
    <3> QED BY <1>2, <1>9, <3>1
  <2>2. r \in Seq(Keys)
    BY <1>4, <1>8, <1>9, <2>1
  <2>3. \A m, n \in 1..c : r[m] = r[n] => m = n
    BY <1>1, <1>2, <1>6, <1>9
  <2> QED BY <1>9, <2>2, <2>3 DEF OrderOnce, IsInjective
<1>11. ToSet(r) = ToSet(order) \ doomed
  <2>1. ASSUME NEW x \in ToSet(r) PROVE x \in ToSet(order) \ doomed
    BY <1>2, <1>9, <2>1 DEF ToSet
  <2>2. ASSUME NEW x \in ToSet(order) \ doomed PROVE x \in ToSet(r)
    <3>1. PICK m \in keep : order[m] = x
      BY <1>2, <2>2 DEF ToSet
    <3>2. PICK n \in 1..c : f[n] = m
      BY <1>7
    <3> QED BY <1>9, <3>1, <3>2 DEF ToSet
  <2> QED BY <2>1, <2>2
<1> QED BY <1>8, <1>10, <1>11

LEMMA AppendIs ==
    ASSUME NEW order, OrderOnce(order), NEW k \in Keys, k \notin ToSet(order)
    PROVE  OrderOnce(Append(order, k)) /\ ToSet(Append(order, k)) = ToSet(order) \cup {k}
<1>1. PICK a : a = Append(order, k) /\ a \in Seq(Keys)
  <2>1. Append(order, k) \in Seq(Keys)
    BY DEF OrderOnce
  <2> QED BY <2>1
<1>2. PICK p \in Nat : p = Len(order) + 1
  BY DEF OrderOnce
<1>3. /\ DOMAIN order = 1..(p - 1) /\ DOMAIN a = 1..p /\ p \in DOMAIN a /\ a[p] = k
      /\ \A n \in DOMAIN order : a[n] = order[n]
  <2>1. Len(order) \in Nat /\ DOMAIN order = 1..Len(order)
    BY OrderIs
  <2> QED BY <1>1, <1>2, <2>1 DEF OrderOnce
<1>4. \A n \in DOMAIN a : (n \in DOMAIN order /\ a[n] = order[n]) \/ (n = p /\ a[n] = k)
  BY <1>2, <1>3
<1>5. \A m, n \in DOMAIN a : a[m] = a[n] => m = n
  BY <1>4, OrderIs DEF ToSet
<1>6. ToSet(a) = ToSet(order) \cup {k}
  <2>1. \A n \in DOMAIN order : n \in DOMAIN a
    BY <1>2, <1>3
  <2> QED BY <1>3, <1>4, <2>1 DEF ToSet
<1> QED BY <1>1, <1>5, <1>6 DEF OrderOnce, IsInjective

\* The keys after the first few.
LEMMA RestIs ==
    ASSUME NEW order, OrderOnce(order), NEW n \in 0..Len(order)
    PROVE  /\ OrderOnce(SubSeq(order, n + 1, Len(order)))
           /\ ToSet(SubSeq(order, n + 1, Len(order))) = ToSet(order) \ First(order, n)
           /\ First(order, n) \subseteq ToSet(order)
<1>1. PICK len \in Nat : len = Len(order) /\ DOMAIN order = 1..len /\ n \in 0..len
  BY OrderIs
<1>2. PICK s : s = SubSeq(order, n + 1, len)
  OBVIOUS
<1>3. s \in Seq(Keys) /\ DOMAIN s = 1..(len - n) /\ \A i \in 1..(len - n) : s[i] = order[n + i]
  <2>1. s = [i \in 1..(len - n) |-> order[n + i]]
    BY <1>1, <1>2 DEF OrderOnce
  <2>2. \A i \in 1..(len - n) : order[n + i] \in Keys
    BY <1>1 DEF OrderOnce
  <2> QED BY <1>1, <2>1, <2>2
<1>4. \A i, j \in DOMAIN order : order[i] = order[j] => i = j
  BY OrderIs
<1>5. \A i \in DOMAIN s : n + i \in DOMAIN order /\ s[i] = order[n + i] /\ i \in Nat /\ i > 0
  BY <1>1, <1>3
<1>6. \A i, j \in DOMAIN s : s[i] = s[j] => i = j
  <2>1. SUFFICES ASSUME NEW i \in DOMAIN s, NEW j \in DOMAIN s, s[i] = s[j] PROVE i = j
    OBVIOUS
  <2>2. n + i = n + j
    BY <1>4, <1>5, <2>1
  <2> QED BY <1>1, <1>5, <2>2
<1>7. ASSUME NEW x \in ToSet(s) PROVE x \in ToSet(order) \ First(order, n)
  <2>1. PICK i \in DOMAIN s : s[i] = x
    BY <1>7 DEF ToSet
  <2>2. n + i \in DOMAIN order /\ x = order[n + i]
    BY <1>5, <2>1
  <2>3. ASSUME NEW j \in 1..n, order[j] = x PROVE FALSE
    <3>1. j \in DOMAIN order /\ j # n + i
      BY <1>1, <1>5, <2>1
    <3> QED BY <1>4, <2>2, <2>3, <3>1
  <2> QED BY <2>2, <2>3 DEF ToSet, First
<1>8. ASSUME NEW x \in ToSet(order) \ First(order, n) PROVE x \in ToSet(s)
  <2>1. PICK i \in 1..len : order[i] = x
    BY <1>1 DEF ToSet
  <2>2. i > n
    BY <1>1, <1>8, <2>1 DEF First
  <2>3. PICK j \in 1..(len - n) : i = n + j
    <3>1. i - n \in 1..(len - n) /\ i = n + (i - n)
      BY <1>1, <2>2
    <3> QED BY <3>1
  <2> QED BY <1>3, <2>1, <2>3 DEF ToSet
<1>9. First(order, n) \subseteq ToSet(order)
  BY <1>1 DEF First, ToSet
<1> QED BY <1>1, <1>2, <1>3, <1>6, <1>7, <1>8, <1>9 DEF OrderOnce, IsInjective

-----------------------------------------------------------------------------
(* The operations keep the books.                                          *)

\* What goes and what stays is charged apart.
LEMMA Apart ==
    ASSUME NEW ks, Charges(ks), NEW held, held \subseteq Keys, IsFiniteSet(held), NEW gone, gone \subseteq held
    PROVE  /\ ChargedUnder(ks, held \ gone) = ChargedUnder(ks, held) - ChargedUnder(ks, gone)
           /\ ChargedUnder(ks, held \ gone) \in Nat /\ ChargedUnder(ks, gone) \in Nat
<1>1. IsFiniteSet(gone) /\ IsFiniteSet(held \ gone)
  BY FS_Subset
<1>2. (held \ gone) \cup gone = held
  OBVIOUS
<1>3. /\ ChargedUnder(ks, (held \ gone) \cup gone) = ChargedUnder(ks, held \ gone) + ChargedUnder(ks, gone)
      /\ ChargedUnder(ks, held \ gone) \in Nat /\ ChargedUnder(ks, gone) \in Nat
  BY <1>1, UnderSplit
<1>4. PICK a, b, c : a = ChargedUnder(ks, held) /\ b = ChargedUnder(ks, held \ gone) /\ c = ChargedUnder(ks, gone)
  OBVIOUS
<1>5. a = b + c /\ b \in Nat /\ c \in Nat
  BY <1>2, <1>3, <1>4
<1>6. b = a - c
  BY <1>5
<1> QED BY <1>4, <1>5, <1>6

LEMMA EvictBooks ==
    ASSUME NEW ks, Charges(ks), NEW order, InOrderOnce(order, ks), evict(ks, order, ChargedUnder(ks, ToSet(order)))
    PROVE  BookInv'
<1>1. PICK total : total = ChargedUnder(ks, ToSet(order))
  OBVIOUS
<1>2. PICK enough : enough = {n \in 0..Len(order) : total - ChargedUnder(ks, First(order, n)) <= MaxBytes}
  OBVIOUS
<1>3. PICK gone : gone = CHOOSE n \in enough : \A m \in enough : n <= m
  OBVIOUS
<1>4. /\ Len(order) \in Nat /\ DOMAIN order = 1..Len(order) /\ ToSet(order) \subseteq Keys
      /\ IsFiniteSet(ToSet(order)) /\ OrderOnce(order) /\ ToSet(order) = {k \in Keys : ks[k] # <<>>}
  BY OrderIs DEF InOrderOnce
<1>5. gone \in enough
  <2>1. First(order, Len(order)) = ToSet(order)
    BY <1>4 DEF First, ToSet
  <2>2. total \in Nat
    BY <1>1, <1>4, UnderFinite
  <2>3. Len(order) \in enough
    <3>1. total - ChargedUnder(ks, First(order, Len(order))) = 0
      BY <1>1, <2>1, <2>2
    <3>2. 0 <= MaxBytes /\ Len(order) \in 0..Len(order)
      BY <1>4, CacheAssumption DEF CacheAssumption
    <3> QED BY <1>2, <3>1, <3>2
  <2>4. enough \subseteq Nat
    BY <1>2, <1>4
  <2>5. \E n \in enough : \A m \in enough : n <= m
    BY <2>3, <2>4, Least
  <2> QED BY <1>3, <2>5
<1>6. PICK some : some = First(order, gone)
  OBVIOUS
<1>7. /\ keys' = [k \in Keys |-> IF k \in some THEN <<>> ELSE ks[k]]
      /\ lru' = SubSeq(order, gone + 1, Len(order)) /\ bytes' = total - ChargedUnder(ks, some)
      /\ total - ChargedUnder(ks, some) <= MaxBytes
  BY <1>1, <1>2, <1>3, <1>5, <1>6 DEF evict
<1>8. OrderOnce(lru') /\ ToSet(lru') = ToSet(order) \ some /\ some \subseteq ToSet(order)
  BY <1>2, <1>4, <1>5, <1>6, <1>7, RestIs
<1>9. Charges(keys')
  BY <1>7, NoBytes DEF Charges
<1>10. ToSet(lru') = {k \in Keys : keys'[k] # <<>>}
  BY <1>4, <1>7, <1>8
<1>11. bytes' = ChargedUnder(keys', ToSet(lru'))
  <2>1. ChargedUnder(ks, ToSet(order) \ some) = total - ChargedUnder(ks, some)
    BY <1>1, <1>4, <1>8, Apart
  <2>2. \A k \in ToSet(lru') : ks[k] = keys'[k]
    BY <1>4, <1>7, <1>8
  <2>3. ChargedUnder(ks, ToSet(lru')) = ChargedUnder(keys', ToSet(lru'))
    BY <2>2, UnderSame
  <2> QED BY <1>7, <1>8, <2>1, <2>3
<1> QED BY <1>7, <1>8, <1>9, <1>10, <1>11 DEF BookInv, InOrderOnce

LEMMA TouchIs ==
    ASSUME NEW order, OrderOnce(order), NEW k
    PROVE  OrderOnce(touch(order, k)) /\ ToSet(touch(order, k)) = ToSet(order)
<1>1. CASE k \in ToSet(order)
  <2>1. k \in Keys /\ Contains(order, k)
    BY <1>1, OrderIs DEF Contains, ToSet
  <2>2. OrderOnce(Without(order, {k})) /\ ToSet(Without(order, {k})) = ToSet(order) \ {k}
    BY WithoutIs
  <2>3. k \notin ToSet(Without(order, {k}))
    BY <2>2
  <2>4. /\ OrderOnce(Append(Without(order, {k}), k))
        /\ ToSet(Append(Without(order, {k}), k)) = ToSet(Without(order, {k})) \cup {k}
    BY <2>1, <2>2, <2>3, AppendIs
  <2>5. ToSet(Append(Without(order, {k}), k)) = ToSet(order)
    BY <1>1, <2>2, <2>4
  <2> QED BY <2>1, <2>4, <2>5 DEF touch
<1>2. CASE k \notin ToSet(order)
  <2>1. ~Contains(order, k)
    BY <1>2, OrderIs DEF Contains, ToSet
  <2> QED BY <2>1 DEF touch
<1> QED BY <1>1, <1>2

\* Something is put under k: all but k is as it was.
LEMMA PutUnder ==
    ASSUME BookInv, NEW k \in Keys, NEW ks, DOMAIN ks = Keys, ListCharged(ks[k]), ks[k] # <<>>,
           \A j \in Keys : j # k => ks[j] = keys[j],
           NEW more \in Int, Cardinality(Bytes(ks[k])) = Cardinality(Bytes(keys[k])) + more,
           evict(ks, Append(Without(lru, {k}), k), bytes + more)
    PROVE  BookInv'
<1>1. PICK rest, order : rest = Without(lru, {k}) /\ order = Append(rest, k)
  OBVIOUS
<1>2. /\ OrderOnce(lru) /\ ToSet(lru) \subseteq Keys /\ IsFiniteSet(ToSet(lru)) /\ Charges(keys)
      /\ ToSet(lru) = {j \in Keys : keys[j] # <<>>} /\ bytes = ChargedUnder(keys, ToSet(lru))
  BY OrderIs DEF BookInv, InOrderOnce
<1>3. OrderOnce(rest) /\ ToSet(rest) = ToSet(lru) \ {k}
  BY <1>1, <1>2, WithoutIs
<1>4. OrderOnce(order) /\ ToSet(order) = ToSet(rest) \cup {k}
  <2>1. k \notin ToSet(rest)
    BY <1>3
  <2> QED BY <1>1, <1>3, <2>1, AppendIs
<1>5. Charges(ks)
  BY <1>2 DEF Charges
<1>6. InOrderOnce(order, ks)
  <2>1. ToSet(order) = {j \in Keys : ks[j] # <<>>}
    BY <1>2, <1>3, <1>4
  <2> QED BY <1>4, <2>1 DEF InOrderOnce
<1>7. bytes = ChargedUnder(keys, ToSet(rest)) + Cardinality(Bytes(keys[k])) /\ ChargedUnder(keys, ToSet(rest)) \in Nat
  <2>1. CASE k \in ToSet(lru)
    <3>1. {k} \subseteq ToSet(lru)
      BY <2>1
    <3>2. /\ ChargedUnder(keys, ToSet(lru) \ {k}) = bytes - ChargedUnder(keys, {k})
          /\ ChargedUnder(keys, ToSet(lru) \ {k}) \in Nat /\ ChargedUnder(keys, {k}) \in Nat
      BY <1>2, <3>1, Apart
    <3>3. ChargedUnder(keys, {k}) = Cardinality(Bytes(keys[k]))
      BY <1>2, UnderOne
    <3>4. bytes \in Nat
      BY <1>2, UnderFinite
    <3> QED BY <1>3, <3>2, <3>3, <3>4
  <2>2. CASE k \notin ToSet(lru)
    <3>1. ToSet(rest) = ToSet(lru) /\ keys[k] = <<>>
      BY <1>2, <1>3, <2>2
    <3>2. Cardinality(Bytes(keys[k])) = 0 /\ bytes \in Nat
      BY <1>2, <3>1, NoBytes, UnderFinite
    <3> QED BY <1>2, <3>1, <3>2
  <2> QED BY <2>1, <2>2
<1>8. ChargedUnder(ks, ToSet(order)) = ChargedUnder(keys, ToSet(rest)) + Cardinality(Bytes(ks[k]))
  <2>1. ToSet(rest) \subseteq Keys /\ IsFiniteSet(ToSet(rest)) /\ {k} \subseteq Keys /\ IsFiniteSet({k}) /\ ToSet(rest) \cap {k} = {}
    BY <1>3, OrderIs, FS_Singleton
  <2>2. ChargedUnder(ks, ToSet(rest) \cup {k}) = ChargedUnder(ks, ToSet(rest)) + ChargedUnder(ks, {k})
    BY <1>5, <2>1, UnderSplit
  <2>3. ChargedUnder(ks, {k}) = Cardinality(Bytes(ks[k]))
    BY <1>5, UnderOne
  <2>4. \A j \in ToSet(rest) : ks[j] = keys[j]
    BY <1>3, <2>1
  <2>5. ChargedUnder(ks, ToSet(rest)) = ChargedUnder(keys, ToSet(rest))
    BY <2>4, UnderSame
  <2> QED BY <1>4, <2>2, <2>3, <2>5
<1>9. bytes + more = ChargedUnder(ks, ToSet(order))
  <2>1. Cardinality(Bytes(keys[k])) \in Nat
    BY <1>2, BytesFinite DEF Charges
  <2> QED BY <1>7, <1>8, <2>1
<1> QED BY <1>1, <1>5, <1>6, <1>9, EvictBooks

LEMMA PutBooks ==
    ASSUME BookInv, NEW k \in Keys, NEW e, NEW src, EntryFits(e, src), put(k, e, src)
    PROVE  BookInv'
<1>1. PICK stored : stored = [entry |-> e, charged |-> charge(e), src |-> src]
  OBVIOUS
<1>2. stored.charged \in Nat
  <2>1. Len(e.vary) \in Nat /\ e.length \in Nat
    BY DEF EntryFits, EntryType
  <2>2. charge(e) \in Nat
    BY <2>1, CacheAssumption DEF charge, CacheAssumption
  <2> QED BY <1>1, <2>2
<1>3. PICK same : same = {n \in DOMAIN keys[k] : /\ keys[k][n].entry.vary = e.vary
                                                /\ keys[k][n].entry.decoded = e.decoded}
  OBVIOUS
<1>4. DOMAIN keys = Keys /\ ListCharged(keys[k]) /\ Cardinality(Bytes(keys[k])) \in Nat /\ bytes \in Nat
  <2>1. ListCharged(keys[k]) /\ DOMAIN keys = Keys
    BY DEF BookInv, Charges
  <2>2. bytes \in Nat
    BY OrderIs, UnderFinite DEF BookInv, InOrderOnce
  <2> QED BY <2>1, <2>2, BytesFinite
<1>5. CASE e.length > MaxEntryBytes
  BY <1>5 DEF put, BookInv
<1>6. CASE ~(e.length > MaxEntryBytes) /\ same # {}
  <2>1. PICK p : p = CHOOSE n \in same : TRUE
    OBVIOUS
  <2>2. p \in DOMAIN keys[k]
    BY <1>3, <1>6, <2>1
  <2>3. PICK ks : ks = [keys EXCEPT ![k] = [keys[k] EXCEPT ![p] = stored]]
    OBVIOUS
  <2>4. evict(ks, Append(Without(lru, {k}), k), bytes - keys[k][p].charged + stored.charged)
    BY <1>1, <1>3, <1>6, <2>1, <2>3 DEF put
  <2>5. DOMAIN ks = Keys /\ ks[k] = [keys[k] EXCEPT ![p] = stored] /\ \A j \in Keys : j # k => ks[j] = keys[j]
    BY <1>4, <2>3
  <2>6. /\ ListCharged(ks[k]) /\ ks[k] # <<>>
        /\ Cardinality(Bytes(ks[k])) = Cardinality(Bytes(keys[k])) - keys[k][p].charged + stored.charged
    <3>1. PICK l : l = keys[k] /\ ListCharged(l)
      BY <1>4
    <3>2. /\ ListCharged([l EXCEPT ![p] = stored]) /\ [l EXCEPT ![p] = stored] # <<>>
          /\ Cardinality(Bytes([l EXCEPT ![p] = stored])) = Cardinality(Bytes(l)) - l[p].charged + stored.charged
      BY <1>2, <2>2, <3>1, ReplacedCharge
    <3> QED BY <2>5, <3>1, <3>2
  <2>7. PICK more \in Int : more = stored.charged - keys[k][p].charged
    BY <1>2, <1>4, <2>2 DEF ListCharged
  <2>8. keys[k][p].charged \in Nat
    BY <1>4, <2>2 DEF ListCharged
  <2>9. /\ Cardinality(Bytes(ks[k])) = Cardinality(Bytes(keys[k])) + more
        /\ bytes - keys[k][p].charged + stored.charged = bytes + more
    BY <1>2, <1>4, <2>6, <2>7, <2>8
  <2>10. evict(ks, Append(Without(lru, {k}), k), bytes + more)
    BY <2>4, <2>9
  <2> QED BY <2>5, <2>6, <2>9, <2>10, PutUnder
<1>7. CASE ~(e.length > MaxEntryBytes) /\ same = {}
  <2>1. PICK ks : ks = [keys EXCEPT ![k] = Append(keys[k], stored)]
    OBVIOUS
  <2>2. evict(ks, Append(Without(lru, {k}), k), bytes + stored.charged)
    BY <1>1, <1>3, <1>7, <2>1 DEF put
  <2>3. DOMAIN ks = Keys /\ ks[k] = Append(keys[k], stored) /\ \A j \in Keys : j # k => ks[j] = keys[j]
    BY <1>4, <2>1
  <2>4. /\ ListCharged(ks[k]) /\ ks[k] # <<>>
        /\ Cardinality(Bytes(ks[k])) = Cardinality(Bytes(keys[k])) + stored.charged
    BY <1>2, <1>4, <2>3, AppendedCharge
  <2>5. stored.charged \in Int
    BY <1>2
  <2> QED BY <2>2, <2>3, <2>4, <2>5, PutUnder
<1> QED BY <1>5, <1>6, <1>7

LEMMA InvalidateBooks ==
    ASSUME BookInv, NEW order, OrderOnce(order), ToSet(order) = ToSet(lru), NEW targets,
           invalidate(order, targets)
    PROVE  BookInv'
<1>1. PICK doomed : doomed = {k \in Keys : <<k.method, k.url>> \in targets /\ keys[k] # <<>>}
  OBVIOUS
<1>2. /\ keys' = [k \in Keys |-> IF k \in doomed THEN <<>> ELSE keys[k]]
      /\ lru' = Without(order, doomed) /\ bytes' = bytes - ChargedUnder(keys, doomed)
  BY <1>1 DEF invalidate
<1>3. /\ OrderOnce(lru) /\ ToSet(lru) \subseteq Keys /\ IsFiniteSet(ToSet(lru)) /\ Charges(keys)
      /\ ToSet(lru) = {j \in Keys : keys[j] # <<>>} /\ bytes = ChargedUnder(keys, ToSet(lru)) /\ bytes <= MaxBytes
  BY OrderIs DEF BookInv, InOrderOnce
<1>4. OrderOnce(lru') /\ ToSet(lru') = ToSet(lru) \ doomed
  <2>1. OrderOnce(Without(order, doomed)) /\ ToSet(Without(order, doomed)) = ToSet(order) \ doomed
    BY WithoutIs
  <2> QED BY <1>2, <2>1
<1>5. Charges(keys')
  BY <1>2, <1>3, NoBytes DEF Charges
<1>6. ToSet(lru') = {k \in Keys : keys'[k] # <<>>}
  BY <1>2, <1>3, <1>4
<1>7. bytes' = ChargedUnder(keys, ToSet(lru')) /\ bytes' <= MaxBytes
  <2>1. doomed \subseteq ToSet(lru)
    BY <1>1, <1>3
  <2>2. /\ ChargedUnder(keys, ToSet(lru) \ doomed) = bytes - ChargedUnder(keys, doomed)
        /\ ChargedUnder(keys, ToSet(lru) \ doomed) \in Nat /\ ChargedUnder(keys, doomed) \in Nat
    BY <1>3, <2>1, Apart
  <2>3. bytes \in Nat
    BY <1>3, UnderFinite
  <2> QED BY <1>2, <1>3, <1>4, <2>2, <2>3, CacheAssumption DEF CacheAssumption
<1>8. ChargedUnder(keys, ToSet(lru')) = ChargedUnder(keys', ToSet(lru'))
  <2>1. \A k \in ToSet(lru') : keys[k] = keys'[k]
    BY <1>2, <1>3, <1>4
  <2> QED BY <2>1, UnderSame
<1> QED BY <1>4, <1>5, <1>6, <1>7, <1>8 DEF BookInv, InOrderOnce

LEMMA InitBooks == ASSUME keys = [k \in Keys |-> <<>>], lru = <<>>, bytes = 0 PROVE BookInv
<1>1. Charges(keys)
  BY NoBytes DEF Charges
<1>2. InOrderOnce(lru, keys)
  BY DEF InOrderOnce, OrderOnce, IsInjective, ToSet
<1>3. ToSet(lru) = {}
  BY DEF ToSet
<1>4. bytes = ChargedUnder(keys, ToSet(lru))
  BY <1>3, UnderNone
<1>5. bytes <= MaxBytes
  BY CacheAssumption DEF CacheAssumption
<1> QED BY <1>1, <1>2, <1>4, <1>5 DEF BookInv

LEMMA StepBooks == CacheInv /\ TimesInv /\ BookInv /\ [Next]_vars => BookInv'
<1> SUFFICES ASSUME CacheInv, TimesInv, BookInv, [Next]_vars PROVE BookInv'
  OBVIOUS
<1>1. ASSUME NEW f \in Fetches, NEW q, consult_cache(f, q) PROVE BookInv'
  <2>1. lru' = touch(lru, KeyFor(q)) /\ UNCHANGED <<keys, bytes>>
    BY <1>1 DEF consult_cache
  <2>2. OrderOnce(lru') /\ ToSet(lru') = ToSet(lru)
    BY <2>1, TouchIs DEF BookInv, InOrderOnce
  <2> QED BY <2>1, <2>2 DEF BookInv, InOrderOnce
<1>2. ASSUME NEW f \in Fetches, Ask(f) \/ RevalidateBehind(f) PROVE BookInv'
  BY <1>1, <1>2 DEF Ask, RevalidateBehind
<1>3. ASSUME NEW f \in Fetches, Contradicted(f) PROVE BookInv'
  <2>1. OrderOnce(lru) /\ \E targets : invalidate(lru, targets)
    BY <1>3 DEF Contradicted, BookInv, InOrderOnce
  <2> QED BY <2>1, InvalidateBooks
<1>4. ASSUME NEW f \in Fetches, Validated(f) \/ ReceivedRedirect(f) \/ commit(f) PROVE BookInv'
  BY <1>4, WhatIsPut, PutBooks
<1>5. ASSUME NEW f \in Fetches, Received(f) \/ ReceivedStorable(f) PROVE BookInv'
  <2>1. OrderOnce(lru)
    BY DEF BookInv, InOrderOnce
  <2>2. \/ \E targets : invalidate(lru, targets)
        \/ \E k, targets : invalidate(touch(lru, k), targets)
    BY <1>5 DEF Received, ReceivedStorable, invalidate_cache
  <2>3. ASSUME NEW k, NEW targets, invalidate(touch(lru, k), targets) PROVE BookInv'
    <3>1. OrderOnce(touch(lru, k)) /\ ToSet(touch(lru, k)) = ToSet(lru)
      BY <2>1, TouchIs
    <3> QED BY <2>3, <3>1, InvalidateBooks
  <2> QED BY <2>1, <2>2, <2>3, InvalidateBooks
<1>6. ASSUME UNCHANGED <<keys, lru, bytes>> PROVE BookInv'
  BY <1>6 DEF BookInv
<1>7. ASSUME NEW f \in Fetches, Serve(f) \/ Drop(f) PROVE BookInv'
  BY <1>6, <1>7 DEF Serve, Drop
<1>8. CASE Tick \/ UNCHANGED vars
  BY <1>6, <1>8 DEF Tick, vars
<1>9. CASE clear
  <2>1. keys' = [k \in Keys |-> <<>>] /\ lru' = <<>> /\ bytes' = 0
    BY <1>9 DEF clear
  <2>2. Charges(keys')
    BY <2>1, NoBytes DEF Charges
  <2>3. InOrderOnce(lru', keys')
    BY <2>1 DEF InOrderOnce, OrderOnce, IsInjective, ToSet
  <2>4. ToSet(lru') = {}
    BY <2>1 DEF ToSet
  <2>5. bytes' = ChargedUnder(keys', ToSet(lru'))
    BY <2>1, <2>4, UnderNone
  <2>6. bytes' <= MaxBytes
    BY <2>1, CacheAssumption DEF CacheAssumption
  <2> QED BY <2>2, <2>3, <2>5, <2>6 DEF BookInv
<1> QED BY <1>2, <1>3, <1>4, <1>5, <1>7, <1>8, <1>9 DEF Next

\* The budget is charged for exactly what is stored and never exceeded, the LRU order holds
\* each key that holds a variant once, and no two variants of a key have the same list of
\* selecting headers, as the lists are written: for any keys, budgets and sizes, and whatever
\* is put, replaced, looked at, evicted and invalidated (InMemoryHttpCache::put, evict,
\* invalidate and touch).
THEOREM BooksAreKept == Spec => []Accounted
<1>1. Init => BookInv
  BY InitBooks DEF Init
<1>2. CacheInv /\ BookInv => Accounted
  <2> SUFFICES ASSUME CacheInv, BookInv PROVE Accounted
    OBVIOUS
  <2>1. /\ OrderOnce(lru) /\ ToSet(lru) = {k \in Keys : keys[k] # <<>>}
        /\ bytes = ChargedUnder(keys, ToSet(lru)) /\ bytes <= MaxBytes
    BY DEF BookInv, InOrderOnce
  <2>2. ASSUME NEW k \in ToSet(lru), NEW m \in DOMAIN keys[k], NEW n \in DOMAIN keys[k], m # n
        PROVE  \/ keys[k][m].entry.vary # keys[k][n].entry.vary
               \/ keys[k][m].entry.decoded # keys[k][n].entry.decoded
    <3>1. k \in Keys
      BY <2>1
    <3>2. Selected(keys[k][m].entry) # Selected(keys[k][n].entry)
      BY <2>2, <3>1 DEF CacheInv, KeysOK, VariantsOK
    <3> QED BY <3>2 DEF Selected
  <2> QED BY <2>1, <2>2 DEF Accounted, OrderOnce
<1> QED
  BY <1>1, <1>2, InitTimes, StepTimes, StepBooks, CacheInvariant, PTL DEF Spec
=============================================================================
