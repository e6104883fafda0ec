----------------------------- MODULE HttpCache ------------------------------
(***************************************************************************)
(* The in-memory HTTP cache (InMemoryHttpCache of net/cache.rs) and the    *)
(* fetches that use it: the lookup of a hop (consult_cache), the 304 that  *)
(* confirms or contradicts an entry, what a response invalidates, and the  *)
(* response that is stored once its body has been read (PendingStore and   *)
(* CacheCollector of net/fetch/native.rs).  Fetches interleave between     *)
(* these steps, and so does the server, which answers a request some time  *)
(* before the answer arrives.                                              *)
(*                                                                         *)
(* What the code knows of a stored response is its entry; src is what      *)
(* really is behind it, which no server tells: the version it shows, when  *)
(* it was generated or last confirmed, how far the server's clock is off,  *)
(* whose cookies bought it, and the last write that was answered while it  *)
(* was on its way.                                                         *)
(***************************************************************************)
EXTENDS CacheRules, Parts, SequencesExt

CONSTANTS Fetches, Urls, Jars, OriginOf,
          Requests,          \* what is asked, see CacheRules
          Probes,            \* the requests the properties ask about, any number of them
          Replies,           \* what a server may answer, see Stamped
          MaxBytes,          \* max_bytes
          MaxEntryBytes,     \* max_entry_bytes
          Overhead,          \* STORED_OVERHEAD and the key
          MaxTime, MaxVersion, MaxAsks    \* bounds of clock, writes and requests

ASSUME CacheAssumption ==
    /\ MaxBytes \in Nat /\ MaxEntryBytes \in Nat /\ Overhead \in Nat
    /\ MaxTime \in Nat /\ MaxVersion \in Nat /\ MaxAsks \in Nat
    /\ \A p \in Replies : p.length \in Nat /\ p.told \in Nat /\ p.skew \in Int
                          /\ p.vary \in Seq(STRING) \cup {None}
    /\ \A q \in Requests \cup Probes :
          {"method", "url", "jar"} \subseteq DOMAIN q /\ q.url \in Urls /\ q.jar \in Jars

\* What the properties about time ask of servers: no response is older than an Age header can
\* say, and a clock that is fast shows in a Date.
ASSUME TimeAssumption ==
    /\ \A p \in Replies : /\ p.cc \in Directives /\ p.expires \in Int \cup {None, Unparsable}
                          /\ p.told <= MaxDelta
                          /\ p.dated \/ p.skew <= 0
    /\ \A q \in Probes : q.cc \in Directives

\* A hop with a jar's cookies is cached for that jar; "" is the partition of the others.
Keys == [method: {"GET", "HEAD"}, url: Urls, jar: Jars]

VARIABLES
    now,
    keys,        \* Contents::keys: the variants under each key, oldest first
    lru,         \* Contents::lru: the keys, the least recently used first
    bytes,       \* Contents::bytes
    version,     \* the server's resources
    written,     \* the version of the last write whose answer has arrived
    fetch,       \* the hop each fetch is at
    asks         \* requests made so far

vars == <<now, keys, lru, bytes, version, written, fetch, asks>>

Idle == [pc |-> "idle"]

Init ==
    /\ now = 0
    /\ keys = [k \in Keys |-> <<>>] /\ lru = <<>> /\ bytes = 0
    /\ version = [u \in Urls |-> 0] /\ written = [u \in Urls |-> 0]
    /\ fetch = [f \in Fetches |-> Idle]
    /\ asks = 0

-----------------------------------------------------------------------------
(* InMemoryHttpCache, each operation under its lock.                       *)

KeyFor(q) == [method |-> q.method, url |-> q.url, jar |-> q.jar]

\* What retain leaves of the order.
Without(order, doomed) == Retained(order, {n \in DOMAIN order : order[n] \notin doomed})

touch(order, k) == IF Contains(order, k) THEN Append(Without(order, {k}), k) ELSE order

charge(e) == e.length + Len(e.vary) + Overhead

\* The charge of some variants, or of some keys, byte by byte, so that a sum is a count.
Bytes(variants) == UNION {{n} \X (1..variants[n].charged) : n \in DOMAIN variants}
BytesUnder(ks, held) == UNION {{k} \X Bytes(ks[k]) : k \in held}
ChargedUnder(ks, held) == Cardinality(BytesUnder(ks, held))

First(order, n) == {order[i] : i \in 1..n}

\* The least recently used keys go until the rest fits the budget.
evict_late(ks, order, total) ==
    LET enough == {n \in 0..Len(order) : total - ChargedUnder(ks, First(order, n)) <= MaxBytes + 1}
        gone   == CHOOSE n \in enough : \A m \in enough : n <= m
    IN  /\ keys' = [k \in Keys |-> IF k \in First(order, gone) THEN <<>> ELSE ks[k]]
        /\ lru' = SubSeq(order, gone + 1, Len(order))
        /\ bytes' = total - ChargedUnder(ks, First(order, gone))

evict(ks, order, total) ==
    LET enough == {n \in 0..Len(order) : total - ChargedUnder(ks, First(order, n)) <= MaxBytes}
        gone   == CHOOSE n \in enough : \A m \in enough : n <= m
    IN  /\ keys' = [k \in Keys |-> IF k \in First(order, gone) THEN <<>> ELSE ks[k]]
        /\ lru' = SubSeq(order, gone + 1, Len(order))
        /\ bytes' = total - ChargedUnder(ks, First(order, gone))

\* The new one takes the place of the variant with the same list of selecting headers.  Lists
\* are compared as they were written: another order, or a name given twice, is another one.
put(k, e, src) ==
    LET same   == {n \in DOMAIN keys[k] : /\ keys[k][n].entry.vary = e.vary
                                          /\ keys[k][n].entry.decoded = e.decoded}
        stored == [entry |-> e, charged |-> charge(e), src |-> src]
        place  == CHOOSE n \in same : TRUE
        order  == Append(Without(lru, {k}), k)
    IN  IF e.length > MaxEntryBytes THEN UNCHANGED <<keys, lru, bytes>>
        ELSE IF same # {}
          THEN evict([keys EXCEPT ![k][place] = stored], order,
                     bytes - keys[k][place].charged + stored.charged)
          ELSE evict([keys EXCEPT ![k] = Append(@, stored)], order, bytes + stored.charged)

invalidate_unpartitioned(order, targets) ==
    LET doomed == {k \in Keys : <<k.method, k.url>> \in targets /\ k.jar = "" /\ keys[k] # <<>>}
    IN  /\ keys' = [k \in Keys |-> IF k \in doomed THEN <<>> ELSE keys[k]]
        /\ lru' = Without(order, doomed)
        /\ bytes' = bytes - ChargedUnder(keys, doomed)

\* In every partition.
invalidate(order, targets) ==
    LET doomed == {k \in Keys : <<k.method, k.url>> \in targets /\ keys[k] # <<>>}
    IN  /\ keys' = [k \in Keys |-> IF k \in doomed THEN <<>> ELSE keys[k]]
        /\ lru' = Without(order, doomed)
        /\ bytes' = bytes - ChargedUnder(keys, doomed)

clear ==
    /\ keys' = [k \in Keys |-> <<>>] /\ lru' = <<>> /\ bytes' = 0
    /\ UNCHANGED <<now, version, written, fetch, asks>>

-----------------------------------------------------------------------------
(* A hop: the lookup, the exchange, the body.                              *)

\* What get and decide make of a request now.
lookup(q) ==
    LET k       == KeyFor(q)
        entries == IF k \in Keys THEN [n \in DOMAIN keys[k] |-> keys[k][n].entry] ELSE <<>>
        d       == decide(entries, q, now)
    IN  IF q.background THEN d ELSE revalidated(d)

\* The stored response behind an entry of the key.
Behind(k, e) == keys[k][CHOOSE n \in DOMAIN keys[k] : keys[k][n].entry = e]

Sent(q, reval) == [pc |-> "sent", req |-> q, reval |-> reval, at |-> now]

\* A stored response ends the hop; a stale one is revalidated behind it, by a request of
\* the fetcher's own.  NotCached is an error.
consult_cache(f, q) ==
    LET d == lookup(q)
        k == KeyFor(q)
    IN  /\ lru' = touch(lru, k)
        /\ fetch' = [fetch EXCEPT ![f] =
              CASE d.kind \in {"Use", "NotCached"} -> Idle
                [] d.kind = "UseStale" ->
                     [pc |-> "behind", req |-> [q EXCEPT !.mode = "NoCache", !.background = FALSE]]
                [] d.kind = "Revalidate" -> Sent(q, Behind(k, d.entry))
                [] d.kind = "Send" -> Sent(q, None)]
        /\ UNCHANGED <<now, keys, bytes, version, written>>

Ask(f) ==
    /\ fetch[f].pc = "idle" /\ asks < MaxAsks
    /\ \E q \in Requests : consult_cache(f, q)
    /\ asks' = asks + 1

RevalidateBehind(f) ==
    /\ fetch[f].pc = "behind"
    /\ consult_cache(f, fetch[f].req)
    /\ UNCHANGED asks

\* A reply of the server as it is sent now: its Date and Expires by its own clock, a tag
\* that names the version.
Stamped(p, u) ==
    [cc |-> p.cc, age |-> IF p.told = 0 THEN None ELSE p.told,
     date |-> IF p.dated THEN now - p.told + p.skew ELSE None,
     expires |-> IF p.expires \in Int THEN now - p.told + p.skew + p.expires ELSE p.expires,
     modified |-> p.modified,
     etag |-> IF p.tag = None THEN None ELSE [weak |-> p.tag = "weak", tag |-> version'[u]],
     vary |-> p.vary, range |-> FALSE, length |-> IF p.sized THEN p.length ELSE None]

\* The server handles the request.  A write that succeeds makes a new version; a 304
\* answers a condition, of the cache or the caller, when the version has not changed.
Serve(f) ==
    /\ fetch[f].pc = "sent"
    /\ LET q == fetch[f].req
           u == q.url
       IN  \E p \in Replies :
             /\ <<q.method, u>> \in p.to
             /\ p.status = 304 => IF fetch[f].reval = None THEN q.asks = "condition"
                                  ELSE fetch[f].reval.src.ver = version[u]
             /\ IF invalidates(q.method) /\ p.status < 400
                  THEN version[u] < MaxVersion /\ version' = [version EXCEPT ![u] = @ + 1]
                  ELSE UNCHANGED version
             /\ fetch' = [fetch EXCEPT ![f] =
                   [pc |-> "served", req |-> q, reval |-> @.reval, at |-> @.at,
                    reply |-> p, head |-> Stamped(p, u),
                    src |-> [ver |-> version'[u], born |-> now - p.told, skew |-> p.skew,
                             jar |-> q.jar, over |-> 0]]]
    /\ UNCHANGED <<now, keys, lru, bytes, written, asks>>

\* The fetches whose answer is on its way while the answer of the write f arrives.
Overtaken(f) ==
    [g \in Fetches |-> IF g # f /\ fetch[g].pc \in {"served", "reading"} /\ fetch[g].req.url = fetch[f].req.url
                         THEN [fetch[g] EXCEPT !.src.over = Larger(@, fetch[f].src.ver)] ELSE fetch[g]]

Answering304(f) == fetch[f].pc = "served" /\ fetch[f].reply.status = 304 /\ fetch[f].reval # None

\* The 304 names another version: the entry goes and the hop is asked again, without
\* conditions.
Contradicted(f) ==
    /\ Answering304(f)
    /\ contradicted_by(fetch[f].reval.entry, fetch[f].head)
    /\ LET q == fetch[f].req
       IN  /\ invalidate(lru, {<<q.method, q.url>>})
           /\ fetch' = [fetch EXCEPT ![f] = Sent(q, None)]
    /\ UNCHANGED <<now, version, written, asks>>

\* The body, and so the version, stays that of the entry.
Validated(f) ==
    /\ Answering304(f)
    /\ ~contradicted_by(fetch[f].reval.entry, fetch[f].head)
    /\ LET g   == fetch[f]
           old == g.reval
       IN  put(KeyFor(g.req), updated_by_304(old.entry, g.head, g.at, now, g.req),
               [g.src EXCEPT !.ver = old.src.ver])
    /\ fetch' = [fetch EXCEPT ![f] = Idle]
    /\ UNCHANGED <<now, version, written, asks>>

\* The URL of a successful write and the Location it points at, of the same origin;
\* the GET when a HEAD shows that what is stored has changed.
InvalidatedUrls(f) ==
    LET q == fetch[f].req
        p == fetch[f].reply
    IN  IF invalidates(q.method) /\ p.status < 400
          THEN {q.url} \cup {u \in Urls : u = p.location /\ OriginOf[u] = OriginOf[q.url]}
          ELSE {}

HeadArrived(f) == fetch[f].req.method = "HEAD" /\ fetch[f].reply.status = 200

GetOf(q) == [KeyFor(q) EXCEPT !.method = "GET"]

ChangedPerHead(f) ==
    LET k == GetOf(fetch[f].req)
    IN  /\ HeadArrived(f)
        /\ \E n \in DOMAIN keys[k] : changed_per_head(keys[k][n].entry, fetch[f].head)

\* To look at the GET counts as a use of it, whatever the HEAD shows.
invalidate_cache(f) ==
    LET q  == fetch[f].req
        us == InvalidatedUrls(f)
    IN  IF HeadArrived(f)
          THEN /\ invalidate(touch(lru, GetOf(q)), IF ChangedPerHead(f) THEN {<<"GET", q.url>>} ELSE {})
               /\ UNCHANGED written
          ELSE /\ invalidate(lru, {"GET", "HEAD"} \X us)
               /\ written' = [u \in Urls |-> IF u = q.url /\ us # {} THEN Larger(written[u], fetch[f].src.ver)
                                             ELSE written[u]]

pending_store(f) ==
    LET g == fetch[f]
    IN  effective_mode(g.req) # "NoStore" /\ is_storable(g.req, g.reply.status, g.head)

IsRedirect(f) == fetch[f].reply.status \in {301, 302, 307, 308}

\* A response that is not kept, a write's among them.
Received(f) ==
    /\ fetch[f].pc = "served" /\ ~Answering304(f) /\ ~pending_store(f)
    /\ invalidate_cache(f)
    /\ fetch' = [IF InvalidatedUrls(f) # {} THEN Overtaken(f) ELSE fetch EXCEPT ![f] = Idle]
    /\ UNCHANGED <<now, version, asks>>

\* One to keep: once its body is in.
ReceivedStorable(f) ==
    /\ fetch[f].pc = "served" /\ ~Answering304(f) /\ pending_store(f) /\ ~IsRedirect(f)
    /\ invalidate_cache(f)
    /\ LET g == fetch[f]
       IN  fetch' = [fetch EXCEPT ![f] =
               [pc |-> "reading", req |-> g.req, src |-> g.src,
                entry |-> entry_from_response(g.reply.status, g.head, g.req,
                            IF g.req.method = "HEAD" THEN 0 ELSE g.reply.length, g.at, now)]]
    /\ UNCHANGED <<now, version, asks>>

\* A redirect is stored at once: nobody reads its body.
ReceivedRedirect(f) ==
    /\ fetch[f].pc = "served" /\ pending_store(f) /\ IsRedirect(f)
    /\ LET g == fetch[f]
       IN  put(KeyFor(g.req), entry_from_response(g.reply.status, g.head, g.req, 0, g.at, now), g.src)
    /\ fetch' = [fetch EXCEPT ![f] = Idle]
    /\ UNCHANGED <<now, version, written, asks>>

\* The end of the body: CacheCollector::commit, of what is not too large.
commit(f) ==
    /\ fetch[f].pc = "reading"
    /\ put(KeyFor(fetch[f].req), fetch[f].entry, fetch[f].src)
    /\ fetch' = [fetch EXCEPT ![f] = Idle]
    /\ UNCHANGED <<now, version, written, asks>>

\* The exchange or the body fails, or its fetch is cancelled: the pending store is dropped.
Drop(f) ==
    /\ fetch[f].pc # "idle"
    /\ fetch' = [fetch EXCEPT ![f] = Idle]
    /\ UNCHANGED <<now, keys, lru, bytes, version, written, asks>>

Tick ==
    /\ now < MaxTime
    /\ now' = now + 1
    /\ UNCHANGED <<keys, lru, bytes, version, written, fetch, asks>>

Next ==
    \/ \E f \in Fetches : \/ Ask(f) \/ RevalidateBehind(f) \/ Serve(f) \/ Contradicted(f)
                          \/ Validated(f) \/ Received(f) \/ ReceivedStorable(f)
                          \/ ReceivedRedirect(f) \/ commit(f) \/ Drop(f)
    \/ Tick \/ clear

Spec == Init /\ [][Next]_vars

-----------------------------------------------------------------------------
(* What the cache may be relied on for.                                    *)

StoredUnder(k) == {keys[k][n] : n \in DOMAIN keys[k]}

\* The budget is charged for exactly what is stored and never exceeded, a key is in the
\* LRU order exactly once and as long as it holds a variant, and no two variants of a key
\* have the same list of selecting headers: whatever is put, replaced, looked at, evicted
\* and invalidated.  Two may be selected by the same headers all the same, named in another
\* order or twice: they are stored, and charged, side by side.
Accounted ==
    /\ ToSet(lru) = {k \in Keys : keys[k] # <<>>} /\ IsInjective(lru)
    /\ bytes = ChargedUnder(keys, ToSet(lru))
    /\ bytes <= MaxBytes
    /\ \A k \in ToSet(lru) : \A m, n \in DOMAIN keys[k] :
          m # n => \/ keys[k][m].entry.vary # keys[k][n].entry.vary
                   \/ keys[k][m].entry.decoded # keys[k][n].entry.decoded

\* Until when the server stands by a response, in true time: at least when it was made, or
\* confirmed.
VouchedUntil(s) ==
    LET cc == s.entry.head.cc
    IN  IF Says(cc, "max-age") THEN s.src.born + Or(FirstValue(cc, "max-age"), 0)
        ELSE IF s.entry.head.expires = Unparsable THEN s.src.born
        ELSE IF s.entry.head.expires # None THEN Larger(s.entry.head.expires - s.src.skew, s.src.born)
        ELSE None

\* d, the decision to answer q with the stored response s, is right.
StandsUp(q, d, s) ==
    LET said  == ResponseDirectives(s.entry.head.cc)
        asked == RequestDirectives(q)
        until == VouchedUntil(s)
        Late(n) == until # None => now <= until + n
        Stale == until # None /\ now >= until
    IN  /\ s.src.jar = q.jar
        /\ ~said.no_cache
        /\ said.must_revalidate => ~Stale
        /\ q.mode = "Default" /\ ~asked.only_if_cached =>
             /\ ~asked.no_cache
             /\ asked.max_age # None => now - s.src.born <= asked.max_age
             /\ asked.min_fresh # None /\ until # None => now + asked.min_fresh <= until
             /\ Stale => \/ d.kind = "UseStale" /\ said.swr # None /\ Late(said.swr)
                         \/ asked.stale /\ (asked.max_stale = None \/ Late(asked.max_stale))

\* Whatever request of Probes comes next and is answered from the cache: the response was
\* got with its own jar, or with none by a request with none; and in true time, which the
\* code never sees, the server still stands by it, or the request, or the response, allows
\* for as much staleness as there is, which no-cache and must-revalidate never do.
AnswersStandUp ==
    \A q \in Probes :
        LET d == lookup(q)
        IN  d.kind \in {"Use", "UseStale"} => StandsUp(q, d, Behind(KeyFor(q), d.entry))

\* Once a write has been answered, what is stored of the versions before it was on its way
\* to the cache when the answer came: nothing that was stored by then is left in any
\* partition, and no fetch that was asked later brings it back.
OldWasOvertaken ==
    \A k \in Keys : \A s \in StoredUnder(k) : s.src.ver < written[k.url] => written[k.url] <= s.src.over
=============================================================================
