----------------------------- MODULE CacheRules -----------------------------
(***************************************************************************)
(* The rules of the HTTP cache (net/cache.rs): what the directives of a    *)
(* message say, how old and how fresh a stored response is, whether a      *)
(* response may be stored, which stored response answers a request and     *)
(* what becomes of one that a 304 confirms.                                *)
(*                                                                         *)
(* Headers are parsed: Cache-Control is the sequence of its directives,    *)
(* dates are integers, Vary is the list of the header names it gives, in   *)
(* its order, a value that is absent (or, of a directive, not a number of  *)
(* seconds) is None.                                                       *)
(***************************************************************************)
EXTENDS Integers, Sequences, FiniteSets

CONSTANTS None,
          Unparsable,        \* an Expires that is no date
          MaxDelta,          \* MAX_DELTA_SECS
          HeuristicPart,     \* 1 / HEURISTIC_FRACTION
          HeuristicMax       \* HEURISTIC_MAX_SECS

ASSUME RulesAssumption ==
    /\ None \notin Int /\ Unparsable \notin Int /\ None # Unparsable
    /\ MaxDelta \in Nat /\ HeuristicPart \in Nat \ {0} /\ HeuristicMax \in Nat

Larger(a, b) == IF a >= b THEN a ELSE b
Smaller(a, b) == IF a <= b THEN a ELSE b

DefaultCacheable == {200, 203, 204, 300, 301, 308, 404, 405, 410, 414, 501}
Understood == DefaultCacheable \cup {302, 307}
CacheModes == {"Default", "NoStore", "Reload", "NoCache", "ForceCache", "OnlyIfCached"}

-----------------------------------------------------------------------------
(* Directives: a sequence of [name, value].                                *)

Directives == Seq([name: STRING, value: Nat \cup {None}])

delta_seconds(v) == IF v = None THEN None ELSE Smaller(v, MaxDelta)

Says(cc, name) == \E n \in DOMAIN cc : cc[n].name = name

\* The value the first, and the last, directive of that name has.
FirstValue(cc, name) ==
    cc[CHOOSE n \in DOMAIN cc : cc[n].name = name /\ \A m \in 1..(n - 1) : cc[m].name # name].value
LastValue(cc, name) ==
    cc[CHOOSE n \in DOMAIN cc :
          cc[n].name = name /\ \A m \in (n + 1)..Len(cc) : cc[m].name # name].value

\* The first max-age counts, and one that is no number of seconds is 0; the first
\* stale-while-revalidate counts, and one that is no number grants nothing.
ResponseDirectives(cc) ==
    [no_store |-> Says(cc, "no-store"), no_cache |-> Says(cc, "no-cache"),
     must_revalidate |-> Says(cc, "must-revalidate"),
     must_understand |-> Says(cc, "must-understand"),
     max_age |-> IF ~Says(cc, "max-age") THEN None
                 ELSE IF FirstValue(cc, "max-age") = None THEN 0
                 ELSE delta_seconds(FirstValue(cc, "max-age")),
     swr |-> IF ~Says(cc, "stale-while-revalidate") THEN None
             ELSE delta_seconds(FirstValue(cc, "stale-while-revalidate"))]

\* The last of each counts.  Pragma is heard where there is no Cache-Control.
RequestDirectives(req) ==
    LET cc == req.cc
        Value(name) == IF Says(cc, name) THEN delta_seconds(LastValue(cc, name)) ELSE None
    IN  [no_store |-> Says(cc, "no-store"),
         no_cache |-> Says(cc, "no-cache") \/ (cc = <<>> /\ req.pragma),
         only_if_cached |-> Says(cc, "only-if-cached"),
         max_age |-> Value("max-age"), min_fresh |-> Value("min-fresh"),
         stale |-> Says(cc, "max-stale"), max_stale |-> Value("max-stale")]

-----------------------------------------------------------------------------
(* Requests: [method, url, jar, cc, pragma, asks, vals, decode, mode].     *)
(* asks: a condition or a Range the caller set, or None; vals: the values  *)
(* of the headers a Vary may name, of those the request has.               *)

bypasses_cache(req) == req.asks # None

effective_mode(req) ==
    IF req.mode = "Default" /\ req.asks \in {"condition", "if-range"} THEN "NoStore" ELSE req.mode

invalidates(method) == method \notin {"GET", "HEAD", "OPTIONS", "TRACE"}

vary_value(req, name) == IF name \in DOMAIN req.vals THEN req.vals[name] ELSE None

vary_names(head) == IF head.vary = None THEN <<>> ELSE head.vary

\* What selects a variant: the headers Vary names, in its order and as often as it names
\* them, with the values the request had.
Selecting(head, req) ==
    [n \in DOMAIN vary_names(head) |-> <<vary_names(head)[n], vary_value(req, vary_names(head)[n])>>]

-----------------------------------------------------------------------------
(* Stored responses: CacheEntry.  head is what is kept of its headers.     *)

freshness_lifetime(e) ==
    LET max_age == ResponseDirectives(e.head.cc).max_age
        base    == IF e.head.date = None THEN e.received_at ELSE e.head.date
    IN  IF max_age # None THEN max_age
        ELSE IF e.head.expires = Unparsable THEN 0
        ELSE IF e.head.expires # None THEN Larger(e.head.expires - base, 0)
        ELSE IF e.head.modified = None THEN None
        ELSE Smaller(Larger(base - e.head.modified, 0) \div HeuristicPart, HeuristicMax)

current_age_undelayed(e, now) ==
    LET told == IF e.head.age = None THEN 0 ELSE delta_seconds(e.head.age)
        apparent == IF e.head.date = None THEN 0 ELSE Larger(e.received_at - e.head.date, 0)
    IN  Larger(apparent, told) + Larger(now - e.received_at, 0)

\* The Age it came with and the time the exchange took, or what its Date shows if
\* that is more, and the time since.
current_age(e, now) ==
    LET told == IF e.head.age = None THEN 0 ELSE delta_seconds(e.head.age)
        apparent == IF e.head.date = None THEN 0 ELSE Larger(e.received_at - e.head.date, 0)
        delay == Larger(e.received_at - e.requested_at, 0)
    IN  Larger(apparent, told + delay) + Larger(now - e.received_at, 0)

is_fresh(e, now) ==
    freshness_lifetime(e) # None /\ current_age(e, now) < freshness_lifetime(e)

is_revalidatable(head) == head.etag # None \/ head.modified # None

\* The 304 names another version: a strong tag selects the same strong tag, a weak one
\* what is equal but for weakness, else Last-Modified decides; no validator at all selects
\* only an entry without.
contradicted_by(e, head) ==
    IF head.etag # None
      THEN ~(/\ e.head.etag # None
             /\ e.head.etag.tag = head.etag.tag
             /\ ~head.etag.weak => ~e.head.etag.weak)
      ELSE IF head.modified # None THEN e.head.modified # head.modified
      ELSE is_revalidatable(e.head)

changed_per_head(e, head) ==
    \/ e.head.etag # head.etag
    \/ e.head.modified # head.modified
    \/ ~e.decoded /\ head.length # None /\ head.length # e.length

Or(a, b) == IF a # None THEN a ELSE b

\* What the 304 carried written over what was stored.  The encoding and the length
\* describe the stored body and stay.
Merged(old, head) ==
    [old EXCEPT !.cc = IF head.cc # <<>> THEN head.cc ELSE @, !.date = Or(head.date, @),
                !.expires = Or(head.expires, @), !.modified = Or(head.modified, @),
                !.etag = Or(head.etag, @), !.age = Or(head.age, @),
                !.vary = Or(head.vary, @)]

\* A Vary of the 304 selects by the revalidating request from now on; "*" selects
\* nothing.
updated_by_304(e, head, requested_at, received_at, req) ==
    [e EXCEPT !.head = Merged(@, head), !.vary = IF head.vary = None THEN @ ELSE Selecting(head, req),
              !.requested_at = requested_at, !.received_at = received_at]

is_storable(req, status, head) ==
    LET said == ResponseDirectives(head.cc)
        has_freshness == said.max_age # None \/ head.expires # None
    IN  /\ req.method \in {"GET", "HEAD"} /\ status # 304
        /\ ~RequestDirectives(req).no_store /\ ~bypasses_cache(req)
        /\ IF said.must_understand THEN status \in Understood ELSE ~said.no_store
        /\ \A n \in DOMAIN vary_names(head) : vary_names(head)[n] # "*"
        /\ status # 206 /\ ~head.range
        /\ has_freshness \/ is_revalidatable(head)
        /\ status \in DefaultCacheable \/ has_freshness

\* A response without a Date is kept with the time it arrived.  The length is that of
\* the body as it was handed on.
entry_from_response(status, head, req, length, requested_at, received_at) ==
    [status |-> status, decoded |-> req.decode, length |-> length,
     head |-> [head EXCEPT !.date = Or(@, received_at), !.length = IF req.decode THEN None ELSE @],
     vary |-> Selecting(head, req),
     requested_at |-> requested_at, received_at |-> received_at]

matches(e, req) ==
    /\ e.decoded = req.decode
    /\ \A n \in DOMAIN e.vary : e.vary[n][1] # "*" /\ vary_value(req, e.vary[n][1]) = e.vary[n][2]

-----------------------------------------------------------------------------
(* What a hop does with what is stored for it.                             *)

Decision(kind, e) == [kind |-> kind, entry |-> e]

revalidate(e) ==
    IF is_revalidatable(e.head) THEN Decision("Revalidate", e) ELSE Decision("Send", None)

\* CacheDecision::revalidated: for a request that cannot revalidate in the background.
revalidated(d) == IF d.kind = "UseStale" THEN revalidate(d.entry) ELSE d

\* Of the entries that match, the most recent by Date; of those, the last.
Newest(entries, req) ==
    LET Day(n) == IF entries[n].head.date = None THEN entries[n].received_at ELSE entries[n].head.date
        found  == {n \in DOMAIN entries : matches(entries[n], req)}
    IN  entries[CHOOSE n \in found :
                  \A m \in found : Day(m) < Day(n) \/ (Day(m) = Day(n) /\ m <= n)]

\* Stale, and still usable by what the request's max-stale allows.
StaleAllowed(asked, said, late) ==
    asked.stale /\ ~said.must_revalidate /\ (asked.max_stale = None \/ late <= asked.max_stale)

decide(entries, req, now) ==
    LET asked == RequestDirectives(req)
        mode  == effective_mode(req)
        only  == mode = "OnlyIfCached" \/ asked.only_if_cached
        e     == Newest(entries, req)
        said  == ResponseDirectives(e.head.cc)
        age   == current_age(e, now)
        life  == IF freshness_lifetime(e) = None THEN 0 ELSE freshness_lifetime(e)
        young == asked.max_age = None \/ age <= asked.max_age
        usable == age < life \/ StaleAllowed(asked, said, age - life)
        windowed == /\ ~usable /\ mode = "Default" /\ ~said.must_revalidate
                    /\ said.swr # None /\ age - life <= said.swr
    IN  IF mode \in {"NoStore", "Reload"} \/ asked.no_store \/ bypasses_cache(req)
          THEN Decision("Send", None)
        ELSE IF \A n \in DOMAIN entries : ~matches(entries[n], req)
          THEN Decision(IF only THEN "NotCached" ELSE "Send", None)
        ELSE IF mode = "ForceCache" \/ only
          THEN IF ~(said.no_cache \/ (said.must_revalidate /\ ~is_fresh(e, now)))
                 THEN Decision("Use", e)
               ELSE IF only THEN Decision("NotCached", None) ELSE revalidate(e)
        ELSE IF mode = "NoCache" \/ asked.no_cache \/ said.no_cache
          THEN revalidate(e)
        ELSE IF usable /\ young /\ (asked.min_fresh = None \/ life - age >= asked.min_fresh)
          THEN Decision("Use", e)
        ELSE IF windowed /\ young /\ asked.min_fresh = None
          THEN Decision("UseStale", e)
        ELSE revalidate(e)
=============================================================================
