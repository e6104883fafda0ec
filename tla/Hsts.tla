------------------------------- MODULE Hsts -------------------------------
(***************************************************************************)
(* Strict Transport Security (net/hsts.rs): the policies hosts declare,    *)
(* the bounded store that keeps them (InMemoryHstsStore), and which hosts  *)
(* are reached over https because of them.                                 *)
(*                                                                         *)
(* The chains of a context share the store, and to store a policy takes    *)
(* several calls of the DashMap it is made of.  The map (external) has a   *)
(* lock per shard: len, retain and iter go from shard to shard, and an     *)
(* iterator keeps the shard it is in, and those of the entries it gave     *)
(* away, locked for reading.                                               *)
(*                                                                         *)
(* A host is the sequence of its labels, most specific first, with the     *)
(* trailing dot gone; Ip stands for every address literal.                 *)
(***************************************************************************)
EXTENDS Integers, Sequences, FiniteSets, Functions

CONSTANTS Domains,   \* the domain names the servers have
          Values,    \* the Strict-Transport-Security values they may send, see ValueType
          MaxHosts,  \* MAX_HSTS_ENTRIES
          MaxAge,    \* MAX_AGE_CAP_SECS
          Chains,    \* the hops under way that may answer side by side
          Shards,    \* how many shards the map has
          ShardOf,   \* and which one a host falls into
          Ip, None

\* What a directive carries: no value, one that is not delta-seconds, or a number.
Absent == -1
NotDigits == -2

\* What directives() makes of a header value: its directives in order, None when it does
\* not follow the grammar.
ValueType == {None} \cup
    Seq([name: {"max-age", "includeSubDomains", "unknown"}, value: {Absent, NotDigits} \cup Nat])

ASSUME HstsAssumption ==
    /\ IsFiniteSet(Domains) /\ \A d \in Domains : d \in Seq(STRING) /\ d # <<>>
    /\ Values \subseteq ValueType
    /\ MaxHosts \in Nat \ {0} /\ MaxAge \in Nat \ {0}
    /\ Shards \in Nat \ {0} /\ ShardOf \in [Domains -> 1..Shards]
    /\ None \notin [host: Domains, expires_at: Nat]

VARIABLES now,       \* Utc::now()
          policies,  \* the store: host -> [expires_at, include_subdomains]
          calls,     \* what each chain is doing to the store, see AtRest
          declared,  \* the last word of each host that was taken down: history
          seen       \* the hosts a chain that makes room may have met in the store since it
                     \* looked for its own, and those whose entries stood: history

hstsVars == <<policies, calls, declared, seen>>

\* A chain that has nothing to take down.  Else host has sent entry (None: forget it), and the
\* store is at pc, next at shard; count is what was counted in the shards before, at the clock the
\* sweep went by, best the soonest to expire so far.  word is what the entry was made of.
AtRest == [pc |-> "idle", host |-> None, entry |-> None, word |-> None,
         shard |-> 1, count |-> 0, at |-> 0, best |-> None]
Nothing == [met |-> {}, stood |-> {}]

HstsInit ==
    /\ policies = [d \in {} |-> None] /\ declared = [d \in {} |-> None]
    /\ calls = [c \in Chains |-> AtRest] /\ seen = [c \in Chains |-> Nothing]

-----------------------------------------------------------------------------
(* The header.                                                             *)

\* delta_seconds: digits only, which saturate.
delta_seconds(value) == IF value >= 0 THEN value ELSE None

\* parse_sts: max-age is required, nothing may be given twice, includeSubDomains has no value.
parse_sts(value) ==
    LET Named(n) == {i \in DOMAIN value : value[i].name = n}
        age      == delta_seconds(value[CHOOSE i \in Named("max-age") : TRUE].value)
    IN  IF \/ value = None
           \/ \E i, j \in DOMAIN value : i # j /\ value[i].name = value[j].name
           \/ Named("max-age") = {}
           \/ \E i \in Named("includeSubDomains") : value[i].value # Absent
           \/ age = None
        THEN None
        ELSE [max_age |-> age, include_subdomains |-> Named("includeSubDomains") # {}]

-----------------------------------------------------------------------------
(* The store, one lock at a time.                                          *)

is_expired(entry) == now >= entry.expires_at

Without(p, hosts) == Restrict(p, DOMAIN p \ hosts)
With(p, host, entry) == [h \in DOMAIN p \cup {host} |-> IF h = host THEN entry ELSE p[h]]
InShard(n) == {h \in DOMAIN policies : ShardOf[h] = n}

\* A shard an iterator has locked cannot be written to.
Guarded(n) ==
    \E c \in Chains : /\ calls[c].pc = "scan"
                      /\ \/ calls[c].shard = n + 1
                         \/ calls[c].best # None /\ ShardOf[calls[c].best.host] = n

\* A chain is making room: it has looked for its host and not yet evicted another.
MakingRoom == {"clock", "sweep", "recount", "scan", "evict"}

\* The store becomes p.
Writes(p) ==
    /\ policies' = p
    /\ seen' = [c \in Chains |->
                   IF calls'[c].pc \notin MakingRoom THEN Nothing
                   ELSE [met   |-> seen[c].met \cup DOMAIN p,
                         stood |-> {h \in seen[c].stood : h \in DOMAIN p /\ p[h] = policies[h]}]]

\* To the next shard, or past the last one to pc.
NextShard(c, pc) ==
    calls' = [calls EXCEPT ![c].shard = IF @ < Shards THEN @ + 1 ELSE 1,
                           ![c].pc = IF calls[c].shard < Shards THEN @ ELSE pc]

\* entries.len() against the limit: the shards are counted one after the other, twice: at first, and after the sweep.
is_full(c) ==
    LET count == calls[c].count + Cardinality(InShard(calls[c].shard))
        pc    == IF count < MaxHosts THEN "insert"
                 ELSE IF calls[c].pc = "count" THEN "contains" ELSE "scan"
        more  == calls[c].shard < Shards
    IN  /\ calls[c].pc \in {"count", "recount"}
        /\ calls' = [calls EXCEPT ![c].shard = IF more THEN @ + 1 ELSE 1,
                                  ![c].count = IF more THEN count ELSE 0,
                                  ![c].pc = IF more THEN @ ELSE pc]
        /\ UNCHANGED <<now, policies, declared, seen>>

\* contains_key: a host that is there already only changes its entry.
Looked(c, pc) ==
    /\ calls[c].pc = "contains"
    /\ calls' = [calls EXCEPT ![c].pc = pc]
    /\ seen' = [seen EXCEPT ![c] = IF pc = "insert" THEN Nothing
                                   ELSE [met |-> DOMAIN policies, stood |-> DOMAIN policies]]
    /\ UNCHANGED <<now, policies, declared>>

contains_key_unasked(c) == Looked(c, "clock")

contains_key(c) == Looked(c, IF calls[c].host \in DOMAIN policies THEN "insert" ELSE "clock")

read_clock(c) ==
    /\ calls[c].pc = "clock"
    /\ calls' = [calls EXCEPT ![c].pc = "sweep", ![c].at = now]
    /\ UNCHANGED <<now, policies, declared, seen>>

\* retain: what has run out goes.
retain(c) ==
    LET shard == calls[c].shard
    IN  /\ calls[c].pc = "sweep" /\ ~Guarded(shard)
        /\ NextShard(c, "recount")
        /\ Writes(Without(policies, {h \in InShard(shard) : policies[h].expires_at <= calls[c].at}))
        /\ UNCHANGED <<now, declared>>

\* iter().min_by_key: a later shard has to be better than the earlier ones; which of several
\* entries of a shard that expire together comes first is up to the map.
min_by_key(c) ==
    LET shard   == calls[c].shard
        best    == calls[c].best
        soonest == {h \in InShard(shard) :
                       \A g \in InShard(shard) : policies[h].expires_at <= policies[g].expires_at}
        better  == {h \in soonest : best = None \/ policies[h].expires_at < best.expires_at}
    IN  /\ calls[c].pc = "scan"
        /\ \E pick \in IF better = {} THEN {best}
                       ELSE {[host |-> h, expires_at |-> policies[h].expires_at] : h \in better} :
              calls' = [calls EXCEPT ![c].shard = IF shard < Shards THEN @ + 1 ELSE 1,
                                     ![c].pc = IF shard < Shards THEN @ ELSE "evict",
                                     ![c].best = pick]
        /\ UNCHANGED <<now, policies, declared, seen>>

\* The soonest of those the scan met goes, whatever became of its entry since.
evict(c) ==
    LET best == calls[c].best
    IN  /\ calls[c].pc = "evict"
        /\ best # None => ~Guarded(ShardOf[best.host])
        /\ calls' = [calls EXCEPT ![c].pc = "insert", ![c].at = 0, ![c].best = None]
        /\ Writes(IF best = None THEN policies ELSE Without(policies, {best.host}))
        /\ UNCHANGED <<now, declared>>

insert(c) ==
    LET host == calls[c].host
    IN  /\ calls[c].pc = "insert" /\ ~Guarded(ShardOf[host])
        /\ calls' = [calls EXCEPT ![c] = AtRest]
        /\ Writes(With(policies, host, calls[c].entry))
        /\ declared' = With(declared, host, calls[c].word)
        /\ UNCHANGED now

remove(c) ==
    LET host == calls[c].host
    IN  /\ calls[c].pc = "remove" /\ ~Guarded(ShardOf[host])
        /\ calls' = [calls EXCEPT ![c] = AtRest]
        /\ Writes(Without(policies, {host}))
        /\ declared' = Without(declared, {host})
        /\ UNCHANGED now

\* record: the hop of chain c at url answered with this header value.  What came in plain
\* text, from an address or against the grammar is not heard.
record(c, url, value) ==
    LET sts   == parse_sts(value)
        age   == IF sts.max_age < MaxAge THEN sts.max_age ELSE MaxAge
        entry == [expires_at |-> now + age, include_subdomains |-> sts.include_subdomains]
        word  == [until |-> now + sts.max_age, sub |-> sts.include_subdomains]
    IN  /\ calls[c].pc = "idle"
        /\ url.scheme = "https" /\ url.host # Ip /\ sts # None
        /\ calls' = [calls EXCEPT ![c] =
               IF sts.max_age = 0 THEN [AtRest EXCEPT !.pc = "remove", !.host = url.host]
               ELSE [AtRest EXCEPT !.pc = "count", !.host = url.host, !.entry = entry, !.word = word]]
        /\ UNCHANGED <<now, policies, declared, seen>>

-----------------------------------------------------------------------------
(* Who is reached over https.                                              *)

\* The entries is_known_host looks at for a host of n labels: the host's own, then its
\* superdomains up to the last that still has a dot.
Candidates(host) == {n \in 1..Len(host) : n = Len(host) \/ n >= 2}

\* is_known_host: one of them, on its way up, is in force and extends to the host.  Each is
\* loaded for itself; the model looks at all of them at once.
is_known_host(host) ==
    \E n \in Candidates(host) :
        LET candidate == SubSeq(host, Len(host) - n + 1, Len(host))
        IN  /\ candidate \in DOMAIN policies
            /\ ~is_expired(policies[candidate])
            /\ n = Len(host) \/ policies[candidate].include_subdomains

should_upgrade(url) == url.scheme = "http" /\ url.host # Ip /\ is_known_host(url.host)

-----------------------------------------------------------------------------
(* The chains and the clock.                                               *)

store(c) ==
    \/ is_full(c) \/ contains_key(c) \/ read_clock(c) \/ retain(c) \/ min_by_key(c) \/ evict(c)
    \/ insert(c) \/ remove(c)

\* The clock moves, or is set.
Later == now' \in Nat /\ UNCHANGED hstsVars

HstsStep ==
    \/ Later
    \/ \E c \in Chains :
          \/ store(c)
          \/ \E url \in [scheme: {"http", "https"}, host: Domains \cup {Ip}], value \in Values :
                record(c, url, value)

HstsSpec == now \in Nat /\ HstsInit /\ [][HstsStep]_<<now, hstsVars>>

-----------------------------------------------------------------------------
(* Properties.                                                             *)

\* host is under the policy that domain declared.
Under(host, domain) ==
    \/ host = domain
    \/ /\ declared[domain].sub
       /\ Len(domain) \in 2..(Len(host) - 1)
       /\ domain = SubSeq(host, Len(host) - Len(domain) + 1, Len(host))

\* A host is forced to https only by the last word of itself or of a superdomain that meant
\* its subdomains too, over https, and only while that lasts: a policy taken back with
\* max-age=0, replaced by a shorter one or sent in plain text binds nobody, once that is
\* taken down (hsts.rs record, is_known_host).
KnownIsDeclared ==
    \A host \in Domains : should_upgrade([scheme |-> "http", host |-> host]) =>
        \E d \in DOMAIN declared : Under(host, d) /\ now < declared[d].until

\* Chain c lets go of h to keep a new host.  There was no room: since it found its own host
\* missing it may have met as many hosts as the store is to hold, of those whose entries
\* stood all the while none had run out, and if h is one of them then none expires sooner.
MadeRoom(c, h) ==
    LET stood == seen[c].stood
    IN  /\ calls[c].pc = "evict" /\ calls[c].host \notin stood
        /\ Cardinality(seen[c].met) >= MaxHosts
        /\ \A g \in stood : policies[g].expires_at > calls[c].at
        /\ h \in stood => \A g \in stood : policies[h].expires_at <= policies[g].expires_at

\* A policy in force is given up only on its own host's word, by a clock that was ahead, or
\* for want of room: nobody else's header can unpin a host that still has room, whatever the
\* chains do to the store at once.  A policy that was renewed under the eyes of a chain that
\* makes room has no such claim: the code evicts it (InMemoryHstsStore::store).
GivenUpForCause ==
    [][\A h \in DOMAIN policies : ~is_expired(policies[h]) /\ h \notin DOMAIN policies' =>
          \E c \in Chains :
             /\ calls'[c] # calls[c]
             /\ \/ calls[c].pc = "remove" /\ calls[c].host = h
                \/ calls[c].pc = "sweep" /\ policies[h].expires_at <= calls[c].at
                \/ MadeRoom(c, h)]_<<now, hstsVars>>

\* The store is neither laxer nor stricter than what hosts declared: it forces to https only
\* hosts that are bound, and lets go of a policy in force only for cause (hsts.rs record,
\* is_known_host, InMemoryHstsStore::store).
PolicyKept == []KnownIsDeclared /\ GivenUpForCause
=============================================================================
