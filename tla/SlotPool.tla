------------------------------ MODULE SlotPool ------------------------------
(***************************************************************************)
(* The connection slots of a fetcher (net/slots.rs).  A fetch joins one of *)
(* four lanes for a global slot and a slot of its origin; freed slots go   *)
(* to waiters by a 15-step weighted round-robin over the lanes.            *)
(*                                                                         *)
(* Everything but one thing happens under the pool's mutex: a ticket's     *)
(* receiver is dropped without it.  So the loop of grant() is one step per *)
(* iteration, with the mutex held in between, and a waiter may give up     *)
(* between the `retain` that opens grant() and the `send` that serves it.  *)
(*                                                                         *)
(* A lane (a VecDeque) is the set of its waiters, with, for each waiter,   *)
(* the waiters that stood ahead of it when it joined.                      *)
(***************************************************************************)
EXTENDS Integers, FiniteSets

CONSTANTS Tickets,       \* the fetches that ask for slots, again and again
          Origins,
          GlobalSlots,   \* FetcherConfig::global_slots
          H1PerOrigin,   \* FetcherConfig::h1_per_origin
          H2PerOrigin,   \* FetcherConfig::h2_per_origin
          Asks,          \* the workload: which fetch asks for which origin in which lane,
          Impatient,     \* which fetches may be cancelled while they wait,
          H2Origins      \* and which origins answer over HTTP/2 or HTTP/3

High == 0
Normal == 1
Low == 2
Idle == 3
Lanes == 0..3

\* Fetcher::new refuses a configuration with a limit of zero.
ASSUME SlotAssumption ==
    /\ GlobalSlots \in Nat \ {0}
    /\ H1PerOrigin \in Nat \ {0}
    /\ H2PerOrigin \in Nat \ {0}
    /\ Asks \subseteq Tickets \X Origins \X Lanes
    /\ Impatient \subseteq Tickets
    /\ H2Origins \subseteq Origins

VARIABLES
    global_free,
    in_use,     \* Origin::in_use; an origin the map does not hold counts 0
    h2,         \* Origin::h2; an origin the map does not hold has not spoken h2
    lanes,      \* the waiters of each lane, closed ones included
    ahead,      \* who stood in the lane when a waiter joined it
    turn,       \* position in the 15-step cycle
    ticket,     \* where a fetch is: see TypeOK
    origin,     \* the origin a fetch asks for
    locked,     \* the mutex is held by a grant() under way
    passed      \* history: picks in a row that passed over a waiter of the lane

vars == <<global_free, in_use, h2, lanes, ahead, turn, ticket, origin, locked, passed>>

\* idle: no ticket; waiting: receiver alive, not served; granted: the slots are
\* in its channel; held: it has them.  An idle ticket still in a lane is a
\* waiter with a closed channel.
TypeOK ==
    /\ global_free \in Int
    /\ in_use \in [Origins -> Int]
    /\ h2 \in [Origins -> BOOLEAN]
    /\ lanes \in [Lanes -> SUBSET Tickets]
    /\ ahead \in [Tickets -> SUBSET Tickets]
    /\ turn \in 0..14
    /\ ticket \in [Tickets -> {"idle", "waiting", "granted", "held"}]
    /\ origin \in [Tickets -> Origins]
    /\ locked \in BOOLEAN
    /\ passed \in [Lanes -> Nat]

Init ==
    /\ global_free = GlobalSlots
    /\ in_use = [o \in Origins |-> 0]
    /\ h2 = [o \in Origins |-> FALSE]
    /\ lanes = [l \in Lanes |-> {}]
    /\ ahead = [t \in Tickets |-> {}]
    /\ turn = 0
    /\ ticket = [t \in Tickets |-> "idle"]
    /\ origin \in [Tickets -> Origins]
    /\ locked = FALSE
    /\ passed = [l \in Lanes |-> 0]

-----------------------------------------------------------------------------
(* The lane order and the choice of the next waiter.                       *)

lane_order_idle_last(k) ==
    IF k \in 0..7 THEN <<High, Normal, Low, Idle>>
    ELSE IF k \in 8..11 THEN <<Normal, High, Low, Idle>>
    ELSE <<Low, Normal, High, Idle>>

lane_order(k) ==
    CASE k \in 0..7   -> <<High, Normal, Low, Idle>>
      [] k \in 8..11  -> <<Normal, High, Low, Idle>>
      [] k \in 12..13 -> <<Low, Normal, High, Idle>>
      [] OTHER        -> <<Idle, Low, Normal, High>>

limit(o) == IF h2[o] /\ H2PerOrigin > H1PerOrigin THEN H2PerOrigin ELSE H1PerOrigin

can_go(t) == in_use[origin[t]] < limit(origin[t])

Eligible(l) == {t \in lanes[l] : can_go(t)}

\* The preferred lane with a waiter that can go, and the first such waiter in it.
next_waiter(l, t) ==
    /\ \E p \in 1..4 :
          /\ lane_order(turn)[p] = l
          /\ \A q \in 1..(p - 1) : Eligible(lane_order(turn)[q]) = {}
    /\ t \in Eligible(l)
    /\ \A u \in Eligible(l) \ {t} : t \in ahead[u]

-----------------------------------------------------------------------------
(* grant(): drop the closed waiters, then serve one waiter per iteration.  *)

Live(t) == ticket[t] = "waiting"

\* Entering grant() with lanes ls and tickets tk: `retain` keeps the waiters that
\* still listen.
start_grant(ls, tk) ==
    /\ locked' = TRUE
    /\ lanes' = [l \in Lanes |-> {t \in ls[l] : tk[t] = "waiting"}]

\* The turn moves on with every waiter served.
next_turn(k) == (k + 1) % 15

\* One iteration up to the send: the waiter leaves its lane and the turn moves on.
Pick(l, t) ==
    /\ locked /\ global_free > 0
    /\ next_waiter(l, t)
    /\ lanes' = [lanes EXCEPT ![l] = @ \ {t}]
    /\ turn' = next_turn(turn)
    /\ passed' = [k \in Lanes |-> IF k # l /\ Eligible(k) # {} THEN passed[k] + 1 ELSE 0]
    /\ UNCHANGED <<h2, ahead, origin, locked>>

\* The send reaches a ticket that is still awaited.
Grant(l, t) ==
    /\ Pick(l, t)
    /\ Live(t)
    /\ global_free' = global_free - 1
    /\ in_use' = [in_use EXCEPT ![origin[t]] = @ + 1]
    /\ ticket' = [ticket EXCEPT ![t] = "granted"]

GrantUnsentLeaks(l, t) ==
    /\ Pick(l, t)
    /\ ~Live(t)
    /\ global_free' = global_free - 1
    /\ in_use' = [in_use EXCEPT ![origin[t]] = @ + 1]
    /\ UNCHANGED ticket

\* The send fails: the waiter gave up after the retain; the slots are taken back.
GrantUnsent(l, t) ==
    /\ Pick(l, t)
    /\ ~Live(t)
    /\ UNCHANGED <<global_free, in_use, ticket>>

\* The loop ends: no slot is free, or no waiter can go.
GrantDone ==
    /\ locked
    /\ global_free = 0 \/ \A l \in Lanes : Eligible(l) = {}
    /\ locked' = FALSE
    /\ UNCHANGED <<global_free, in_use, h2, lanes, ahead, turn, ticket, origin, passed>>

-----------------------------------------------------------------------------
(* The operations of the pool and of its tickets.                          *)

enqueue(t, o, l) ==
    /\ ~locked
    /\ <<t, o, l>> \in Asks
    /\ ticket[t] = "idle" /\ \A k \in Lanes : t \notin lanes[k]
    /\ ticket' = [ticket EXCEPT ![t] = "waiting"]
    /\ origin' = [origin EXCEPT ![t] = o]
    /\ ahead' = [u \in Tickets |-> IF u = t THEN lanes[l] ELSE ahead[u] \ {t}]
    /\ start_grant([lanes EXCEPT ![l] = @ \cup {t}], ticket')
    /\ UNCHANGED <<global_free, in_use, h2, turn, passed>>

\* Ticket dropped before it was served: only its channel closes.
GiveUp(t) ==
    /\ Live(t) /\ t \in Impatient
    /\ ticket' = [ticket EXCEPT ![t] = "idle"]
    /\ UNCHANGED <<global_free, in_use, h2, lanes, ahead, turn, origin, locked, passed>>

\* Ticket::wait takes the slots out of the channel.
wait(t) ==
    /\ ticket[t] = "granted"
    /\ ticket' = [ticket EXCEPT ![t] = "held"]
    /\ UNCHANGED <<global_free, in_use, h2, lanes, ahead, turn, origin, locked, passed>>

\* Slots dropped, by the fetch that held them or with the ticket that was
\* dropped after it had been served.
release(t) ==
    /\ ~locked
    /\ ticket[t] \in {"granted", "held"}
    /\ ticket' = [ticket EXCEPT ![t] = "idle"]
    /\ global_free' = global_free + 1
    /\ in_use' = [in_use EXCEPT ![origin[t]] = @ - 1]
    /\ start_grant(lanes, ticket')
    /\ UNCHANGED <<h2, ahead, turn, origin, passed>>

observe_no_grant(o) ==
    /\ ~locked
    /\ \E t \in Tickets : ticket[t] = "held"
    /\ ~h2[o]
    /\ h2' = [h2 EXCEPT ![o] = TRUE]
    /\ UNCHANGED <<global_free, in_use, lanes, ahead, turn, ticket, origin, locked, passed>>

\* A response from o, to a fetch that holds slots, came in over HTTP/2 or HTTP/3
\* for the first time.  (Any other response leaves the pool as it is.)
observe(o) ==
    /\ ~locked
    /\ \E t \in Tickets : ticket[t] = "held"
    /\ ~h2[o]
    /\ h2' = [h2 EXCEPT ![o] = TRUE]
    /\ start_grant(lanes, ticket)
    /\ UNCHANGED <<global_free, in_use, ahead, turn, ticket, origin, passed>>

Next ==
    \/ \E t \in Tickets :
          \/ \E o \in Origins, l \in Lanes : enqueue(t, o, l)
          \/ \E l \in Lanes : Grant(l, t) \/ GrantUnsent(l, t)
          \/ GiveUp(t) \/ wait(t) \/ release(t)
    \/ GrantDone
    \/ \E o \in H2Origins : observe(o)

Spec == Init /\ [][Next]_vars

-----------------------------------------------------------------------------
(* What the pool guarantees.                                               *)

Holders == {t \in Tickets : ticket[t] \in {"granted", "held"}}

\* Every global slot is free or with exactly one fetch, whatever tickets were
\* dropped and whenever: none is lost when a waiter gives up as it is served
\* (the taking back in grant()), and none is given back twice.
SlotsConserved ==
    /\ global_free >= 0
    /\ global_free + Cardinality(Holders) = GlobalSlots

\* An origin is charged for the fetches that hold its slots, so the decrement in
\* release() never underflows.
OriginAccounting ==
    \A o \in Origins : in_use[o] = Cardinality({t \in Holders : origin[t] = o})

\* No origin has more connections than its limit, before and after it was seen
\* speaking HTTP/2.
WithinLimit == \A o \in Origins : in_use[o] <= limit(o)

\* The books of the pool are right: no slot is lost or granted twice, globally or per
\* origin, whoever gives up between the retain and the send of grant().
SlotsAccounted == SlotsConserved /\ OriginAccounting /\ WithinLimit

\* No lost wake-up: whenever the mutex is free, no fetch waits that could go.
NoSlotIdles ==
    ~locked => global_free = 0 \/ \A t \in Tickets : Live(t) => ~can_go(t)

\* The pool never drops a waiter without serving it while its ticket is alive
\* (Ticket::wait): it stands in exactly one lane.
LiveInLine ==
    \A t \in Tickets : Live(t) =>
        \E l \in Lanes : t \in lanes[l] /\ \A k \in Lanes \ {l} : t \notin lanes[k]

MaxPassed == <<7, 11, 13, 14>>

\* The weights 8:4:2:1 bound how often in a row a lane with a waiter that can go
\* is passed over: a lane is preferred again within one cycle of 15 grants.
LaneServedWithinCycle == \A l \in Lanes : passed[l] <= MaxPassed[l + 1]
=============================================================================
