-------------------------- MODULE LifecycleProofs ---------------------------
(***************************************************************************)
(* Proofs about what observers are told.  Lifecycle: for any number of     *)
(* requests that share a fetch and any number of events, each observer     *)
(* sees one end, the right one.  HopReports: for any request, responses    *)
(* and policies, the events tell every change to a hop and nothing else.   *)
(***************************************************************************)
EXTENDS Lifecycle, HopReports, FiniteSetTheorems, WellFoundedInduction, TLAPS

Events == {"Accepted", "SecurityUpgraded", "Hop", "Progress"} \cup Terminal
Calls == Requests \X Events

TypeOK ==
    /\ seen \in [Requests -> Seq(Events)]
    /\ ended \in [Requests -> BOOLEAN]
    /\ signal \subseteq Requests
    /\ work \in [Requests -> Int]
    /\ watch \in [Requests -> {"none", "watching", "cancelled", "gone"}]
    /\ joining \in Requests \cup {Nothing}
    /\ attached \subseteq Requests
    /\ end \in Terminal \cup {Nothing}
    /\ reports \in Nat
    /\ pending \in [Threads -> SUBSET Calls]
    /\ emitting \in [Threads -> Calls \cup {<<>>}]
    /\ torn \in BOOLEAN

\* Thread t has decided to tell r of event ev.
Telling(t, r, ev) == emitting[t] = <<r, ev>>

\* Only a request that was accepted is attached, watched or told anything.
KnownAccepted ==
    \A r \in Requests : seen[r] = <<>> =>
        /\ ~ended[r] /\ r \notin attached /\ watch[r] = "none" /\ joining # r
        /\ \A t \in Threads, ev \in Events : <<r, ev>> \notin pending[t] /\ ~Telling(t, r, ev)

\* The request under way in accept is not watched yet.
JoiningUnwatched == joining # Nothing => watch[joining] = "none"

\* Nobody is inside on_event once the runtime is gone.
TornIsIdle == torn => joining = Nothing /\ \A t \in Threads : Idle(t)

\* Where the end of a request is: with nobody while `ended` is unset, then with the one
\* thread that has set it, then with the observer.  Drop reports without setting it.
NotYet ==
    \A r \in Requests : ~ended[r] =>
        /\ \A t \in Threads, ev \in Terminal : ~Telling(t, r, ev)
        /\ EndsSeen(r) # {} => torn /\ watch[r] = "gone"
OnItsWay ==
    \A r \in Requests, t \in Threads, ev \in Terminal : Telling(t, r, ev) =>
        /\ EndsSeen(r) = {}
        /\ \A u \in Threads, fv \in Terminal : Telling(u, r, fv) => u = t
Arrived == \A r \in Requests : \A m, n \in EndsSeen(r) : m = n

\* The reference's work is outstanding from Accepted to the end.
WorkBalanced ==
    \A r \in Requests : work[r] = IF seen[r] # <<>> /\ EndsSeen(r) = {} THEN 1 ELSE 0

\* An end that is still to be told is the fetch's, or the caller's own cancellation.
CallsOwn ==
    \A t \in Threads, r \in Requests, ev \in Terminal :
        <<r, ev>> \in pending[t] \/ Telling(t, r, ev) => ev = end \/ watch[r] = "cancelled"

LifeInv ==
    /\ TypeOK /\ KnownAccepted /\ JoiningUnwatched /\ TornIsIdle
    /\ NotYet /\ OnItsWay /\ Arrived /\ WorkBalanced /\ CallsOwn /\ EndIsOwn

-----------------------------------------------------------------------------
(* What an observer has seen, after one event more.                        *)

LEMMA SameEnds ==
    ASSUME NEW r \in Requests, seen'[r] = seen[r]
    PROVE  EndsSeen(r)' = EndsSeen(r)
  BY DEF EndsSeen

LEMMA AppendEnds ==
    ASSUME TypeOK, NEW r \in Requests, NEW ev \in Events, seen'[r] = Append(seen[r], ev)
    PROVE  /\ ev \notin Terminal => EndsSeen(r)' = EndsSeen(r)
           /\ ev \in Terminal => EndsSeen(r)' = EndsSeen(r) \cup {Len(seen[r]) + 1}
           /\ \A n \in EndsSeen(r) : seen'[r][n] = seen[r][n]
           /\ seen'[r][Len(seen[r]) + 1] = ev
           /\ seen'[r] # <<>>
<1> DEFINE s == seen[r]
           L == Len(s)
<1>1. s \in Seq(Events) /\ L \in Nat /\ DOMAIN s = 1..L
  BY DEF TypeOK
<1>2. /\ Append(s, ev) \in Seq(Events) /\ DOMAIN Append(s, ev) = 1..(L + 1)
      /\ Append(s, ev)[L + 1] = ev
      /\ \A n \in 1..L : Append(s, ev)[n] = s[n]
  BY <1>1
<1>3. EndsSeen(r) = {n \in 1..L : s[n] \in Terminal}
  BY <1>1 DEF EndsSeen
<1>4. EndsSeen(r)' = {n \in 1..(L + 1) : seen'[r][n] \in Terminal}
  BY <1>2 DEF EndsSeen
<1>5. \A n : n \in 1..(L + 1) <=> n \in 1..L \/ n = L + 1
  BY <1>1
<1> HIDE DEF s, L
<1>6. /\ seen'[r][L + 1] = ev
      /\ \A n \in 1..L : seen'[r][n] = s[n]
  BY <1>2 DEF s
<1>7. seen'[r] # <<>>
  <2>1. Len(seen'[r]) = L + 1 /\ L + 1 # 0
    BY <1>1 DEF s, L
  <2>2. Len(<<>>) = 0
    OBVIOUS
  <2> QED
    BY <2>1, <2>2
<1>8. ev \notin Terminal => EndsSeen(r)' = EndsSeen(r)
  BY <1>3, <1>4, <1>5, <1>6
<1>9. ev \in Terminal => EndsSeen(r)' = EndsSeen(r) \cup {L + 1}
  BY <1>3, <1>4, <1>5, <1>6
<1> QED
  BY <1>3, <1>6, <1>7, <1>8, <1>9 DEF s, L

\* accept reports no end.
LEMMA AcceptEnds ==
    ASSUME NEW r \in Requests, NEW u \in {<<>>, <<"SecurityUpgraded">>},
           seen'[r] = <<"Accepted">> \o u
    PROVE  seen'[r] \in Seq(Events) /\ seen'[r] # <<>> /\ EndsSeen(r)' = {}
<1> DEFINE Opening == {"Accepted", "SecurityUpgraded"}
<1>1. u \in Seq(Opening) /\ <<"Accepted">> \in Seq(Opening) /\ Len(<<"Accepted">>) = 1
  <2>1. <<>> \in Seq(Opening) /\ <<"SecurityUpgraded">> \in Seq(Opening)
    OBVIOUS
  <2>2. <<"Accepted">> \in Seq(Opening) /\ Len(<<"Accepted">>) = 1
    OBVIOUS
  <2> QED
    BY <2>1, <2>2
<1> DEFINE a == <<"Accepted">>
<1> HIDE DEF a, Opening
<1>2. seen'[r] = a \o u /\ a \in Seq(Opening) /\ u \in Seq(Opening) /\ Len(a) = 1
  BY <1>1 DEF a
<1>3. a \o u \in Seq(Opening) /\ Len(a \o u) = 1 + Len(u) /\ Len(u) \in Nat
  BY <1>2
<1>4. seen'[r] \in Seq(Opening) /\ Len(seen'[r]) # 0
  BY <1>2, <1>3
<1>5. Opening \subseteq Events /\ Opening \cap Terminal = {}
  BY DEF Opening, Events, Terminal
<1>6. seen'[r] \in Seq(Events) /\ \A n \in DOMAIN seen'[r] : seen'[r][n] \in Opening
  BY <1>4, <1>5
<1>7. seen'[r] # <<>>
  BY <1>4
<1> QED
  BY <1>5, <1>6, <1>7 DEF EndsSeen

-----------------------------------------------------------------------------

LEMMA InitInv == Init => LifeInv
<1> SUFFICES ASSUME Init PROVE LifeInv
  OBVIOUS
<1> USE LifecycleAssumption DEF LifecycleAssumption
<1>1. torn \in BOOLEAN /\ ended \in [Requests -> BOOLEAN]
  BY Zenon DEF Init
<1>2. seen \in [Requests -> Seq(Events)]
  BY DEF Init
<1>3. TypeOK
  BY <1>1, <1>2 DEF Init, TypeOK
<1>4. \A r \in Requests : EndsSeen(r) = {}
  BY DEF Init, EndsSeen
<1>5. \A t \in Threads : pending[t] = {} /\ \A r, ev : ~Telling(t, r, ev)
  BY DEF Init, Telling
<1> QED
  BY <1>3, <1>4, <1>5 DEF Init, LifeInv, KnownAccepted, JoiningUnwatched, TornIsIdle, NotYet,
     OnItsWay, Arrived, WorkBalanced, CallsOwn, EndIsOwn

LEMMA StepType == TypeOK /\ [Next]_vars => TypeOK'
<1> SUFFICES ASSUME TypeOK, [Next]_vars PROVE TypeOK'
  OBVIOUS
<1> USE LifecycleAssumption DEF LifecycleAssumption
<1>0. {"Accepted", "SecurityUpgraded", "Hop", "Progress"} \subseteq Events /\ Terminal \subseteq Events
      /\ "Cancelled" \in Terminal /\ "task" \in Threads /\ "loop" \in Threads
      /\ Requests \subseteq Threads
  BY DEF Events, Terminal, Threads
<1>1. ASSUME NEW t \in Threads, on_event(t) PROVE TypeOK'
  <2>1. PICK c \in pending[t] : decide(t, c[1], c[2])
    BY <1>1 DEF on_event
  <2>2. c \in Calls /\ c[1] \in Requests /\ c = <<c[1], c[2]>>
    BY DEF TypeOK, Calls
  <2>3. pending' \in [Threads -> SUBSET Calls] /\ emitting' \in [Threads -> Calls \cup {<<>>}]
    BY <2>1, <2>2 DEF TypeOK, decide
  <2>4. (ended[c[1]] \/ c[2] \in Terminal) \in BOOLEAN
    BY Zenon
  <2>5. ended' \in [Requests -> BOOLEAN]
    BY <2>1, <2>2, <2>4 DEF TypeOK, decide
  <2> QED
    BY <1>1, <2>3, <2>5 DEF TypeOK, on_event
<1>2. ASSUME NEW t \in Threads, emit(t) PROVE TypeOK'
  <2> DEFINE r == emitting[t][1]
             ev == emitting[t][2]
  <2>1. r \in Requests /\ ev \in Events
    BY <1>2 DEF TypeOK, Calls, emit
  <2>2. Append(seen[r], ev) \in Seq(Events) /\ work[r] \in Int
    BY <2>1 DEF TypeOK
  <2> HIDE DEF r, ev
  <2>3. /\ seen' = [seen EXCEPT ![r] = Append(@, ev)]
        /\ work' = [work EXCEPT ![r] = IF ev \in Terminal THEN @ - 1 ELSE @]
        /\ signal' = IF ev \in Terminal THEN signal \cup {r} ELSE signal
    BY <1>2 DEF emit, r, ev
  <2>4. seen' \in [Requests -> Seq(Events)] /\ work' \in [Requests -> Int] /\ signal' \subseteq Requests
    BY <2>1, <2>2, <2>3 DEF TypeOK
  <2> QED
    BY <1>2, <2>4 DEF TypeOK, emit
<1>3. ASSUME NEW r \in Requests, accept(r) PROVE TypeOK'
  <2>1. PICK u \in {<<>>, <<"SecurityUpgraded">>} : seen' = [seen EXCEPT ![r] = <<"Accepted">> \o u]
    BY <1>3 DEF accept
  <2>2. seen'[r] \in Seq(Events)
    BY <2>1, AcceptEnds DEF TypeOK
  <2>3. seen' \in [Requests -> Seq(Events)] /\ work' \in [Requests -> Int]
    BY <1>3, <2>1, <2>2 DEF TypeOK, accept
  <2> QED
    BY <1>3, <2>3 DEF TypeOK, accept
<1>4. CASE Attach
  <2>1. joining \in Requests
    BY <1>0, <1>4 DEF TypeOK, Attach
  <2>2. attached' \subseteq Requests
    BY <1>0, <1>4, <2>1 DEF TypeOK, Attach, attach
  <2>3. pending' \in [Threads -> SUBSET Calls]
    <3>1. CASE end = Nothing
      BY <1>0, <1>4, <3>1 DEF TypeOK, Attach, attach
    <3>2. CASE end # Nothing
      <4>1. {<<joining, end>>} \in SUBSET Calls
        BY <1>0, <2>1, <3>2 DEF TypeOK, Calls, Events
      <4>2. pending' = [pending EXCEPT !["loop"] = {<<joining, end>>}]
        BY <1>4, <3>2 DEF Attach, attach
      <4> QED BY <1>0, <4>1, <4>2 DEF TypeOK
    <3> QED BY <3>1, <3>2
  <2> QED BY <1>0, <1>4, <2>1, <2>2, <2>3 DEF TypeOK, Attach
<1>5. \A ev \in {"Hop", "Progress"} \cup Terminal : Recipients(ev) \X {ev} \in SUBSET Calls
  BY <1>0 DEF TypeOK, Recipients, Calls
<1>11. ASSUME NEW ev \in {"Hop", "Progress"}, report(ev) PROVE TypeOK'
  <2>1. Recipients(ev) \X {ev} \in SUBSET Calls
    BY <1>5
  <2>2. pending' \in [Threads -> SUBSET Calls]
    BY <1>11, <2>1 DEF TypeOK, report
  <2>3. reports' \in Nat
    BY <1>11 DEF TypeOK, report
  <2> QED
    BY <1>11, <2>2, <2>3 DEF TypeOK, report
<1>12. ASSUME NEW ev \in Terminal, report_end(ev) PROVE TypeOK'
  BY <1>5, <1>12 DEF TypeOK, report_end
<1>6. ASSUME NEW r \in Requests, watch_cancel(r) PROVE TypeOK'
  BY <1>0, <1>6 DEF TypeOK, watch_cancel, Calls
<1>7. ASSUME NEW r \in Requests, watch_ended(r) PROVE TypeOK'
  BY <1>7 DEF TypeOK, watch_ended
<1>8. CASE Teardown
  <2>1. torn' \in BOOLEAN
    BY <1>8, Zenon DEF Teardown
  <2> QED
    BY <1>8, <2>1 DEF TypeOK, Teardown
<1>9. ASSUME NEW r \in Requests, drop(r) PROVE TypeOK'
  <2>1. Append(seen[r], "Cancelled") \in Seq(Events) /\ work[r] \in Int
    BY <1>0 DEF TypeOK
  <2>2. seen' \in [Requests -> Seq(Events)] /\ work' \in [Requests -> Int]
    BY <1>9, <2>1 DEF TypeOK, drop
  <2> QED
    BY <1>9, <2>2 DEF TypeOK, drop
<1>10. CASE UNCHANGED vars
  BY <1>10 DEF TypeOK, vars
<1> QED
  BY <1>1, <1>2, <1>3, <1>4, <1>6, <1>7, <1>8, <1>9, <1>10, <1>11, <1>12 DEF Next

-----------------------------------------------------------------------------
(* Each step keeps the invariant: one lemma for the two halves of          *)
(* on_event, one for the rest.                                             *)

LEMMA StepDecide ==
    ASSUME LifeInv, NEW t \in Threads, on_event(t), TypeOK'
    PROVE  LifeInv'
<1> USE LifecycleAssumption DEF LifecycleAssumption
<1>1. PICK c \in pending[t] : decide(t, c[1], c[2])
  BY DEF on_event
<1>0. c \in Requests \X Events
  BY DEF LifeInv, TypeOK, Calls
<1>2. PICK r \in Requests, ev \in Events : c = <<r, ev>> /\ <<r, ev>> \in pending[t]
  BY <1>0
<1>3. /\ pending' = [pending EXCEPT ![t] = @ \ {<<r, ev>>}]
      /\ emitting' = [emitting EXCEPT ![t] = IF ended[r] THEN <<>> ELSE <<r, ev>>]
      /\ ended' = [ended EXCEPT ![r] = @ \/ ev \in Terminal]
      /\ emitting[t] = <<>>
      /\ UNCHANGED <<seen, signal, work, watch, joining, attached, end, reports, torn>>
  BY <1>1, <1>2 DEF decide, on_event
<1>4. \A q \in Requests : EndsSeen(q)' = EndsSeen(q)
  BY <1>3, SameEnds
<1>5. \A u \in Threads, q \in Requests, f \in Events : <<q, f>> \in pending'[u] => <<q, f>> \in pending[u]
  BY <1>3 DEF LifeInv, TypeOK
<1>6. \A u \in Threads, q \in Requests, f \in Events :
         Telling(u, q, f)' => Telling(u, q, f) \/ (~ended[r] /\ u = t /\ q = r /\ f = ev)
  BY <1>2, <1>3 DEF LifeInv, TypeOK, Telling
<1>7. \A q \in Requests : ended'[q] <=> ended[q] \/ (q = r /\ ev \in Terminal)
  BY <1>2, <1>3 DEF LifeInv, TypeOK
<1>8. seen[r] # <<>>
  BY <1>2 DEF LifeInv, KnownAccepted
<1>9. ~torn
  BY <1>2 DEF LifeInv, TornIsIdle, Idle
<1>10. Terminal \subseteq Events
  BY DEF Events
<1>11. KnownAccepted'
  BY <1>3, <1>5, <1>6, <1>7, <1>8 DEF LifeInv, KnownAccepted
<1>12. JoiningUnwatched' /\ TornIsIdle'
  BY <1>3, <1>9 DEF LifeInv, JoiningUnwatched, TornIsIdle
<1>13. NotYet'
  BY <1>3, <1>4, <1>6, <1>7, <1>10 DEF LifeInv, NotYet
<1>14. OnItsWay'
  <2> SUFFICES ASSUME NEW q \in Requests, NEW u \in Threads, NEW f \in Terminal, Telling(u, q, f)',
                      NEW w \in Threads, NEW g \in Terminal, Telling(w, q, g)'
               PROVE  EndsSeen(q)' = {} /\ w = u
    BY <1>4 DEF OnItsWay
  <2>1. CASE Telling(u, q, f) /\ Telling(w, q, g)
    BY <1>4, <2>1 DEF LifeInv, OnItsWay
  <2>2. CASE ~(Telling(u, q, f) /\ Telling(w, q, g))
    <3>1. ~ended[r] /\ q = r
      BY <1>6, <1>10, <2>2
    <3>2. ~Telling(u, q, f) /\ ~Telling(w, q, g) /\ EndsSeen(q) = {}
      BY <3>1, <1>9 DEF LifeInv, NotYet
    <3> QED
      BY <1>4, <1>6, <1>10, <3>2
  <2> QED
    BY <2>1, <2>2
<1>15. Arrived' /\ WorkBalanced'
  BY <1>3, <1>4 DEF LifeInv, Arrived, WorkBalanced
<1>16. CallsOwn'
  BY <1>2, <1>3, <1>5, <1>6, <1>10 DEF LifeInv, CallsOwn
<1>17. EndIsOwn'
  BY <1>3, <1>4 DEF LifeInv, EndIsOwn
<1> QED
  BY <1>11, <1>12, <1>13, <1>14, <1>15, <1>16, <1>17 DEF LifeInv

LEMMA StepEmit ==
    ASSUME LifeInv, NEW t \in Threads, emit(t), TypeOK'
    PROVE  LifeInv'
<1> USE LifecycleAssumption DEF LifecycleAssumption
<1>0. PICK r \in Requests, ev \in Events : emitting[t] = <<r, ev>>
  BY DEF LifeInv, TypeOK, Calls, emit
<1> DEFINE L == Len(seen[r]) + 1
<1>1. r \in Requests /\ ev \in Events /\ Telling(t, r, ev)
  BY <1>0 DEF Telling
<1>2. /\ seen' = [seen EXCEPT ![r] = Append(@, ev)]
      /\ work' = [work EXCEPT ![r] = IF ev \in Terminal THEN @ - 1 ELSE @]
      /\ emitting' = [emitting EXCEPT ![t] = <<>>]
      /\ UNCHANGED <<ended, watch, joining, attached, end, reports, pending, torn>>
  BY <1>0 DEF emit
<1>3. seen'[r] = Append(seen[r], ev) /\ \A q \in Requests : q # r => seen'[q] = seen[q]
  BY <1>1, <1>2 DEF LifeInv, TypeOK
<1>4. /\ ev \notin Terminal => EndsSeen(r)' = EndsSeen(r)
      /\ ev \in Terminal => EndsSeen(r)' = EndsSeen(r) \cup {L}
      /\ \A n \in EndsSeen(r) : seen'[r][n] = seen[r][n]
      /\ seen'[r][L] = ev /\ seen'[r] # <<>>
  BY <1>1, <1>3, AppendEnds DEF LifeInv
<1> HIDE DEF L
<1>5. \A q \in Requests : q # r => EndsSeen(q)' = EndsSeen(q)
  BY <1>3, SameEnds
<1>6. \A u \in Threads, q \in Requests, f \in Events :
         Telling(u, q, f)' => Telling(u, q, f) /\ u # t
  BY <1>1, <1>2 DEF LifeInv, TypeOK, Telling
<1>7. seen[r] # <<>>
  BY <1>1 DEF LifeInv, KnownAccepted
<1>8. Terminal \subseteq Events
  BY DEF Events
<1>9. ev \in Terminal => /\ ended[r] /\ EndsSeen(r) = {}
                         /\ \A u \in Threads, f \in Terminal : ~Telling(u, r, f)'
  BY <1>1, <1>6, <1>8 DEF LifeInv, NotYet, OnItsWay
<1>10. ~torn
  BY <1>1 DEF LifeInv, TornIsIdle, Idle, Telling
<1>11. KnownAccepted'
  BY <1>2, <1>3, <1>4, <1>6 DEF LifeInv, KnownAccepted
<1>12. JoiningUnwatched' /\ TornIsIdle'
  BY <1>2, <1>10 DEF LifeInv, JoiningUnwatched, TornIsIdle
<1>13. NotYet'
  <2> SUFFICES ASSUME NEW q \in Requests, ~ended'[q]
               PROVE  /\ \A u \in Threads, f \in Terminal : ~Telling(u, q, f)'
                      /\ EndsSeen(q)' # {} => torn' /\ watch'[q] = "gone"
    BY DEF NotYet
  <2>1. q = r => ev \notin Terminal
    BY <1>2, <1>9
  <2>2. EndsSeen(q)' = EndsSeen(q)
    BY <1>4, <1>5, <2>1
  <2> QED
    BY <1>2, <1>6, <1>8, <2>2 DEF LifeInv, NotYet
<1>14. OnItsWay'
  <2> SUFFICES ASSUME NEW q \in Requests, NEW u \in Threads, NEW f \in Terminal, Telling(u, q, f)',
                      NEW w \in Threads, NEW g \in Terminal, Telling(w, q, g)'
               PROVE  EndsSeen(q)' = {} /\ w = u
    BY DEF OnItsWay
  <2>1. q = r => ev \notin Terminal
    BY <1>9
  <2>2. EndsSeen(q)' = EndsSeen(q)
    BY <1>4, <1>5, <2>1
  <2> QED
    BY <1>6, <1>8, <2>2 DEF LifeInv, OnItsWay
<1>15. Arrived'
  BY <1>4, <1>5, <1>9 DEF LifeInv, Arrived
<1>16. WorkBalanced'
  <2>1. \A q \in Requests : q # r => work'[q] = work[q]
    BY <1>1, <1>2 DEF LifeInv, TypeOK
  <2>2. \A q \in Requests : q # r => work'[q] = IF seen'[q] # <<>> /\ EndsSeen(q)' = {} THEN 1 ELSE 0
    BY <1>3, <1>5, <2>1 DEF LifeInv, WorkBalanced
  <2>3. work[r] = IF EndsSeen(r) = {} THEN 1 ELSE 0
    BY <1>1, <1>7 DEF LifeInv, WorkBalanced
  <2>4. work'[r] = IF ev \in Terminal THEN work[r] - 1 ELSE work[r]
    BY <1>1, <1>2 DEF LifeInv, TypeOK
  <2>5. work'[r] = IF EndsSeen(r)' = {} THEN 1 ELSE 0
    BY <1>4, <1>9, <2>3, <2>4
  <2> QED
    BY <1>4, <2>2, <2>5 DEF WorkBalanced
<1>17. CallsOwn'
  BY <1>2, <1>6, <1>8 DEF LifeInv, CallsOwn
<1>18. EndIsOwn'
  <2>1. ev \in Terminal => ev = end \/ watch[r] = "cancelled"
    BY <1>1 DEF LifeInv, CallsOwn
  <2>2. \A n \in EndsSeen(r)' : watch[r] = "cancelled" \/ torn \/ seen'[r][n] = end
    BY <1>4, <2>1 DEF LifeInv, EndIsOwn
  <2>3. \A q \in Requests : q # r =>
           \A n \in EndsSeen(q)' : watch[q] = "cancelled" \/ torn \/ seen'[q][n] = end
    BY <1>3, <1>5 DEF LifeInv, EndIsOwn
  <2> QED
    BY <1>2, <2>2, <2>3 DEF EndIsOwn
<1> QED
  BY <1>11, <1>12, <1>13, <1>14, <1>15, <1>16, <1>17, <1>18 DEF LifeInv

\* The steps that tell an observer nothing.
LEMMA StepQuiet ==
    ASSUME LifeInv, TypeOK', UNCHANGED <<seen, ended, work, emitting>>,
           \/ Attach \/ Teardown
           \/ \E r \in Requests : watch_cancel(r) \/ watch_ended(r)
           \/ \E ev \in {"Hop", "Progress"} : report(ev)
           \/ \E ev \in Terminal : report_end(ev)
    PROVE  LifeInv'
<1> USE LifecycleAssumption DEF LifecycleAssumption
<1>0. \A q \in Requests : EndsSeen(q)' = EndsSeen(q)
  BY SameEnds
<1>1. Arrived' /\ WorkBalanced' /\ OnItsWay'
  BY <1>0 DEF LifeInv, Arrived, WorkBalanced, OnItsWay, Telling
<1>2. \A q \in Requests : \A n \in EndsSeen(q) : seen[q][n] \in Terminal
  BY DEF EndsSeen
<1>3. /\ "task" \in Threads /\ "loop" \in Threads /\ Requests \subseteq Threads
      /\ "Cancelled" \in Terminal /\ Terminal \subseteq Events
  BY DEF Threads, Terminal, Events
<1>4. CASE Attach
  <2>1. joining \in Requests /\ watch[joining] = "none" /\ seen[joining] # <<>> /\ ~torn
    BY <1>4 DEF Attach, LifeInv, TypeOK, JoiningUnwatched, KnownAccepted, TornIsIdle
  <2>2. /\ watch'[joining] = "watching"
        /\ \A q \in Requests : q # joining => watch'[q] = watch[q]
        /\ joining' = Nothing /\ UNCHANGED <<end, torn>>
        /\ attached' \subseteq attached \cup {joining}
        /\ \A u \in Threads : u # "loop" => pending'[u] = pending[u]
        /\ end = Nothing => pending' = pending
        /\ end # Nothing => pending'["loop"] = {<<joining, end>>}
    BY <1>3, <1>4, <2>1 DEF Attach, attach, LifeInv, TypeOK
  <2>3. \A u \in Threads, q \in Requests, f \in Events : <<q, f>> \in pending'[u] =>
           <<q, f>> \in pending[u] \/ (q = joining /\ f = end)
    BY <2>2
  <2>4. KnownAccepted'
    <3> SUFFICES ASSUME NEW q \in Requests, seen[q] = <<>>
                 PROVE  /\ ~ended[q] /\ q \notin attached' /\ watch'[q] = "none" /\ joining' # q
                        /\ \A t \in Threads, ev \in Events :
                              <<q, ev>> \notin pending'[t] /\ ~Telling(t, q, ev)'
      BY DEF KnownAccepted
    <3>1. q # joining
      BY <2>1
    <3> QED
      BY <2>2, <2>3, <3>1 DEF LifeInv, KnownAccepted, Telling
  <2>5. JoiningUnwatched' /\ TornIsIdle'
    BY <2>1, <2>2 DEF JoiningUnwatched, TornIsIdle
  <2>6. NotYet'
    BY <1>0, <2>1, <2>2 DEF LifeInv, NotYet, Telling
  <2>7. CallsOwn'
    BY <1>3, <2>1, <2>2, <2>3 DEF LifeInv, CallsOwn, Telling
  <2>8. EndIsOwn'
    BY <1>0, <2>1, <2>2 DEF LifeInv, EndIsOwn
  <2> QED
    BY <1>1, <2>4, <2>5, <2>6, <2>7, <2>8 DEF LifeInv
<1>5. CASE Teardown
  <2>1. torn' /\ joining = Nothing /\ \A t \in Threads : Idle(t)
    BY <1>5, Zenon DEF Teardown
  <2>2. UNCHANGED <<signal, watch, joining, attached, end, reports, pending>>
    BY <1>5 DEF Teardown
  <2>3. KnownAccepted' /\ JoiningUnwatched' /\ CallsOwn'
    BY <2>2 DEF LifeInv, KnownAccepted, JoiningUnwatched, CallsOwn, Telling
  <2>4. TornIsIdle' /\ EndIsOwn'
    BY <1>0, <2>1, <2>2 DEF TornIsIdle, Idle, EndIsOwn
  <2>5. NotYet'
    BY <1>0, <2>1, <2>2 DEF LifeInv, NotYet, Telling
  <2> QED
    BY <1>1, <2>3, <2>4, <2>5 DEF LifeInv
<1>6. ASSUME NEW r \in Requests, watch_cancel(r) \/ watch_ended(r) PROVE LifeInv'
  <2>1. /\ watch[r] = "watching" /\ watch'[r] \in {"cancelled", "gone"} /\ ~torn
        /\ \A q \in Requests : q # r => watch'[q] = watch[q]
        /\ UNCHANGED <<joining, end, torn>> /\ attached' \subseteq attached
        /\ \A u \in Threads : u # r => pending'[u] = pending[u]
        /\ watch'[r] = "cancelled" => pending'[r] = {<<r, "Cancelled">>}
        /\ watch'[r] = "gone" => pending' = pending
    BY <1>3, <1>6 DEF watch_cancel, watch_ended, LifeInv, TypeOK
  <2>2. seen[r] # <<>>
    BY <2>1 DEF LifeInv, KnownAccepted
  <2>3. \A u \in Threads, q \in Requests, f \in Events : <<q, f>> \in pending'[u] =>
           <<q, f>> \in pending[u] \/ (q = r /\ watch'[r] = "cancelled")
    BY <2>1
  <2>4. KnownAccepted'
    <3> SUFFICES ASSUME NEW q \in Requests, seen[q] = <<>>
                 PROVE  /\ ~ended[q] /\ q \notin attached' /\ watch'[q] = "none" /\ joining' # q
                        /\ \A t \in Threads, ev \in Events :
                              <<q, ev>> \notin pending'[t] /\ ~Telling(t, q, ev)'
      BY DEF KnownAccepted
    <3>1. q # r
      BY <2>2
    <3> QED
      BY <2>1, <2>3, <3>1 DEF LifeInv, KnownAccepted, Telling
  <2>5. JoiningUnwatched' /\ TornIsIdle'
    BY <2>1 DEF LifeInv, TypeOK, JoiningUnwatched, TornIsIdle
  <2>6. NotYet'
    BY <1>0, <2>1 DEF LifeInv, NotYet, Telling
  <2>7. CallsOwn'
    BY <1>3, <2>1, <2>3 DEF LifeInv, CallsOwn, Telling
  <2>8. EndIsOwn'
    BY <1>0, <2>1 DEF LifeInv, EndIsOwn
  <2> QED
    BY <1>1, <2>4, <2>5, <2>6, <2>7, <2>8 DEF LifeInv
<1>7. ASSUME NEW ev \in {"Hop", "Progress"} \cup Terminal, Reporting,
             pending' = [pending EXCEPT !["task"] = Recipients(ev) \X {ev}],
             UNCHANGED <<watch, joining, torn>>, attached' \subseteq attached,
             end' = IF ev \in Terminal THEN ev ELSE Nothing
      PROVE  LifeInv'
  <2>1. ~torn /\ end = Nothing /\ seen[Leader] # <<>>
    BY <1>7 DEF Reporting
  <2>2. \A u \in Threads, q \in Requests, f \in Events : <<q, f>> \in pending'[u] =>
           <<q, f>> \in pending[u] \/ (f = ev /\ (q \in attached \/ q = Leader))
    BY <1>3, <1>7 DEF LifeInv, TypeOK, Recipients
  <2>3. KnownAccepted'
    BY <1>7, <2>1, <2>2 DEF LifeInv, KnownAccepted, Telling
  <2>4. JoiningUnwatched' /\ TornIsIdle'
    BY <1>7, <2>1 DEF LifeInv, JoiningUnwatched, TornIsIdle
  <2>5. NotYet'
    BY <1>0, <1>7 DEF LifeInv, NotYet, Telling
  <2>6. CallsOwn'
    BY <1>3, <1>7, <2>1, <2>2 DEF LifeInv, CallsOwn, Telling
  <2>7. EndIsOwn'
    BY <1>0, <1>2, <1>7, <2>1 DEF LifeInv, EndIsOwn
  <2> QED
    BY <1>1, <2>3, <2>4, <2>5, <2>6, <2>7 DEF LifeInv
<1>8. ASSUME NEW ev \in {"Hop", "Progress"}, report(ev) PROVE LifeInv'
  <2>1. ev \notin Terminal
    BY DEF Terminal
  <2> QED
    BY <1>7, <1>8, <2>1 DEF report, Reporting
<1>9. ASSUME NEW ev \in Terminal, report_end(ev) PROVE LifeInv'
  BY <1>7, <1>9 DEF report_end
<1> QED
  BY <1>4, <1>5, <1>6, <1>8, <1>9

LEMMA StepAccept ==
    ASSUME LifeInv, NEW r \in Requests, accept(r), TypeOK'
    PROVE  LifeInv'
<1> USE LifecycleAssumption DEF LifecycleAssumption
<1>1. PICK u \in {<<>>, <<"SecurityUpgraded">>} : seen' = [seen EXCEPT ![r] = <<"Accepted">> \o u]
  BY DEF accept
<1>2. seen'[r] # <<>> /\ EndsSeen(r)' = {}
  BY <1>1, AcceptEnds DEF LifeInv, TypeOK
<1>3. \A q \in Requests : q # r => seen'[q] = seen[q] /\ EndsSeen(q)' = EndsSeen(q)
  BY <1>1, SameEnds DEF LifeInv, TypeOK
<1>4. seen[r] = <<>> /\ EndsSeen(r) = {} /\ watch[r] = "none" /\ work[r] = 0 /\ ~torn
  BY DEF accept, LifeInv, KnownAccepted, WorkBalanced, EndsSeen
<1>5. /\ work'[r] = 1 /\ \A q \in Requests : q # r => work'[q] = work[q]
      /\ joining' = r /\ UNCHANGED <<ended, watch, attached, end, pending, emitting, torn>>
  BY <1>4 DEF accept, LifeInv, TypeOK
<1>6. KnownAccepted'
  BY <1>2, <1>3, <1>5 DEF LifeInv, KnownAccepted, Telling
<1>7. JoiningUnwatched' /\ TornIsIdle' /\ CallsOwn'
  BY <1>4, <1>5 DEF LifeInv, JoiningUnwatched, TornIsIdle, CallsOwn, Telling
<1>8. NotYet' /\ OnItsWay' /\ Arrived'
  BY <1>2, <1>3, <1>5 DEF LifeInv, NotYet, OnItsWay, Arrived, Telling
<1>9. WorkBalanced'
  BY <1>2, <1>3, <1>5 DEF LifeInv, WorkBalanced
<1>10. EndIsOwn'
  BY <1>2, <1>3, <1>5 DEF LifeInv, EndIsOwn
<1> QED
  BY <1>6, <1>7, <1>8, <1>9, <1>10 DEF LifeInv

LEMMA StepDrop ==
    ASSUME LifeInv, NEW r \in Requests, drop(r), TypeOK'
    PROVE  LifeInv'
<1> USE LifecycleAssumption DEF LifecycleAssumption
<1>1. /\ torn /\ seen[r] # <<>> /\ watch[r] # "gone"
      /\ watch' = [watch EXCEPT ![r] = "gone"]
      /\ UNCHANGED <<ended, joining, attached, end, pending, emitting, torn>>
      /\ \A q \in Requests : q # r => seen'[q] = seen[q] /\ work'[q] = work[q]
      /\ watch'[r] = "gone"
  BY DEF drop, LifeInv, TypeOK
<1>2. \A q \in Requests : q # r => EndsSeen(q)' = EndsSeen(q) /\ watch'[q] = watch[q]
  BY <1>1, SameEnds DEF LifeInv, TypeOK
<1>3. \A t \in Threads : pending[t] = {} /\ emitting[t] = <<>>
  BY <1>1 DEF LifeInv, TornIsIdle, Idle
<1>4. \A t \in Threads, q \in Requests, ev \in Events :
         ~Telling(t, q, ev) /\ ~Telling(t, q, ev)' /\ <<q, ev>> \notin pending[t]
  BY <1>1, <1>3 DEF Telling
<1>5. /\ seen'[r] # <<>>
      /\ \A m, n \in EndsSeen(r)' : m = n
      /\ work'[r] = IF EndsSeen(r)' = {} THEN 1 ELSE 0
  <2>1. CASE ended[r]
    <3>1. seen'[r] = seen[r] /\ work'[r] = work[r]
      BY <2>1 DEF drop, LifeInv, TypeOK
    <3>2. EndsSeen(r)' = EndsSeen(r)
      BY <3>1, SameEnds
    <3> QED
      BY <1>1, <3>1, <3>2 DEF LifeInv, Arrived, WorkBalanced
  <2>2. CASE ~ended[r]
    <3>1. seen'[r] = Append(seen[r], "Cancelled") /\ work'[r] = work[r] - 1
      BY <2>2 DEF drop, LifeInv, TypeOK
    <3>2. EndsSeen(r) = {}
      BY <1>1, <2>2 DEF LifeInv, NotYet
    <3>3. "Cancelled" \in Terminal /\ "Cancelled" \in Events
      BY DEF Terminal, Events
    <3>4. EndsSeen(r)' = {Len(seen[r]) + 1} /\ seen'[r] # <<>>
      BY <3>1, <3>2, <3>3, AppendEnds DEF LifeInv
    <3>5. work[r] = 1
      BY <1>1, <3>2 DEF LifeInv, WorkBalanced
    <3>6. work'[r] = 0
      BY <3>1, <3>5
    <3>7. EndsSeen(r)' # {} /\ \A m, n \in EndsSeen(r)' : m = n
      BY <3>4, Zenon
    <3> QED
      BY <3>4, <3>6, <3>7, Zenon
  <2> QED
    BY <2>1, <2>2
<1>6. KnownAccepted'
  BY <1>1, <1>2, <1>4, <1>5 DEF LifeInv, KnownAccepted
<1>7. JoiningUnwatched' /\ TornIsIdle'
  BY <1>1 DEF LifeInv, JoiningUnwatched, TornIsIdle, Idle
<1>13. Terminal \subseteq Events
  BY DEF Events
<1>8. NotYet'
  BY <1>1, <1>2, <1>4, <1>13 DEF LifeInv, NotYet
<1>9. OnItsWay' /\ CallsOwn'
  BY <1>1, <1>4, <1>13 DEF OnItsWay, CallsOwn
<1>10. Arrived'
  BY <1>2, <1>5 DEF LifeInv, Arrived
<1>11. WorkBalanced'
  BY <1>1, <1>2, <1>5 DEF LifeInv, WorkBalanced
<1>12. EndIsOwn'
  BY <1>1 DEF EndIsOwn
<1> QED
  BY <1>6, <1>7, <1>8, <1>9, <1>10, <1>11, <1>12 DEF LifeInv

-----------------------------------------------------------------------------

LEMMA Invariant == Spec => []LifeInv
<1>1. LifeInv /\ [Next]_vars => LifeInv'
  <2> SUFFICES ASSUME LifeInv, [Next]_vars PROVE LifeInv'
    OBVIOUS
  <2>1. TypeOK'
    BY StepType DEF LifeInv
  <2>2. ASSUME NEW t \in Threads, on_event(t) PROVE LifeInv'
    BY <2>1, <2>2, StepDecide
  <2>3. ASSUME NEW t \in Threads, emit(t) PROVE LifeInv'
    BY <2>1, <2>3, StepEmit
  <2>4. ASSUME NEW r \in Requests, accept(r) PROVE LifeInv'
    BY <2>1, <2>4, StepAccept
  <2>5. ASSUME NEW r \in Requests, drop(r) PROVE LifeInv'
    BY <2>1, <2>5, StepDrop
  <2>6. ASSUME NEW r \in Requests, watch_cancel(r) \/ watch_ended(r) PROVE LifeInv'
    BY <2>1, <2>6, StepQuiet DEF watch_cancel, watch_ended
  <2>7. CASE Attach
    BY <2>1, <2>7, StepQuiet DEF Attach
  <2>8. CASE Teardown
    BY <2>1, <2>8, StepQuiet DEF Teardown
  <2>9. ASSUME NEW ev \in {"Hop", "Progress"}, report(ev) PROVE LifeInv'
    <3>1. UNCHANGED <<seen, ended, work, emitting>>
      BY <2>9 DEF report
    <3> QED
      BY <2>1, <2>9, <3>1, StepQuiet
  <2>10. ASSUME NEW ev \in Terminal, report_end(ev) PROVE LifeInv'
    <3>1. UNCHANGED <<seen, ended, work, emitting>>
      BY <2>10 DEF report_end
    <3> QED
      BY <2>1, <2>10, <3>1, StepQuiet
  <2>11. CASE UNCHANGED vars
    BY <2>1, <2>11 DEF vars, LifeInv, KnownAccepted, JoiningUnwatched, TornIsIdle, Idle, NotYet,
       OnItsWay, Arrived, WorkBalanced, CallsOwn, EndIsOwn, EndsSeen, Telling
  <2> QED
    BY <2>2, <2>3, <2>4, <2>5, <2>6, <2>7, <2>8, <2>9, <2>10, <2>11 DEF Next
<1> QED
  BY <1>1, InitInv, PTL DEF Spec

\* The events, the calls of on_event and the watchers stay what they are declared to be
\* (net/lifecycle.rs).
THEOREM TypeCorrect == Spec => []TypeOK
<1>1. LifeInv => TypeOK
  BY DEF LifeInv
<1> QED
  BY <1>1, Invariant, PTL

\* However the task of a fetch, the run loop, the watchers of its requests and Drop race
\* to report an end, each observer sees at most one, its own, and on_ref_active and
\* on_ref_done balance (Lifecycle::on_event).
THEOREM EndsAreOwn == Spec => []OneOwnEnd
<1>1. ASSUME LifeInv PROVE OneOwnEnd
  <2>1. ASSUME NEW r \in Requests PROVE Cardinality(EndsSeen(r)) <= 1
    <3>1. CASE EndsSeen(r) = {}
      BY <3>1, FS_EmptySet
    <3>2. CASE EndsSeen(r) # {}
      <4>1. PICK n : n \in EndsSeen(r)
        BY <3>2
      <4>2. EndsSeen(r) = {n}
        BY <1>1, <4>1 DEF LifeInv, Arrived
      <4>3. Cardinality({n}) = 1
        BY FS_Singleton
      <4> QED
        BY <4>2, <4>3
    <3> QED
      BY <3>1, <3>2
  <2>2. OneEnd
    BY <1>1, <2>1 DEF LifeInv, WorkBalanced, OneEnd
  <2> QED
    BY <1>1, <2>2 DEF LifeInv, OneOwnEnd
<1> QED
  BY <1>1, Invariant, PTL

-----------------------------------------------------------------------------
(* Reports.  Lists of events first: an observer sees one after the other,  *)
(* so a list that is put together is seen part by part.  Then each event   *)
(* in its place.  The invariant holds the panel against the chain, which   *)
(* it shows except for what a policy has changed and not yet told.         *)

Less == {p \in Nat \X Nat : p[1] < p[2]}

\* A set of numbers that begins at 0 and has no last one has them all.
LEMMA Induction == ASSUME NEW T, 0 \in T, \A n \in T : n + 1 \in T PROVE Nat \subseteq T
<1>1. SUFFICES ASSUME Nat \ T # {} PROVE FALSE
  OBVIOUS
<1>2. IsWellFoundedOn(Less, Nat)
  BY NatLessThanWellFounded DEF OpToRel, Less
<1>3. PICK x \in Nat \ T : \A y \in Nat \ T : ~(<<y, x>> \in Less)
  BY <1>1, <1>2, WFMin
<1>4. x # 0 /\ x - 1 \in Nat /\ (x - 1) + 1 = x
  OBVIOUS
<1>5. <<x - 1, x>> \in Less
  BY <1>4 DEF Less
<1>6. x - 1 \in T
  BY <1>3, <1>4, <1>5
<1>7. (x - 1) + 1 \in T
  BY <1>6
<1> QED
  BY <1>4, <1>7

\* What the observer has made of the events up to each of them.
Steps(p, es, f) == f = [n \in 0..Len(es) |-> IF n = 0 THEN p ELSE Saw(f[n - 1], es[n])]

LEMMA SeenIs == ASSUME NEW p, NEW es PROVE Seen(p, es) = (CHOOSE f : Steps(p, es, f))[Len(es)]
  BY DEF Seen, Steps

\* The events are a sequence.
IsEvents(es) == \E X : es \in Seq(X)

LEMMA StepsFound ==
    ASSUME NEW p, NEW es, Len(es) \in Nat
    PROVE  \E f : Steps(p, es, f)
<1> DEFINE Upto(k) == \E f : f = [n \in 0..k |-> IF n = 0 THEN p ELSE Saw(f[n - 1], es[n])]
           T == {k \in Nat : Upto(k)}
<1>1. 0 \in T
  <2>1. PICK f : f = [n \in 0..0 |-> p]
    OBVIOUS
  <2>2. f = [n \in 0..0 |-> IF n = 0 THEN p ELSE Saw(f[n - 1], es[n])]
    BY <2>1
  <2> QED BY <2>2
<1>2. ASSUME NEW k \in T
      PROVE  k + 1 \in T
  <2>1. k \in Nat
    OBVIOUS
  <2>2. PICK f : f = [n \in 0..k |-> IF n = 0 THEN p ELSE Saw(f[n - 1], es[n])]
    OBVIOUS
  <2>3. PICK z : z = Saw(f[k], es[k + 1])
    OBVIOUS
  <2>4. PICK g : g = [n \in 0..(k + 1) |-> IF n = k + 1 THEN z ELSE f[n]]
    OBVIOUS
  <2>5. \A n \in 0..(k + 1) : g[n] = IF n = 0 THEN p ELSE Saw(g[n - 1], es[n])
    <3>1. SUFFICES ASSUME NEW n \in 0..(k + 1)
                   PROVE  g[n] = IF n = 0 THEN p ELSE Saw(g[n - 1], es[n])
      OBVIOUS
    <3>2. CASE n = k + 1
      BY <2>1, <2>3, <2>4, <3>2
    <3>3. CASE n # k + 1
      <4>1. n \in 0..k /\ (n # 0 => n - 1 \in 0..k /\ g[n - 1] = f[n - 1]) /\ g[n] = f[n]
        BY <2>1, <2>4, <3>3
      <4> QED BY <2>2, <4>1
    <3> QED BY <3>2, <3>3
  <2>6. g = [n \in 0..(k + 1) |-> IF n = 0 THEN p ELSE Saw(g[n - 1], es[n])]
    BY <2>4, <2>5
  <2>7. Upto(k + 1)
    BY <2>6
  <2>8. k + 1 \in Nat
    BY <2>1
  <2> HIDE DEF Upto
  <2> QED BY <2>7, <2>8
<1>3. Len(es) \in T
  <2> HIDE DEF T
  <2> QED BY <1>1, <1>2, Induction
<1> QED BY <1>3 DEF Steps

\* There is one way through the events.
LEMMA StepsUnique ==
    ASSUME NEW p, NEW es, Len(es) \in Nat, NEW f, NEW g, Steps(p, es, f), Steps(p, es, g)
    PROVE  f[Len(es)] = g[Len(es)]
<1> DEFINE T == {k \in Nat : k <= Len(es) => f[k] = g[k]}
<1>1. 0 \in T
  BY DEF Steps
<1>2. ASSUME NEW k \in T
      PROVE  k + 1 \in T
  <2>1. CASE k + 1 <= Len(es)
    <3>1. k \in 0..Len(es) /\ k + 1 \in 0..Len(es) /\ k + 1 # 0 /\ (k + 1) - 1 = k /\ f[k] = g[k]
      BY <2>1
    <3>2. f[k + 1] = Saw(f[k], es[k + 1]) /\ g[k + 1] = Saw(g[k], es[k + 1])
      BY <3>1 DEF Steps
    <3> QED BY <3>1, <3>2
  <2>2. CASE ~(k + 1 <= Len(es))
    BY <2>2
  <2> QED BY <2>1, <2>2
<1>3. Len(es) \in T
  <2> HIDE DEF T
  <2> QED BY <1>1, <1>2, Induction
<1> QED BY <1>3

LEMMA SeenSteps ==
    ASSUME NEW p, NEW es, Len(es) \in Nat, NEW f, Steps(p, es, f)
    PROVE  Seen(p, es) = f[Len(es)]
<1>1. PICK g : g = CHOOSE h : Steps(p, es, h)
  OBVIOUS
<1>2. Steps(p, es, g)
  BY <1>1
<1> QED BY <1>1, <1>2, SeenIs, StepsUnique

LEMMA SeenNone == ASSUME NEW p PROVE Seen(p, <<>>) = p
<1>1. PICK f : f = [n \in 0..0 |-> p]
  OBVIOUS
<1>2. Len(<<>>) = 0 /\ f[0] = p
  BY <1>1
<1>3. Steps(p, <<>>, f)
  BY <1>1, <1>2 DEF Steps
<1> QED BY <1>2, <1>3, SeenSteps

LEMMA SeenOne == ASSUME NEW p, NEW e PROVE Seen(p, <<e>>) = Saw(p, e)
<1>0. PICK z : z = Saw(p, e)
  OBVIOUS
<1>1. PICK f : f = [n \in 0..1 |-> IF n = 0 THEN p ELSE z]
  OBVIOUS
<1>2. Len(<<e>>) = 1 /\ <<e>>[1] = e /\ f[0] = p /\ f[1] = z
  BY <1>1
<1>3. Steps(p, <<e>>, f)
  <2>1. \A n \in 0..1 : f[n] = IF n = 0 THEN p ELSE Saw(f[n - 1], <<e>>[n])
    BY <1>0, <1>2
  <2> QED BY <1>1, <1>2, <2>1 DEF Steps
<1> QED BY <1>0, <1>2, <1>3, SeenSteps

LEMMA Lists ==
    /\ IsEvents(<<>>)
    /\ \A e : IsEvents(<<e>>)
    /\ \A e, d : IsEvents(<<e, d>>)
    /\ \A a, b : IsEvents(a) /\ IsEvents(b) => IsEvents(a \o b) /\ Len(a) \in Nat /\ Len(b) \in Nat
<1>1. IsEvents(<<>>)
  BY DEF IsEvents
<1>2. ASSUME NEW e PROVE IsEvents(<<e>>)
  <2>1. <<e>> \in Seq({e})
    OBVIOUS
  <2> QED BY <2>1 DEF IsEvents
<1>3. ASSUME NEW e, NEW d PROVE IsEvents(<<e, d>>)
  <2>1. <<e, d>> \in Seq({e, d})
    OBVIOUS
  <2> QED BY <2>1 DEF IsEvents
<1>4. ASSUME NEW a, NEW b, IsEvents(a), IsEvents(b) PROVE IsEvents(a \o b) /\ Len(a) \in Nat /\ Len(b) \in Nat
  <2>1. PICK X : a \in Seq(X)
    BY <1>4 DEF IsEvents
  <2>2. PICK Y : b \in Seq(Y)
    BY <1>4 DEF IsEvents
  <2>3. a \in Seq(X \cup Y) /\ b \in Seq(X \cup Y)
    BY <2>1, <2>2
  <2>4. a \o b \in Seq(X \cup Y)
    BY <2>3
  <2> QED BY <2>3, <2>4 DEF IsEvents
<1> QED BY <1>1, <1>2, <1>3, <1>4

LEMMA SeenMore ==
    ASSUME NEW p, NEW a, NEW b, IsEvents(a), IsEvents(b)
    PROVE  Seen(p, a \o b) = Seen(Seen(p, a), b)
<1>1. PICK X : a \in Seq(X) /\ b \in Seq(X)
  <2>1. PICK X : a \in Seq(X)
    BY DEF IsEvents
  <2>2. PICK Y : b \in Seq(Y)
    BY DEF IsEvents
  <2> QED BY <2>1, <2>2, a \in Seq(X \cup Y), b \in Seq(X \cup Y)
<1>2. PICK c, m, n : c = a \o b /\ m = Len(a) /\ n = Len(b)
  OBVIOUS
<1>3. /\ m \in Nat /\ n \in Nat /\ Len(c) = m + n
      /\ \A i \in 1..m : c[i] = a[i]
      /\ \A i \in 1..n : c[m + i] = b[i]
  BY <1>1, <1>2
<1>4. PICK f : Steps(p, a, f)
  BY <1>2, <1>3, StepsFound
<1>5. PICK q : q = f[m] /\ q = Seen(p, a)
  BY <1>2, <1>3, <1>4, SeenSteps
<1>6. PICK g : Steps(q, b, g)
  BY <1>2, <1>3, StepsFound
<1>7. PICK h : h = [i \in 0..(m + n) |-> IF i <= m THEN f[i] ELSE g[i - m]]
  OBVIOUS
<1>8. g[0] = q /\ h[m] = q
  <2>1. g[0] = q
    BY <1>2, <1>3, <1>6 DEF Steps
  <2>2. m \in 0..(m + n) /\ m <= m
    BY <1>3
  <2> QED BY <1>5, <1>7, <2>1, <2>2
<1>9. ASSUME NEW i \in 0..(m + n)
      PROVE  h[i] = IF i = 0 THEN p ELSE Saw(h[i - 1], c[i])
  <2>1. CASE i <= m
    <3>1. i \in 0..m /\ h[i] = f[i] /\ (i # 0 => i - 1 \in 0..(m + n) /\ i - 1 <= m /\ h[i - 1] = f[i - 1] /\ c[i] = a[i])
      BY <1>3, <1>7, <2>1
    <3>2. f[i] = IF i = 0 THEN p ELSE Saw(f[i - 1], a[i])
      BY <1>2, <1>4, <3>1 DEF Steps
    <3> QED BY <3>1, <3>2
  <2>2. CASE ~(i <= m)
    <3>1. PICK j \in 1..n : i = m + j
      <4>1. i - m \in 1..n /\ i = m + (i - m)
        BY <1>3, <2>2
      <4> QED BY <4>1
    <3>2. h[i] = g[j] /\ c[i] = b[j] /\ i # 0 /\ j # 0 /\ j \in 0..n
      BY <1>3, <1>7, <2>2, <3>1
    <3>3. h[i - 1] = g[j - 1]
      <4>1. CASE j = 1
        <5>1. i - 1 = m /\ j - 1 = 0
          BY <1>3, <3>1, <4>1
        <5> QED BY <1>8, <5>1
      <4>2. CASE j # 1
        <5>1. i - 1 \in 0..(m + n) /\ ~(i - 1 <= m) /\ (i - 1) - m = j - 1
          BY <1>3, <3>1, <4>2
        <5> QED BY <1>7, <5>1
      <4> QED BY <4>1, <4>2
    <3>4. g[j] = Saw(g[j - 1], b[j])
      BY <1>2, <1>6, <3>2 DEF Steps
    <3> QED BY <3>2, <3>3, <3>4
  <2> QED BY <2>1, <2>2
<1>10. Steps(p, c, h)
  BY <1>3, <1>7, <1>9 DEF Steps
<1>11. h[m + n] = g[n]
  <2>1. CASE n = 0
    <3>1. m + n = m /\ g[n] = g[0]
      BY <1>3, <2>1
    <3> QED BY <1>8, <3>1
  <2>2. CASE n # 0
    BY <1>3, <1>7, <2>2
  <2> QED BY <2>1, <2>2
<1>12. Seen(p, c) = h[m + n]
  <2>1. Len(c) \in Nat
    BY <1>3
  <2> QED BY <1>3, <1>10, <2>1, SeenSteps
<1>13. Seen(q, b) = g[n]
  BY <1>2, <1>3, <1>6, SeenSteps
<1> QED BY <1>2, <1>5, <1>11, <1>12, <1>13

LEMMA SeenTwo ==
    ASSUME NEW p, NEW a, NEW e, IsEvents(a)
    PROVE  Seen(p, a \o <<e>>) = Saw(Seen(p, a), e)
  BY Lists, SeenMore, SeenOne

LEMMA SeenWhen ==
    ASSUME NEW p, NEW e, NEW condition
    PROVE  /\ IsEvents(When(condition, e))
           /\ Seen(p, When(condition, e)) = IF condition THEN Saw(p, e) ELSE p
  BY Lists, SeenOne, SeenNone DEF When

LEMMA SeenPair ==
    ASSUME NEW p, NEW e, NEW d
    PROVE  Seen(p, <<e, d>>) = Saw(Saw(p, e), d)
<1>0. PICK y, z : y = Saw(p, e) /\ z = Saw(y, d)
  OBVIOUS
<1>1. PICK f : f = [n \in 0..2 |-> IF n = 0 THEN p ELSE IF n = 1 THEN y ELSE z]
  OBVIOUS
<1>2. Len(<<e, d>>) = 2 /\ <<e, d>>[1] = e /\ <<e, d>>[2] = d /\ f[0] = p /\ f[1] = y /\ f[2] = z
  BY <1>1
<1>3. Steps(p, <<e, d>>, f)
  <2>1. ASSUME NEW n \in 0..2
        PROVE  f[n] = IF n = 0 THEN p ELSE Saw(f[n - 1], <<e, d>>[n])
    <3>1. n = 0 \/ n = 1 \/ n = 2
      OBVIOUS
    <3> QED BY <1>0, <1>2, <3>1
  <2> QED BY <1>1, <1>2, <2>1 DEF Steps
<1> QED BY <1>0, <1>2, <1>3, SeenSteps

IsUrl(u) == u = [scheme |-> u.scheme, host |-> u.host, site |-> u.site]

IsChain(c) ==
    c = [x \in {"url", "method", "hand", "secret", "jar", "before_hsts", "referrer", "policy", "origin_tainted",
                "taint_reported", "tainting", "origin", "attach", "redirects"} |-> c[x]]

\* What the panel says of a chain at every stage,
Shows(p, c) ==
    /\ ~p.wrong /\ ~p.userinfo
    /\ IsChain(c) /\ IsUrl(c.url)
    /\ p.url = c.url /\ p.method = c.method /\ p.hand = c.hand
    /\ p.tainted <=> c.taint_reported
    /\ c.taint_reported => c.origin_tainted

\* before its policies were applied to the hop,
ShowsEarly(p) == p.referer = req.referrer /\ ~p.null

\* since then,
ShowsLate(p, c) ==
    /\ req.referrer # None => p.referer = c.referrer
    /\ p.null => c.origin = "null"
    /\ c.origin = "null" => p.null \/ p.tainted
    /\ c.origin = "origin" => ~p.tainted

\* before it was sent, and since then.
ShowsUnsent(p, c) == ~p.withheld /\ ~c.jar
ShowsSent(p, c) ==
    c.jar <=> /\ ~p.withheld /\ req.credentials # "omit"
              /\ "cookie" \notin p.hand /\ c.url.host \in policy.cookies.cookies_for

Over(p) == ~p.wrong /\ p.phase = "over"

ReportInv ==
    /\ req.credentials \in RequestCredentials
    /\ \/ stage = "done" /\ Over(panel)
       \/ /\ Shows(panel, chain)
          /\ \/ stage \in {"hop", "regime"} /\ panel.phase = "asked"
                /\ ShowsEarly(panel) /\ ShowsUnsent(panel, chain)
             \/ stage = "preflight" /\ panel.phase = "preflight"
                /\ ShowsLate(panel, chain) /\ ShowsUnsent(panel, chain)
             \/ stage = "plan" /\ panel.phase = "asked"
                /\ ShowsLate(panel, chain) /\ ShowsUnsent(panel, chain)
             \/ stage = "sent" /\ panel.phase = "sent" /\ wire = HopRequest(chain)
                /\ ShowsLate(panel, chain) /\ ShowsSent(panel, chain)

\* The panel after an event says what it said before, but for some of its fields.
Keeps(q, p, but) ==
    /\ "url" \in but \/ q.url = p.url
    /\ "userinfo" \in but \/ (q.userinfo <=> p.userinfo)
    /\ "method" \in but \/ q.method = p.method
    /\ "hand" \in but \/ q.hand = p.hand
    /\ "referer" \in but \/ q.referer = p.referer
    /\ "tainted" \in but \/ (q.tainted <=> p.tainted)
    /\ "null" \in but \/ (q.null <=> p.null)
    /\ "withheld" \in but \/ (q.withheld <=> p.withheld)
    /\ "phase" \in but \/ q.phase = p.phase
    /\ q.wrong <=> p.wrong

LEMMA Saws ==
    ASSUME NEW p, NEW ev, NEW u, NEW x, NEW q, q = Saw(p, Ev(ev, u, x))
    PROVE  /\ q.url = IF ev = "Redirected" THEN x.to ELSE IF ev = "SecurityUpgraded" THEN x ELSE p.url
           /\ q.userinfo <=> IF ev = "Redirected" THEN x.userinfo ELSE p.userinfo /\ ev # "UrlCredentialsRemoved"
           /\ q.method = IF ev = "MethodDowngraded" THEN x ELSE p.method
           /\ q.hand = p.hand \ Loses(Ev(ev, u, x))
           /\ Loses(Ev(ev, u, x)) = {} => q.hand = p.hand
           /\ q.referer = IF ev = "Redirected" THEN req.referrer ELSE IF ev = "ReferrerReduced" THEN x ELSE p.referer
           /\ q.tainted <=> p.tainted \/ ev = "OriginTainted"
           /\ q.null <=> ev # "Redirected" /\ (p.null \/ ev \in {"OriginTainted", "OriginHidden"})
           /\ q.withheld <=> ev # "Redirected" /\ (p.withheld \/ ev = "CredentialsWithheld")
           /\ q.phase = Leads(p, Ev(ev, u, x))
           /\ q.wrong <=> p.wrong \/ ~Expected(p, Ev(ev, u, x))
<1>1. PICK e : e = Ev(ev, u, x)
  OBVIOUS
<1>2. e.ev = ev /\ e.x = x
  BY <1>1 DEF Ev
<1>3. PICK hand, phase, userinfo, tainted, null, withheld, wrong :
         /\ hand = p.hand \ Loses(e) /\ phase = Leads(p, e)
         /\ userinfo = IF ev = "Redirected" THEN x.userinfo ELSE p.userinfo /\ ev # "UrlCredentialsRemoved"
         /\ tainted = (p.tainted \/ ev = "OriginTainted")
         /\ null = (ev # "Redirected" /\ (p.null \/ ev \in {"OriginTainted", "OriginHidden"}))
         /\ withheld = (ev # "Redirected" /\ (p.withheld \/ ev = "CredentialsWithheld"))
         /\ wrong = (p.wrong \/ ~Expected(p, e))
  OBVIOUS
<1>4. q = [url      |-> IF ev = "Redirected" THEN x.to ELSE IF ev = "SecurityUpgraded" THEN x ELSE p.url,
           userinfo |-> userinfo,
           method   |-> IF ev = "MethodDowngraded" THEN x ELSE p.method,
           hand     |-> hand,
           referer  |-> IF ev = "Redirected" THEN req.referrer
                        ELSE IF ev = "ReferrerReduced" THEN x ELSE p.referer,
           tainted  |-> tainted,
           null     |-> null,
           withheld |-> withheld,
           phase    |-> phase,
           wrong    |-> wrong]
  BY <1>1, <1>2, <1>3, Zenon DEF Saw
<1>5. /\ q.userinfo = userinfo /\ q.tainted = tainted /\ q.null = null /\ q.withheld = withheld /\ q.wrong = wrong
      /\ q.hand = hand /\ q.phase = phase
  BY <1>4
<1>6. /\ q.url = IF ev = "Redirected" THEN x.to ELSE IF ev = "SecurityUpgraded" THEN x ELSE p.url
      /\ q.method = IF ev = "MethodDowngraded" THEN x ELSE p.method
      /\ q.referer = IF ev = "Redirected" THEN req.referrer ELSE IF ev = "ReferrerReduced" THEN x ELSE p.referer
  BY <1>4
<1>7. q.hand = p.hand \ Loses(e) /\ q.phase = Leads(p, e)
  BY <1>3, <1>5, Zenon
<1>13. Loses(e) = {} => q.hand = p.hand
  <2>1. p.hand \ {} = p.hand
    OBVIOUS
  <2> QED BY <1>7, <2>1, Zenon
<1>8. q.userinfo <=> IF ev = "Redirected" THEN x.userinfo ELSE p.userinfo /\ ev # "UrlCredentialsRemoved"
  BY <1>3, <1>5, Zenon
<1>9. q.tainted <=> p.tainted \/ ev = "OriginTainted"
  BY <1>3, <1>5, Zenon
<1>10. q.null <=> ev # "Redirected" /\ (p.null \/ ev \in {"OriginTainted", "OriginHidden"})
  BY <1>3, <1>5, Zenon
<1>11. q.withheld <=> ev # "Redirected" /\ (p.withheld \/ ev = "CredentialsWithheld")
  BY <1>3, <1>5, Zenon
<1>12. q.wrong <=> p.wrong \/ ~Expected(p, e)
  BY <1>3, <1>5, Zenon
<1> QED BY <1>1, <1>6, <1>7, <1>8, <1>9, <1>10, <1>11, <1>12, <1>13, Zenon

LEMMA Expects ==
    ASSUME NEW p, NEW ev, NEW u, NEW x
    PROVE  /\ Expected(p, Ev(ev, u, x)) <=>
              \/ /\ u = p.url
                 /\ \/ ev \in RequestChange \cup {"SecurityUpgraded"} /\ p.phase = "asked"
                          /\ Changes(p, Ev(ev, u, x))
                    \/ ev \in {"Started", "CorsPreflight"} \cup Answering /\ p.phase = "asked"
                    \/ ev = "CorsPreflightDone" /\ p.phase = "preflight"
                    \/ ev = "RequestSent" /\ p.phase \in {"asked", "again"}
                    \/ ev = "ResponseHeaders" /\ p.phase = "sent"
                    \/ ev \in {"AuthRequired", "Redirected", "Returned"} \cup Learning /\ p.phase = "answered"
              \/ ev = "Blocked" /\ p.phase \notin {"blocked", "over"} /\ x \in BlockReason
              \/ ev \in {"Failed", "Cancelled", "on_cookies", "Again"} /\ p.phase # "over"
           /\ Changes(p, Ev(ev, u, x)) <=>
              \/ ev = "UrlCredentialsRemoved" /\ p.userinfo
              \/ ev = "ReferrerReduced" /\ x # p.referer
              \/ ev \in {"OriginTainted", "OriginHidden"} /\ ~p.tainted
              \/ ev = "CredentialsWithheld" /\ ~p.withheld /\ req.credentials = "same-origin"
              \/ ev \in {"SensitiveHeadersStripped", "HeadersRemoved"} /\ x # {} /\ x \subseteq p.hand
              \/ ev = "MethodDowngraded" /\ x # p.method
              \/ ev = "SecurityUpgraded" /\ x = Upgrade(p.url) /\ x # p.url
<1>1. PICK e : e = Ev(ev, u, x)
  OBVIOUS
<1>2. e.ev = ev /\ e.x = x /\ e.url = u
  BY <1>1 DEF Ev
<1>3. Expected(p, e) <=>
              \/ /\ u = p.url
                 /\ \/ ev \in RequestChange \cup {"SecurityUpgraded"} /\ p.phase = "asked" /\ Changes(p, e)
                    \/ ev \in {"Started", "CorsPreflight"} \cup Answering /\ p.phase = "asked"
                    \/ ev = "CorsPreflightDone" /\ p.phase = "preflight"
                    \/ ev = "RequestSent" /\ p.phase \in {"asked", "again"}
                    \/ ev = "ResponseHeaders" /\ p.phase = "sent"
                    \/ ev \in {"AuthRequired", "Redirected", "Returned"} \cup Learning /\ p.phase = "answered"
              \/ ev = "Blocked" /\ p.phase \notin {"blocked", "over"} /\ x \in BlockReason
              \/ ev \in {"Failed", "Cancelled", "on_cookies", "Again"} /\ p.phase # "over"
  BY <1>2 DEF Expected
<1>4. Changes(p, e) <=>
              \/ ev = "UrlCredentialsRemoved" /\ p.userinfo
              \/ ev = "ReferrerReduced" /\ x # p.referer
              \/ ev \in {"OriginTainted", "OriginHidden"} /\ ~p.tainted
              \/ ev = "CredentialsWithheld" /\ ~p.withheld /\ req.credentials = "same-origin"
              \/ ev \in {"SensitiveHeadersStripped", "HeadersRemoved"} /\ x # {} /\ x \subseteq p.hand
              \/ ev = "MethodDowngraded" /\ x # p.method
              \/ ev = "SecurityUpgraded" /\ x = Upgrade(p.url) /\ x # p.url
  BY <1>2 DEF Changes
<1> QED BY <1>1, <1>3, <1>4, Zenon

\* The headers an event takes away, and where it leads.
LEMMA LosesNothing ==
    ASSUME NEW ev, NEW u, NEW x,
           ev \notin {"SensitiveHeadersStripped", "HeadersRemoved", "MethodDowngraded", "on_cookies"}
    PROVE  Loses(Ev(ev, u, x)) = {}
<1>1. PICK e : e = Ev(ev, u, x)
  OBVIOUS
<1>2. e.ev = ev
  BY <1>1 DEF Ev
<1>3. Loses(e) = {}
  BY <1>2 DEF Loses
<1> QED BY <1>1, <1>3

LEMMA LosesHeaders ==
    ASSUME NEW ev, NEW u, NEW x
    PROVE  /\ ev \in {"SensitiveHeadersStripped", "HeadersRemoved"} => Loses(Ev(ev, u, x)) = x
           /\ ev = "MethodDowngraded" => Loses(Ev(ev, u, x)) = BodyHeaders
           /\ ev = "on_cookies" => Loses(Ev(ev, u, x)) = {"cookie"}
<1>1. PICK e : e = Ev(ev, u, x)
  OBVIOUS
<1>2. e.ev = ev /\ e.x = x
  BY <1>1 DEF Ev
<1>3. /\ ev \in {"SensitiveHeadersStripped", "HeadersRemoved"} => Loses(e) = x
      /\ ev = "MethodDowngraded" => Loses(e) = BodyHeaders
      /\ ev = "on_cookies" => Loses(e) = {"cookie"}
  BY <1>2 DEF Loses
<1> QED BY <1>1, <1>3

LEMMA LeadsTo ==
    ASSUME NEW p, NEW ev, NEW u, NEW x
    PROVE  /\ ev \in {"Started", "SecurityUpgraded", "on_cookies"} \cup Learning \cup RequestChange =>
                 Leads(p, Ev(ev, u, x)) = p.phase
           /\ ev \in {"Redirected", "CorsPreflightDone"} => Leads(p, Ev(ev, u, x)) = "asked"
           /\ ev = "CorsPreflight" => Leads(p, Ev(ev, u, x)) = "preflight"
           /\ ev = "RequestSent" => Leads(p, Ev(ev, u, x)) = "sent"
           /\ ev \in {"ResponseHeaders"} \cup Answering => Leads(p, Ev(ev, u, x)) = "answered"
           /\ ev = "AuthRequired" => Leads(p, Ev(ev, u, x)) = IF x THEN "again" ELSE "answered"
           /\ ev = "Again" => Leads(p, Ev(ev, u, x)) = "again"
           /\ ev = "Blocked" => Leads(p, Ev(ev, u, x)) = "blocked"
           /\ ev \in {"Failed", "Cancelled", "Returned"} => Leads(p, Ev(ev, u, x)) = "over"
<1>1. PICK e : e = Ev(ev, u, x)
  OBVIOUS
<1>2. e.ev = ev /\ e.x = x
  BY <1>1 DEF Ev
<1>3. ev \in {"Started", "SecurityUpgraded", "on_cookies"} \cup Learning \cup RequestChange => Leads(p, e) = p.phase
  BY <1>2 DEF Leads, Learning, Answering, RequestChange
<1>4. ev \in {"Redirected", "CorsPreflightDone"} => Leads(p, e) = "asked"
  BY <1>2 DEF Leads, Learning, Answering, RequestChange
<1>5. ev = "CorsPreflight" => Leads(p, e) = "preflight"
  BY <1>2 DEF Leads, Learning, Answering, RequestChange
<1>6. ev = "RequestSent" => Leads(p, e) = "sent"
  BY <1>2 DEF Leads, Learning, Answering, RequestChange
<1>7. ev \in {"ResponseHeaders"} \cup Answering => Leads(p, e) = "answered"
  BY <1>2 DEF Leads, Learning, Answering, RequestChange
<1>8. ev = "AuthRequired" => Leads(p, e) = IF x THEN "again" ELSE "answered"
  BY <1>2 DEF Leads, Learning, Answering, RequestChange
<1>9. ev = "Again" => Leads(p, e) = "again"
  BY <1>2 DEF Leads, Learning, Answering, RequestChange
<1>10. ev = "Blocked" => Leads(p, e) = "blocked"
  BY <1>2 DEF Leads, Learning, Answering, RequestChange
<1>11. ev \in {"Failed", "Cancelled", "Returned"} => Leads(p, e) = "over"
  BY <1>2 DEF Leads, Learning, Answering, RequestChange
<1> QED BY <1>1, <1>3, <1>4, <1>5, <1>6, <1>7, <1>8, <1>9, <1>10, <1>11, Zenon

\* The changes to a hop, each in its place.
LEMMA SawUpgrade ==
    ASSUME NEW p, NEW q, NEW u, NEW x, q = Saw(p, Ev("SecurityUpgraded", u, x)),
           ~p.wrong, p.phase = "asked", u = p.url, x = Upgrade(u), x # u
    PROVE  Keeps(q, p, {"url"}) /\ q.url = x
<1>1. Loses(Ev("SecurityUpgraded", u, x)) = {} /\ Leads(p, Ev("SecurityUpgraded", u, x)) = p.phase
  BY LosesNothing, LosesHeaders, LeadsTo DEF RequestChange, Learning, Answering
<1>2. Expected(p, Ev("SecurityUpgraded", u, x))
  BY Expects
<1> QED BY <1>1, <1>2, Saws DEF Keeps

LEMMA SawUserinfo ==
    ASSUME NEW p, NEW q, NEW u, NEW x, q = Saw(p, Ev("UrlCredentialsRemoved", u, x)),
           ~p.wrong, p.phase = "asked", u = p.url, p.userinfo
    PROVE  Keeps(q, p, {"userinfo"}) /\ ~q.userinfo
<1>1. Loses(Ev("UrlCredentialsRemoved", u, x)) = {} /\ Leads(p, Ev("UrlCredentialsRemoved", u, x)) = p.phase
  BY LosesNothing, LosesHeaders, LeadsTo DEF RequestChange, Learning, Answering
<1>2. Expected(p, Ev("UrlCredentialsRemoved", u, x))
  BY Expects DEF RequestChange
<1> QED BY <1>1, <1>2, Saws DEF Keeps

LEMMA SawHeaders ==
    ASSUME NEW p, NEW q, NEW u, NEW x, NEW ev \in {"SensitiveHeadersStripped", "HeadersRemoved"},
           q = Saw(p, Ev(ev, u, x)), ~p.wrong, p.phase = "asked", u = p.url, x # {}, x \subseteq p.hand
    PROVE  Keeps(q, p, {"hand"}) /\ q.hand = p.hand \ x
<1>1. Loses(Ev(ev, u, x)) = x /\ Leads(p, Ev(ev, u, x)) = p.phase
  BY LosesNothing, LosesHeaders, LeadsTo DEF RequestChange, Learning, Answering
<1>2. Expected(p, Ev(ev, u, x))
  BY Expects DEF RequestChange
<1> QED BY <1>1, <1>2, Saws DEF Keeps

LEMMA SawMethod ==
    ASSUME NEW p, NEW q, NEW u, NEW x, q = Saw(p, Ev("MethodDowngraded", u, x)),
           ~p.wrong, p.phase = "asked", u = p.url, x # p.method
    PROVE  Keeps(q, p, {"method", "hand"}) /\ q.method = x /\ q.hand = p.hand \ BodyHeaders
<1>1. Loses(Ev("MethodDowngraded", u, x)) = BodyHeaders /\ Leads(p, Ev("MethodDowngraded", u, x)) = p.phase
  BY LosesNothing, LosesHeaders, LeadsTo DEF RequestChange, Learning, Answering
<1>2. Expected(p, Ev("MethodDowngraded", u, x))
  BY Expects DEF RequestChange
<1> QED BY <1>1, <1>2, Saws DEF Keeps

LEMMA SawReferrer ==
    ASSUME NEW p, NEW q, NEW u, NEW x, q = Saw(p, Ev("ReferrerReduced", u, x)),
           ~p.wrong, p.phase = "asked", u = p.url, x # p.referer
    PROVE  Keeps(q, p, {"referer"}) /\ q.referer = x
<1>1. Loses(Ev("ReferrerReduced", u, x)) = {} /\ Leads(p, Ev("ReferrerReduced", u, x)) = p.phase
  BY LosesNothing, LosesHeaders, LeadsTo DEF RequestChange, Learning, Answering
<1>2. Expected(p, Ev("ReferrerReduced", u, x))
  BY Expects DEF RequestChange
<1> QED BY <1>1, <1>2, Saws DEF Keeps

LEMMA SawTaint ==
    ASSUME NEW p, NEW q, NEW u, NEW x, q = Saw(p, Ev("OriginTainted", u, x)),
           ~p.wrong, p.phase = "asked", u = p.url, ~p.tainted
    PROVE  Keeps(q, p, {"tainted", "null"}) /\ q.tainted /\ q.null
<1>1. Loses(Ev("OriginTainted", u, x)) = {} /\ Leads(p, Ev("OriginTainted", u, x)) = p.phase
  BY LosesNothing, LosesHeaders, LeadsTo DEF RequestChange, Learning, Answering
<1>2. Expected(p, Ev("OriginTainted", u, x))
  BY Expects DEF RequestChange
<1> QED BY <1>1, <1>2, Saws DEF Keeps

LEMMA SawHidden ==
    ASSUME NEW p, NEW q, NEW u, NEW x, q = Saw(p, Ev("OriginHidden", u, x)),
           ~p.wrong, p.phase = "asked", u = p.url, ~p.tainted
    PROVE  Keeps(q, p, {"null"}) /\ q.null
<1>1. Loses(Ev("OriginHidden", u, x)) = {} /\ Leads(p, Ev("OriginHidden", u, x)) = p.phase
  BY LosesNothing, LosesHeaders, LeadsTo DEF RequestChange, Learning, Answering
<1>2. Expected(p, Ev("OriginHidden", u, x))
  BY Expects DEF RequestChange
<1> QED BY <1>1, <1>2, Saws DEF Keeps

LEMMA SawWithheld ==
    ASSUME NEW p, NEW q, NEW u, NEW x, q = Saw(p, Ev("CredentialsWithheld", u, x)),
           ~p.wrong, p.phase = "asked", u = p.url, ~p.withheld, req.credentials = "same-origin"
    PROVE  Keeps(q, p, {"withheld"}) /\ q.withheld
<1>1. Loses(Ev("CredentialsWithheld", u, x)) = {} /\ Leads(p, Ev("CredentialsWithheld", u, x)) = p.phase
  BY LosesNothing, LosesHeaders, LeadsTo DEF RequestChange, Learning, Answering
<1>2. Expected(p, Ev("CredentialsWithheld", u, x))
  BY Expects DEF RequestChange
<1> QED BY <1>1, <1>2, Saws DEF Keeps

\* The steps of a hop, each in its place.
LEMMA SawStep ==
    ASSUME NEW p, NEW q, NEW u, NEW x, NEW ev, q = Saw(p, Ev(ev, u, x)), ~p.wrong, u = p.url
    PROVE  /\ ev = "Started" /\ p.phase = "asked" => Keeps(q, p, {})
           /\ ev = "CorsPreflight" /\ p.phase = "asked" => Keeps(q, p, {"phase"}) /\ q.phase = "preflight"
           /\ ev = "CorsPreflightDone" /\ p.phase = "preflight" => Keeps(q, p, {"phase"}) /\ q.phase = "asked"
           /\ ev = "RequestSent" /\ p.phase \in {"asked", "again"} => Keeps(q, p, {"phase"}) /\ q.phase = "sent"
           /\ ev = "ResponseHeaders" /\ p.phase = "sent" => Keeps(q, p, {"phase"}) /\ q.phase = "answered"
           /\ ev \in Answering /\ p.phase = "asked" => Keeps(q, p, {"phase"}) /\ q.phase = "answered"
           /\ ev \in Learning /\ p.phase = "answered" => Keeps(q, p, {})
           /\ ev = "AuthRequired" /\ p.phase = "answered" =>
                 Keeps(q, p, {"phase"}) /\ q.phase = IF x THEN "again" ELSE "answered"
           /\ ev = "Returned" /\ p.phase = "answered" => Keeps(q, p, {"phase"}) /\ q.phase = "over"
<1>1. CASE ev = "Started" /\ p.phase = "asked"
  <2>1. Loses(Ev(ev, u, x)) = {} /\ Leads(p, Ev(ev, u, x)) = p.phase
    BY <1>1, LosesNothing, LosesHeaders, LeadsTo DEF RequestChange, Learning, Answering
  <2>2. Expected(p, Ev(ev, u, x))
    BY <1>1, Expects
  <2> QED BY <1>1, <2>1, <2>2, Saws DEF Keeps, Learning, Answering
<1>2. CASE ev = "CorsPreflight" /\ p.phase = "asked"
  <2>1. Loses(Ev(ev, u, x)) = {} /\ Leads(p, Ev(ev, u, x)) = "preflight"
    BY <1>2, LosesNothing, LosesHeaders, LeadsTo DEF RequestChange, Learning, Answering
  <2>2. Expected(p, Ev(ev, u, x))
    BY <1>2, Expects
  <2> QED BY <1>2, <2>1, <2>2, Saws DEF Keeps, Learning, Answering
<1>3. CASE ev = "CorsPreflightDone" /\ p.phase = "preflight"
  <2>1. Loses(Ev(ev, u, x)) = {} /\ Leads(p, Ev(ev, u, x)) = "asked"
    BY <1>3, LosesNothing, LosesHeaders, LeadsTo DEF RequestChange, Learning, Answering
  <2>2. Expected(p, Ev(ev, u, x))
    BY <1>3, Expects
  <2> QED BY <1>3, <2>1, <2>2, Saws DEF Keeps, Learning, Answering
<1>4. CASE ev = "RequestSent" /\ p.phase \in {"asked", "again"}
  <2>1. Loses(Ev(ev, u, x)) = {} /\ Leads(p, Ev(ev, u, x)) = "sent"
    BY <1>4, LosesNothing, LosesHeaders, LeadsTo DEF RequestChange, Learning, Answering
  <2>2. Expected(p, Ev(ev, u, x))
    BY <1>4, Expects
  <2> QED BY <1>4, <2>1, <2>2, Saws DEF Keeps, Learning, Answering
<1>5. CASE ev = "ResponseHeaders" /\ p.phase = "sent"
  <2>1. Loses(Ev(ev, u, x)) = {} /\ Leads(p, Ev(ev, u, x)) = "answered"
    BY <1>5, LosesNothing, LosesHeaders, LeadsTo DEF RequestChange, Learning, Answering
  <2>2. Expected(p, Ev(ev, u, x))
    BY <1>5, Expects
  <2> QED BY <1>5, <2>1, <2>2, Saws DEF Keeps, Learning, Answering
<1>6. CASE ev \in Answering /\ p.phase = "asked"
  <2>1. Loses(Ev(ev, u, x)) = {} /\ Leads(p, Ev(ev, u, x)) = "answered"
    BY <1>6, LosesNothing, LosesHeaders, LeadsTo DEF RequestChange, Learning, Answering
  <2>2. Expected(p, Ev(ev, u, x))
    BY <1>6, Expects
  <2> QED BY <1>6, <2>1, <2>2, Saws DEF Keeps, Learning, Answering
<1>7. CASE ev \in Learning /\ p.phase = "answered"
  <2>1. Loses(Ev(ev, u, x)) = {} /\ Leads(p, Ev(ev, u, x)) = p.phase
    BY <1>7, LosesNothing, LosesHeaders, LeadsTo DEF RequestChange, Learning, Answering
  <2>2. Expected(p, Ev(ev, u, x))
    BY <1>7, Expects
  <2> QED BY <1>7, <2>1, <2>2, Saws DEF Keeps, Learning, Answering
<1>8. CASE ev = "AuthRequired" /\ p.phase = "answered"
  <2>1. Loses(Ev(ev, u, x)) = {} /\ Leads(p, Ev(ev, u, x)) = IF x THEN "again" ELSE "answered"
    BY <1>8, LosesNothing, LosesHeaders, LeadsTo DEF RequestChange, Learning, Answering
  <2>2. Expected(p, Ev(ev, u, x))
    BY <1>8, Expects
  <2> QED BY <1>8, <2>1, <2>2, Saws DEF Keeps, Learning, Answering
<1>9. CASE ev = "Returned" /\ p.phase = "answered"
  <2>1. Loses(Ev(ev, u, x)) = {} /\ Leads(p, Ev(ev, u, x)) = "over"
    BY <1>9, LosesNothing, LosesHeaders, LeadsTo DEF RequestChange, Learning, Answering
  <2>2. Expected(p, Ev(ev, u, x))
    BY <1>9, Expects
  <2> QED BY <1>9, <2>1, <2>2, Saws DEF Keeps, Learning, Answering
<1> QED BY <1>1, <1>2, <1>3, <1>4, <1>5, <1>6, <1>7, <1>8, <1>9, Zenon

\* What may come at any time: a 304 that makes the hop ask again, the jar's callback, an end.
LEMMA SawAny ==
    ASSUME NEW p, NEW q, NEW u, NEW x, NEW ev, q = Saw(p, Ev(ev, u, x)), ~p.wrong, p.phase # "over"
    PROVE  /\ ev = "Again" => Keeps(q, p, {"phase"}) /\ q.phase = "again"
           /\ ev = "on_cookies" => Keeps(q, p, {"hand"}) /\ q.hand = p.hand \ {"cookie"}
           /\ ev \in {"Failed", "Cancelled"} => Over(q)
           /\ ev = "Blocked" /\ p.phase # "blocked" /\ x \in BlockReason => ~q.wrong /\ q.phase = "blocked"
<1>1. CASE ev = "Again"
  <2>1. Loses(Ev(ev, u, x)) = {} /\ Leads(p, Ev(ev, u, x)) = "again"
    BY <1>1, LosesNothing, LosesHeaders, LeadsTo DEF RequestChange, Learning, Answering
  <2>2. Expected(p, Ev(ev, u, x))
    BY <1>1, Expects
  <2> QED BY <1>1, <2>1, <2>2, Saws DEF Keeps
<1>2. CASE ev = "on_cookies"
  <2>1. Loses(Ev(ev, u, x)) = {"cookie"} /\ Leads(p, Ev(ev, u, x)) = p.phase
    BY <1>2, LosesNothing, LosesHeaders, LeadsTo DEF RequestChange, Learning, Answering
  <2>2. Expected(p, Ev(ev, u, x))
    BY <1>2, Expects
  <2> QED BY <1>2, <2>1, <2>2, Saws DEF Keeps
<1>3. CASE ev \in {"Failed", "Cancelled"}
  <2>1. Leads(p, Ev(ev, u, x)) = "over"
    BY <1>3, LosesNothing, LosesHeaders, LeadsTo DEF RequestChange, Learning, Answering
  <2>2. Expected(p, Ev(ev, u, x))
    BY <1>3, Expects
  <2> QED BY <1>3, <2>1, <2>2, Saws DEF Over
<1>4. CASE ev = "Blocked" /\ p.phase # "blocked" /\ x \in BlockReason
  <2>1. Leads(p, Ev(ev, u, x)) = "blocked"
    BY <1>4, LosesNothing, LosesHeaders, LeadsTo DEF RequestChange, Learning, Answering
  <2>2. Expected(p, Ev(ev, u, x))
    BY <1>4, Expects
  <2> QED BY <1>4, <2>1, <2>2, Saws
<1> QED BY <1>1, <1>2, <1>3, <1>4, Zenon

\* The next hop starts from what the caller asked for.
LEMMA SawRedirect ==
    ASSUME NEW p, NEW q, NEW u, NEW to, NEW userinfo,
           q = Saw(p, Ev("Redirected", u, [to |-> to, userinfo |-> userinfo])),
           ~p.wrong, p.phase = "answered", u = p.url
    PROVE  /\ Keeps(q, p, {"url", "userinfo", "referer", "null", "withheld", "phase"})
           /\ q.url = to /\ (q.userinfo <=> userinfo) /\ q.referer = req.referrer
           /\ ~q.null /\ ~q.withheld /\ q.phase = "asked"
<1>0. PICK x : x = [to |-> to, userinfo |-> userinfo]
  OBVIOUS
<1>1. x.to = to /\ x.userinfo = userinfo
  BY <1>0
<1>2. PICK e : e = Ev("Redirected", u, x)
  OBVIOUS
<1>3. q = Saw(p, e)
  BY <1>0, <1>2
<1>4. Loses(e) = {} /\ Leads(p, e) = "asked"
  BY <1>2, LosesNothing, LeadsTo
<1>5. Expected(p, e)
  BY <1>2, Expects
<1>6. /\ q.url = x.to /\ (q.userinfo <=> x.userinfo) /\ q.referer = req.referrer
      /\ ~q.null /\ ~q.withheld /\ q.phase = "asked"
      /\ Keeps(q, p, {"url", "userinfo", "referer", "null", "withheld", "phase"})
  BY <1>2, <1>3, <1>4, <1>5, Saws DEF Keeps
<1> QED BY <1>1, <1>6

LEMMA SeenAppend ==
    ASSUME NEW p, NEW a, NEW e, IsEvents(a)
    PROVE  IsEvents(Append(a, e)) /\ Seen(p, Append(a, e)) = Saw(Seen(p, a), e)
<1>1. Append(a, e) = a \o <<e>>
  <2>1. PICK X : a \in Seq(X)
    BY DEF IsEvents
  <2> QED BY <2>1
<1>2. IsEvents(<<e>>) /\ IsEvents(a \o <<e>>)
  BY Lists
<1> QED BY <1>1, <1>2, SeenTwo

\* A block tells why, and is then an end.
LEMMA SeenBlocked ==
    ASSUME NEW p, NEW u, NEW reason \in BlockReason, ~p.wrong, p.phase \notin {"blocked", "over"}
    PROVE  IsEvents(blocked(u, reason)) /\ Over(Seen(p, blocked(u, reason)))
<1>1. PICK q : q = Saw(p, Ev("Blocked", u, reason))
  OBVIOUS
<1>2. ~q.wrong /\ q.phase = "blocked"
  BY <1>1, SawAny
<1>3. PICK z : z = Saw(q, Ev("Failed", u, None))
  OBVIOUS
<1>4. Over(z)
  BY <1>2, <1>3, SawAny
<1>5. Seen(p, blocked(u, reason)) = z
  BY <1>1, <1>3, SeenPair DEF blocked
<1>6. IsEvents(blocked(u, reason))
  BY Lists DEF blocked
<1> QED BY <1>4, <1>5, <1>6

LEMMA Refused ==
    ASSUME NEW p, NEW a, NEW q, NEW u, NEW reason \in BlockReason, IsEvents(a), q = Seen(p, a),
           ~q.wrong, q.phase \notin {"blocked", "over"}
    PROVE  Over(Seen(p, a \o blocked(u, reason)))
<1>1. IsEvents(blocked(u, reason)) /\ Over(Seen(q, blocked(u, reason)))
  BY SeenBlocked
<1>2. Seen(p, a \o blocked(u, reason)) = Seen(q, blocked(u, reason))
  BY <1>1, SeenMore
<1> QED BY <1>1, <1>2

LEMMA EndsIn ==
    ASSUME ReportInv, NEW events, Ended(events), Over(Seen(panel, events))
    PROVE  ReportInv'
<1>1. stage' = "done" /\ panel' = Seen(panel, events) /\ req' = req
  BY DEF Ended, Told
<1>2. Over(panel')
  BY <1>1
<1> QED BY <1>1, <1>2 DEF ReportInv, Over

LEMMA Reasons ==
    {"MixedContent", "UrlPolicy", "UnsupportedScheme", "Cors", "NotCached", "BadPort", "ForbiddenMethod"}
        \subseteq BlockReason
  BY DEF BlockReason

LEMMA FailsTold ==
    ASSUME ReportInv, \/ \E ev \in {"Failed", "Cancelled"} : Fails(ev)
                      \/ TooManyRedirects
    PROVE  ReportInv'
<1>1. PICK ev, u : /\ ev \in {"Failed", "Cancelled"}
                     /\ Ended(<<Ev(ev, u, None)>>) /\ stage \in {"hop", "regime", "preflight", "sent"}
  BY DEF Fails, TooManyRedirects
<1>2. ~panel.wrong /\ panel.phase # "over"
  BY <1>1 DEF ReportInv, Shows
<1>3. PICK q : q = Saw(panel, Ev(ev, u, None))
  OBVIOUS
<1>4. Over(q)
  BY <1>1, <1>2, <1>3, SawAny
<1>5. Seen(panel, <<Ev(ev, u, None)>>) = q
  BY <1>3, SeenOne
<1> QED BY <1>1, <1>4, <1>5, EndsIn

\* Where the hop goes is its URL, or that URL over https.
LEMMA GoesTo ==
    ASSUME NEW p, NEW q, NEW u, IsUrl(u)
    PROVE  LET checked == hop_checks(p, q, u)
           IN  /\ checked.to \in {None, u, Upgrade(u)}
               /\ checked.to = None => checked.reason \in BlockReason
<1>1. PICK T : T = evaluate_for(q.mixed, q.origin, u, q.destination)
  OBVIOUS
<1>2. T \in {None, u, Upgrade(u)}
  BY <1>1 DEF evaluate_for
<1>3. PICK checked : checked = hop_checks(p, q, u)
  OBVIOUS
<1>4. \/ \E reason \in BlockReason : checked = [to |-> None, reason |-> reason]
      \/ checked = [to |-> T, reason |-> None]
  BY <1>1, <1>3, Reasons, Zenon DEF hop_checks
<1>5. (checked.to = None /\ checked.reason \in BlockReason) \/ (checked.to = T /\ T # None)
  <2>1. ASSUME NEW reason \in BlockReason, checked = [to |-> None, reason |-> reason]
        PROVE  checked.to = None /\ checked.reason \in BlockReason
    BY <2>1
  <2>2. ASSUME checked = [to |-> T, reason |-> None], T # None
        PROVE  checked.to = T
    BY <2>2
  <2>3. \/ \E reason \in BlockReason : checked = [to |-> None, reason |-> reason]
        \/ checked = [to |-> T, reason |-> None] /\ T # None
    BY <1>1, <1>3, Reasons, Zenon DEF hop_checks
  <2> QED BY <2>1, <2>2, <2>3
<1> QED BY <1>2, <1>3, <1>5

LEMMA Upgraded ==
    ASSUME NEW u, IsUrl(u)
    PROVE  IsUrl(Upgrade(u)) /\ Upgrade(u).host = u.host
<1>1. PICK s, h, t : u = [scheme |-> s, host |-> h, site |-> t]
  BY DEF IsUrl
<1>2. Upgrade(u) = [scheme |-> "https", host |-> h, site |-> t]
  BY <1>1 DEF Upgrade
<1> QED BY <1>1, <1>2 DEF IsUrl

\* A hop on its way out keeps the panel that shows it.
LEMMA SecureTold ==
    ASSUME ReportInv, secure_url
    PROVE  ReportInv'
<1>1. PICK known, u, checked, events :
         /\ known = known_host(policy.transport, chain.url)
         /\ u = IF known THEN Upgrade(chain.url) ELSE chain.url
         /\ checked = hop_checks(policy.transport, req, u)
         /\ events = When(known, Ev("SecurityUpgraded", chain.url, u))
  OBVIOUS
<1>2. /\ stage = "hop"
      /\ IF checked.to = None
           THEN Ended(events \o blocked(u, checked.reason))
           ELSE /\ panel' = Seen(panel, events \o When(checked.to # u, Ev("SecurityUpgraded", u, checked.to)))
                /\ chain' = [chain EXCEPT !.url = checked.to,
                                            !.before_hsts = IF known THEN chain.url ELSE None]
                /\ stage' = "regime"
                /\ req' = req
  BY <1>1, Zenon DEF secure_url, Told
<1>3. /\ Shows(panel, chain) /\ panel.phase = "asked" /\ ShowsEarly(panel) /\ ShowsUnsent(panel, chain)
      /\ req.credentials \in RequestCredentials
  BY <1>2 DEF ReportInv
<1>4. IsUrl(u) /\ (known => u # chain.url)
  <2>1. CASE known
    <3>1. chain.url.scheme = "http" /\ IsUrl(chain.url)
      BY <1>1, <1>3, <2>1 DEF known_host, Shows
    <3>2. u = Upgrade(chain.url) /\ u.scheme = "https"
      BY <1>1, <2>1, <3>1 DEF Upgrade, IsUrl
    <3> QED BY <3>1, <3>2, Upgraded
  <2>2. CASE ~known
    BY <1>1, <1>3, <2>2 DEF Shows
  <2> QED BY <2>1, <2>2
<1>5. checked.to \in {None, u, Upgrade(u)} /\ (checked.to = None => checked.reason \in BlockReason)
  BY <1>1, <1>4, GoesTo
<1>6. PICK q : q = Seen(panel, events)
  OBVIOUS
<1>7. IsEvents(events) /\ Keeps(q, panel, {"url"}) /\ q.url = u /\ ~q.wrong
  <2>1. IsEvents(events) /\ q = IF known THEN Saw(panel, Ev("SecurityUpgraded", chain.url, u)) ELSE panel
    BY <1>1, <1>6, SeenWhen
  <2>2. ~panel.wrong /\ panel.phase = "asked" /\ chain.url = panel.url
    BY <1>3 DEF Shows
  <2>3. CASE known
    <3>1. u = Upgrade(chain.url)
      BY <1>1, <2>3
    <3>2. Keeps(q, panel, {"url"}) /\ q.url = u
      BY <1>4, <2>1, <2>2, <2>3, <3>1, SawUpgrade
    <3> QED BY <2>1, <2>2, <3>2 DEF Keeps
  <2>4. CASE ~known
    BY <1>1, <2>1, <2>2, <2>4 DEF Keeps
  <2> QED BY <2>3, <2>4
<1>8. q.phase = "asked"
  BY <1>3, <1>7 DEF Keeps
<1>9. CASE checked.to = None
  <2>1. Over(Seen(panel, events \o blocked(u, checked.reason)))
    BY <1>5, <1>6, <1>7, <1>8, <1>9, Refused
  <2> QED BY <1>2, <1>9, <2>1, EndsIn
<1>10. CASE checked.to # None
  <2>1. PICK to, e, z : to = checked.to /\ e = Ev("SecurityUpgraded", u, to) /\ z = IF to # u THEN Saw(q, e) ELSE q
    OBVIOUS
  <2>2. panel' = z
    <3>1. IsEvents(When(to # u, e)) /\ Seen(q, When(to # u, e)) = IF to # u THEN Saw(q, e) ELSE q
      BY SeenWhen
    <3>2. panel' = Seen(panel, events \o When(to # u, e))
      BY <1>2, <1>10, <2>1
    <3>3. Seen(panel, events \o When(to # u, e)) = Seen(q, When(to # u, e))
      BY <1>6, <1>7, <3>1, SeenMore
    <3> QED BY <2>1, <3>1, <3>2, <3>3
  <2>3. Keeps(z, q, {"url"}) /\ z.url = to
    <3>1. CASE to = u
      BY <1>7, <2>1, <3>1 DEF Keeps
    <3>2. CASE to # u
      BY <1>5, <1>7, <1>8, <1>10, <2>1, <3>2, SawUpgrade
    <3> QED BY <3>1, <3>2
  <2>4. Keeps(z, panel, {"url"})
    BY <1>7, <2>3 DEF Keeps
  <2>5. IsUrl(to)
    BY <1>4, <1>5, <1>10, <2>1, Upgraded
  <2>6. PICK b, d : b = (IF known THEN chain.url ELSE None) /\ d = [chain EXCEPT !.url = to, !.before_hsts = b]
    OBVIOUS
  <2>7. chain' = d /\ stage' = "regime" /\ req' = req
    BY <1>2, <1>10, <2>1, <2>6
  <2>8. /\ IsChain(d) /\ d.url = to /\ d.method = chain.method /\ d.hand = chain.hand /\ d.jar = chain.jar
        /\ d.taint_reported = chain.taint_reported /\ d.origin_tainted = chain.origin_tainted
    <3>1. IsChain(chain)
      BY <1>3 DEF Shows
    <3> QED BY <2>6, <3>1 DEF IsChain
  <2>9. Shows(z, d)
    BY <1>3, <2>3, <2>4, <2>5, <2>8 DEF Shows, Keeps
  <2>10. z.phase = "asked" /\ z.referer = req.referrer /\ ~z.null /\ ShowsUnsent(z, d)
    BY <1>3, <2>4, <2>8 DEF Keeps, ShowsEarly, ShowsUnsent
  <2>11. req.credentials \in RequestCredentials
    BY <1>3
  <2> QED BY <2>2, <2>7, <2>9, <2>10, <2>11 DEF ReportInv, Shows, ShowsUnsent, ShowsEarly
<1> QED BY <1>9, <1>10

\* The Origin a hop sends is the caller's own only while the chain is not tainted.
LEMMA OriginKinds ==
    ASSUME NEW q, NEW c
    PROVE  /\ origin_header(q, c) \in {"none", "null", "origin"}
           /\ origin_header(q, c) = "origin" => ~c.origin_tainted
  BY DEF origin_header

LEMMA RegimeTold ==
    ASSUME ReportInv, Regime
    PROVE  ReportInv'
<1>1. PICK tainting : tainting = enter_cors_regime(req, chain)
  OBVIOUS
<1>2. /\ Shows(panel, chain) /\ panel.phase = "asked" /\ ShowsEarly(panel) /\ ShowsUnsent(panel, chain)
      /\ req.credentials \in RequestCredentials /\ stage = "regime"
  BY DEF ReportInv, Regime
<1>3. PICK c0 : c0 = [chain EXCEPT !.tainting = tainting]
  OBVIOUS
<1>4. PICK c1 : c1 = set_referrer(req, c0)
  OBVIOUS
<1>5. PICK c : c = set_fetch_metadata(req, c1)
  OBVIOUS
<1>6. PICK reduced, origins : /\ reduced = ReferrerReported(req, c)
                              /\ origins = OriginReported(c, chain.taint_reported)
  OBVIOUS
<1>7. /\ IsChain(c) /\ c.url = chain.url /\ c.method = chain.method /\ c.hand = chain.hand
      /\ c.jar = chain.jar /\ c.origin_tainted = chain.origin_tainted
      /\ c.taint_reported <=> chain.taint_reported \/ (c.origin = "null" /\ chain.origin_tainted)
      /\ c.origin \in {"none", "null", "origin"} /\ (c.origin = "origin" => ~chain.origin_tainted)
  <2>1. /\ IsChain(c0) /\ c0.url = chain.url /\ c0.method = chain.method /\ c0.hand = chain.hand
        /\ c0.jar = chain.jar /\ c0.origin_tainted = chain.origin_tainted /\ c0.taint_reported = chain.taint_reported
    BY <1>2, <1>3 DEF Shows, IsChain
  <2>2. PICK r : c1 = [c0 EXCEPT !.referrer = r]
    BY <1>4 DEF set_referrer
  <2>3. /\ IsChain(c1) /\ c1.url = chain.url /\ c1.method = chain.method /\ c1.hand = chain.hand
        /\ c1.jar = chain.jar /\ c1.origin_tainted = chain.origin_tainted /\ c1.taint_reported = chain.taint_reported
    BY <2>1, <2>2 DEF IsChain
  <2>4. PICK o, t : /\ o = origin_header(req, c1)
                    /\ t = (c1.taint_reported \/ (o = "null" /\ c1.origin_tainted))
    OBVIOUS
  <2>5. c = [c1 EXCEPT !.origin = o, !.taint_reported = t]
    BY <1>5, <2>4, Zenon DEF set_fetch_metadata
  <2>6. /\ IsChain(c) /\ c.url = c1.url /\ c.method = c1.method /\ c.hand = c1.hand
        /\ c.jar = c1.jar /\ c.origin_tainted = c1.origin_tainted /\ c.taint_reported = t /\ c.origin = o
    BY <2>3, <2>5 DEF IsChain
  <2>7. o \in {"none", "null", "origin"} /\ (o = "origin" => ~c1.origin_tainted)
    BY <2>4, OriginKinds
  <2> QED BY <2>3, <2>4, <2>6, <2>7, Zenon
<1>8. PICK q : q = Seen(panel, reduced)
  OBVIOUS
<1>9. /\ IsEvents(reduced) /\ Keeps(q, panel, {"referer"}) /\ ~q.wrong
      /\ req.referrer # None => q.referer = c.referrer
  <2>1. PICK e, tells : /\ e = Ev("ReferrerReduced", c.url, c.referrer)
                          /\ tells = (req.referrer # None /\ c.referrer # req.referrer)
    OBVIOUS
  <2>2. IsEvents(reduced) /\ q = IF tells THEN Saw(panel, e) ELSE panel
    BY <1>6, <1>8, <2>1, SeenWhen DEF ReferrerReported
  <2>3. ~panel.wrong /\ panel.phase = "asked" /\ panel.url = c.url /\ panel.referer = req.referrer
    BY <1>2, <1>7 DEF Shows, ShowsEarly
  <2>4. CASE tells
    <3>1. c.referrer # panel.referer
      BY <2>1, <2>3, <2>4
    <3>2. Keeps(q, panel, {"referer"}) /\ q.referer = c.referrer
      BY <2>1, <2>2, <2>3, <2>4, <3>1, SawReferrer
    <3> QED BY <2>2, <2>3, <3>2 DEF Keeps
  <2>5. CASE ~tells
    BY <2>1, <2>2, <2>3, <2>5 DEF Keeps
  <2> QED BY <2>4, <2>5
<1>10. /\ q.phase = "asked" /\ q.url = c.url /\ ~q.null /\ (q.tainted <=> chain.taint_reported)
       /\ chain.taint_reported => chain.origin_tainted
  BY <1>2, <1>7, <1>9 DEF Keeps, Shows, ShowsEarly
<1>11. PICK z : z = Seen(q, origins)
  OBVIOUS
<1>12. /\ IsEvents(origins) /\ Keeps(z, q, {"tainted", "null"}) /\ ~z.wrong
       /\ z.tainted <=> c.taint_reported
       /\ z.null => c.origin = "null"
       /\ c.origin = "null" => z.null \/ z.tainted
  <2>1. CASE c.origin = "null" /\ c.origin_tainted
    <3>1. PICK e : e = Ev("OriginTainted", c.url, None)
      OBVIOUS
    <3>2. origins = When(~chain.taint_reported, e)
      BY <1>6, <2>1, <3>1 DEF OriginReported
    <3>3. IsEvents(origins) /\ z = IF ~chain.taint_reported THEN Saw(q, e) ELSE q
      BY <1>11, <3>2, SeenWhen
    <3>4. CASE chain.taint_reported
      BY <1>7, <1>9, <1>10, <2>1, <3>3, <3>4 DEF Keeps
    <3>5. CASE ~chain.taint_reported
      <4>1. Keeps(z, q, {"tainted", "null"}) /\ z.tainted /\ z.null
        BY <1>9, <1>10, <3>1, <3>3, <3>5, SawTaint
      <4> QED BY <1>7, <1>9, <2>1, <3>3, <4>1 DEF Keeps
    <3> QED BY <3>4, <3>5
  <2>2. CASE c.origin = "null" /\ ~c.origin_tainted
    <3>1. PICK e : e = Ev("OriginHidden", c.url, None)
      OBVIOUS
    <3>2. origins = <<e>>
      BY <1>6, <2>2, <3>1 DEF OriginReported
    <3>3. IsEvents(origins) /\ z = Saw(q, e)
      BY <1>11, <3>2, Lists, SeenOne
    <3>4. Keeps(z, q, {"null"}) /\ z.null
      BY <1>7, <1>9, <1>10, <2>2, <3>1, <3>3, SawHidden
    <3> QED BY <1>7, <1>9, <1>10, <2>2, <3>3, <3>4 DEF Keeps
  <2>3. CASE c.origin # "null"
    <3>1. origins = <<>>
      BY <1>6, <2>3 DEF OriginReported
    <3>2. IsEvents(origins) /\ z = q
      BY <1>11, <3>1, Lists, SeenNone
    <3> QED BY <1>7, <1>9, <1>10, <2>3, <3>2 DEF Keeps
  <2> QED BY <2>1, <2>2, <2>3
<1>13. IsEvents(reduced \o origins) /\ Seen(panel, reduced \o origins) = z
  BY <1>8, <1>9, <1>11, <1>12, Lists, SeenMore
<1>14. Shows(z, c) /\ z.phase = "asked" /\ ShowsLate(z, c) /\ ShowsUnsent(z, c)
  <2>1. Keeps(z, panel, {"referer", "tainted", "null"}) /\ z.referer = q.referer
    BY <1>9, <1>12 DEF Keeps
  <2>2. Shows(z, c)
    BY <1>2, <1>7, <1>12, <2>1 DEF Shows, Keeps
  <2>3. c.origin = "origin" => ~z.tainted
    BY <1>7, <1>10, <1>12
  <2>4. ShowsLate(z, c)
    BY <1>9, <1>12, <2>1, <2>3 DEF ShowsLate
  <2>5. z.phase = "asked" /\ ShowsUnsent(z, c)
    BY <1>2, <1>7, <2>1 DEF ShowsUnsent, Keeps
  <2> QED BY <2>2, <2>4, <2>5
<1>15. \/ Ended(blocked(chain.url, "Cors"))
       \/ /\ chain' = c /\ req' = req
          /\ \/ stage' = "plan" /\ panel' = z
             \/ stage' = "preflight"
                /\ panel' = Seen(panel, Append(reduced \o origins, Ev("CorsPreflight", c.url, None)))
  BY <1>1, <1>3, <1>4, <1>5, <1>6, <1>13, Zenon DEF Regime, Told
<1>16. CASE Ended(blocked(chain.url, "Cors"))
  <2>1. Over(Seen(panel, blocked(chain.url, "Cors")))
    BY <1>2, Reasons, SeenBlocked DEF Shows
  <2> QED BY <1>16, <2>1, EndsIn
<1>17. CASE chain' = c /\ req' = req /\ stage' = "plan" /\ panel' = z
  BY <1>2, <1>14, <1>17 DEF ReportInv, Shows, ShowsLate, ShowsUnsent
<1>18. CASE /\ chain' = c /\ req' = req /\ stage' = "preflight"
            /\ panel' = Seen(panel, Append(reduced \o origins, Ev("CorsPreflight", c.url, None)))
  <2>1. PICK e, y : e = Ev("CorsPreflight", c.url, None) /\ y = Saw(z, e)
    OBVIOUS
  <2>2. PICK told : told = reduced \o origins
    OBVIOUS
  <2>3. panel' = y
    <3>1. IsEvents(told) /\ Seen(panel, told) = z /\ panel' = Seen(panel, Append(told, e))
      BY <1>13, <1>18, <2>1, <2>2
    <3> QED BY <2>1, <3>1, SeenAppend
  <2>4. Keeps(y, z, {"phase"}) /\ y.phase = "preflight"
    BY <1>14, <2>1, SawStep DEF Shows
  <2>5. Shows(y, c) /\ ShowsLate(y, c) /\ ShowsUnsent(y, c)
    BY <1>14, <2>4 DEF Shows, ShowsLate, ShowsUnsent, Keeps
  <2> QED BY <1>2, <1>18, <2>3, <2>4, <2>5 DEF ReportInv, Shows, ShowsLate, ShowsUnsent
<1> QED BY <1>15, <1>16, <1>17, <1>18

LEMMA PreflightTold ==
    ASSUME ReportInv, Preflight
    PROVE  ReportInv'
<1>1. PICK e, q, done : /\ e = Ev("CorsPreflightDone", chain.url, None) /\ q = Saw(panel, e)
                        /\ done = <<e>>
  OBVIOUS
<1>2. /\ Shows(panel, chain) /\ panel.phase = "preflight" /\ ShowsLate(panel, chain) /\ ShowsUnsent(panel, chain)
      /\ req.credentials \in RequestCredentials /\ stage = "preflight"
  BY DEF ReportInv, Preflight
<1>3. Keeps(q, panel, {"phase"}) /\ q.phase = "asked" /\ ~q.wrong
  <2>1. Keeps(q, panel, {"phase"}) /\ q.phase = "asked"
    BY <1>1, <1>2, SawStep DEF Shows
  <2> QED BY <1>2, <2>1 DEF Keeps, Shows
<1>4. IsEvents(done) /\ Seen(panel, done) = q
  BY <1>1, Lists, SeenOne
<1>5. \/ Ended(done \o blocked(chain.url, "Cors"))
      \/ stage' = "plan" /\ panel' = Seen(panel, done) /\ chain' = chain /\ req' = req
  BY <1>1, Zenon DEF Preflight, Told
<1>6. CASE Ended(done \o blocked(chain.url, "Cors"))
  <2>1. Over(Seen(panel, done \o blocked(chain.url, "Cors")))
    BY <1>3, <1>4, Reasons, Refused
  <2> QED BY <1>6, <2>1, EndsIn
<1>7. CASE stage' = "plan" /\ panel' = Seen(panel, done) /\ chain' = chain /\ req' = req
  <2>1. Shows(q, chain) /\ ShowsLate(q, chain) /\ ShowsUnsent(q, chain)
    BY <1>2, <1>3 DEF Shows, ShowsLate, ShowsUnsent, Keeps
  <2> QED BY <1>2, <1>3, <1>4, <1>7, <2>1 DEF ReportInv, Shows, ShowsLate, ShowsUnsent
<1> QED BY <1>5, <1>6, <1>7

\* With its credentials decided the panel knows whether the jar answers.
LEMMA Decided ==
    ASSUME ReportInv, stage = "plan", NEW c, c = WithCredentials(req, chain),
           NEW a, a = Withheld(req, c), NEW q, q = Seen(panel, a)
    PROVE  /\ IsEvents(a) /\ Shows(q, c) /\ q.phase = "asked" /\ ShowsLate(q, c) /\ ShowsSent(q, c)
           /\ c.method = chain.method
<1>1. /\ Shows(panel, chain) /\ panel.phase = "asked" /\ ShowsLate(panel, chain) /\ ShowsUnsent(panel, chain)
      /\ req.credentials \in RequestCredentials
  BY DEF ReportInv
<1>2. PICK attaches, jar : /\ attaches = attach_credentials(req, chain)
                         /\ jar = (chain.jar \/ (attaches /\ "cookie" \notin chain.hand
                                                  /\ chain.url.host \in policy.cookies.cookies_for))
  OBVIOUS
<1>3. c = [chain EXCEPT !.attach = attaches, !.jar = jar]
  BY <1>2, Zenon DEF WithCredentials
<1>4. /\ IsChain(c) /\ c.url = chain.url /\ c.method = chain.method /\ c.hand = chain.hand
      /\ c.jar = jar /\ c.origin_tainted = chain.origin_tainted /\ c.taint_reported = chain.taint_reported
      /\ c.origin = chain.origin /\ c.referrer = chain.referrer
  BY <1>1, <1>3 DEF Shows, IsChain
<1>5. attach_credentials(req, c) <=> attaches
  BY <1>2, <1>4 DEF attach_credentials
<1>6. attaches => req.credentials # "omit"
  BY <1>2 DEF attach_credentials
<1>7. ~attaches /\ req.credentials # "same-origin" => req.credentials = "omit"
  BY <1>1, <1>2 DEF attach_credentials, RequestCredentials
<1>8. PICK e, withholds : /\ e = Ev("CredentialsWithheld", c.url, None)
                          /\ withholds = (~attach_credentials(req, c) /\ req.credentials = "same-origin")
  OBVIOUS
<1>9. IsEvents(a) /\ q = IF withholds THEN Saw(panel, e) ELSE panel
  BY <1>8, SeenWhen DEF Withheld
<1>10. Keeps(q, panel, {"withheld"}) /\ (q.withheld <=> withholds)
  <2>1. CASE withholds
    <3>1. ~panel.wrong /\ panel.phase = "asked" /\ panel.url = c.url /\ ~panel.withheld
      BY <1>1, <1>4 DEF Shows, ShowsUnsent
    <3>2. req.credentials = "same-origin"
      BY <1>8, <2>1
    <3>3. Keeps(q, panel, {"withheld"}) /\ q.withheld
      BY <1>8, <1>9, <2>1, <3>1, <3>2, SawWithheld
    <3> QED BY <2>1, <3>3
  <2>2. CASE ~withholds
    BY <1>1, <1>9, <2>2 DEF Keeps, ShowsUnsent
  <2> QED BY <2>1, <2>2
<1>11. Shows(q, c) /\ q.phase = "asked" /\ ShowsLate(q, c)
  BY <1>1, <1>4, <1>10 DEF Shows, ShowsLate, Keeps
<1>12. ShowsSent(q, c)
  <2>1. q.hand = chain.hand /\ ~chain.jar
    BY <1>1, <1>10 DEF Shows, ShowsUnsent, Keeps
  <2>2. q.withheld <=> ~attaches /\ req.credentials = "same-origin"
    BY <1>5, <1>8, <1>10
  <2>3. attaches <=> ~q.withheld /\ req.credentials # "omit"
    BY <1>6, <1>7, <2>2
  <2>4. c.jar <=> attaches /\ "cookie" \notin chain.hand /\ chain.url.host \in policy.cookies.cookies_for
    BY <1>2, <1>4, <2>1, Zenon
  <2> QED BY <1>4, <2>1, <2>3, <2>4, Zenon DEF ShowsSent
<1> QED BY <1>4, <1>9, <1>11, <1>12

LEMMA SendTold ==
    ASSUME ReportInv, Send
    PROVE  ReportInv'
<1>1. PICK c, a, q : c = WithCredentials(req, chain) /\ a = Withheld(req, c) /\ q = Seen(panel, a)
  OBVIOUS
<1>2. stage = "plan" /\ req.credentials \in RequestCredentials
  BY DEF Send, ReportInv
<1>3. IsEvents(a) /\ Shows(q, c) /\ q.phase = "asked" /\ ShowsLate(q, c) /\ ShowsSent(q, c)
  BY <1>1, <1>2, Decided
<1>4. \/ Ended(a \o blocked(c.url, "NotCached"))
      \/ /\ panel' = Seen(panel, a \o Sent(c)) /\ chain' = c /\ wire' = HopRequest(c)
         /\ stage' = "sent" /\ req' = req /\ policy' = policy
  BY <1>1, Zenon DEF Send, Told
<1>5. CASE Ended(a \o blocked(c.url, "NotCached"))
  <2>1. ~q.wrong
    BY <1>3 DEF Shows
  <2>2. Over(Seen(panel, a \o blocked(c.url, "NotCached")))
    BY <1>1, <1>3, <2>1, Reasons, Refused
  <2> QED BY <1>5, <2>2, EndsIn
<1>6. CASE /\ panel' = Seen(panel, a \o Sent(c)) /\ chain' = c /\ wire' = HopRequest(c)
           /\ stage' = "sent" /\ req' = req /\ policy' = policy
  <2>1. PICK e, y : e = Ev("RequestSent", c.url, None) /\ y = Saw(q, e)
    OBVIOUS
  <2>2. panel' = y
    <3>1. panel' = Seen(panel, a \o <<e>>)
      BY <1>6, <2>1 DEF Sent
    <3> QED BY <1>1, <1>3, <2>1, <3>1, SeenTwo
  <2>3. Keeps(y, q, {"phase"}) /\ y.phase = "sent"
    <3>1. ~q.wrong /\ c.url = q.url /\ q.phase \in {"asked", "again"}
      BY <1>3 DEF Shows
    <3> QED BY <2>1, <3>1, SawStep
  <2>4. Shows(y, c) /\ ShowsLate(y, c) /\ ShowsSent(y, c)
    BY <1>3, <2>3 DEF Shows, ShowsLate, ShowsSent, Keeps
  <2>5. wire' = HopRequest(chain)'
    BY <1>6 DEF HopRequest
  <2> QED BY <1>2, <1>6, <2>2, <2>3, <2>4, <2>5 DEF ReportInv, Shows, ShowsLate, ShowsSent
<1> QED BY <1>4, <1>5, <1>6

\* The chain at its next hop.
LEMMA MovesOn ==
    ASSUME NEW c, IsChain(c), NEW r, NEW d, d = Moved(c, r)
    PROVE  /\ IsChain(d) /\ d.url = r.to /\ ~d.jar
           /\ d.taint_reported = c.taint_reported /\ (c.origin_tainted => d.origin_tainted)
           /\ d.method = (IF to_get(r.status, c.method) THEN "GET" ELSE c.method)
           /\ d.hand =
                LET own == (IF c.attach /\ r.cookies THEN c.hand \ {"cookie"} ELSE c.hand)
                             \ (IF to_get(r.status, c.method) THEN BodyHeaders ELSE {})
                IN  IF c.url # r.to THEN own \ SENSITIVE_REDIRECT_HEADERS ELSE own
<1>1. PICK kept, method, shows, tainted, n :
         /\ kept = LET own == (IF c.attach /\ r.cookies THEN c.hand \ {"cookie"} ELSE c.hand)
                                 \ (IF to_get(r.status, c.method) THEN BodyHeaders ELSE {})
                    IN  IF c.url # r.to THEN own \ SENSITIVE_REDIRECT_HEADERS ELSE own
         /\ method = IF to_get(r.status, c.method) THEN "GET" ELSE c.method
         /\ shows = IF r.policy = None THEN c.policy ELSE r.policy
         /\ tainted = (c.origin_tainted \/ (req.origin # None /\ c.url # r.to /\ req.origin # c.url))
         /\ n = c.redirects + 1
  OBVIOUS
<1>2. PICK e, secret : secret = ("authorization" \in kept) /\ e = [c EXCEPT !.hand = kept, !.secret = secret]
  OBVIOUS
<1>3. e = Carrying(c, kept)
  BY <1>2 DEF Carrying
<1>4. /\ IsChain(e) /\ e.hand = kept /\ e.taint_reported = c.taint_reported /\ e.origin_tainted = c.origin_tainted
      /\ e.method = c.method /\ e.policy = c.policy /\ e.redirects = c.redirects
  BY <1>2 DEF IsChain
<1>5. d = [e EXCEPT !.url = r.to, !.jar = FALSE, !.method = method, !.policy = shows,
                    !.origin_tainted = tainted, !.redirects = n]
  BY <1>1, <1>3, <1>4, ZenonT(60) DEF Moved
<1>6. /\ IsChain(d) /\ d.url = r.to /\ d.jar = FALSE /\ d.taint_reported = e.taint_reported
      /\ d.origin_tainted = tainted /\ d.method = method /\ d.hand = e.hand
  BY ZenonT(60), <1>4, <1>5 DEF IsChain
<1>7. c.origin_tainted => d.origin_tainted
  BY <1>1, <1>6, Zenon
<1>8. ~d.jar
  BY <1>6, Zenon
<1> QED BY <1>1, <1>4, <1>6, <1>7, <1>8, Zenon

\* The events of a redirect bring the panel to the next hop.
LEMMA RedirectShown ==
    ASSUME NEW p, NEW c, NEW r, ~p.wrong, ~p.userinfo, p.phase = "answered", IsChain(c),
           p.url = c.url, p.method = c.method, p.tainted <=> c.taint_reported, c.taint_reported => c.origin_tainted,
           p.hand = IF c.attach /\ r.cookies THEN c.hand \ {"cookie"} ELSE c.hand,
           IsUrl(r.to), r.userinfo \in BOOLEAN,
           NEW d, d = Moved(c, r), NEW a, a = Redirected(c, r, d), NEW z, z = Seen(p, a)
    PROVE  IsEvents(a) /\ Shows(z, d) /\ z.phase = "asked" /\ ShowsEarly(z) /\ ShowsUnsent(z, d)
<1>1. PICK set, get, leaves, own, gone :
         /\ set = (c.attach /\ r.cookies) /\ get = to_get(r.status, c.method) /\ leaves = (c.url # r.to)
         /\ own = p.hand \ (IF get THEN BodyHeaders ELSE {})
         /\ gone = (c.hand \cap SENSITIVE_REDIRECT_HEADERS) \ (d.hand \cup IF set THEN {"cookie"} ELSE {})
  OBVIOUS
<1>2. /\ IsChain(d) /\ d.url = r.to /\ ~d.jar
      /\ d.taint_reported = c.taint_reported /\ (c.origin_tainted => d.origin_tainted)
      /\ d.method = (IF get THEN "GET" ELSE c.method)
      /\ d.hand = LET o == (IF c.attach /\ r.cookies THEN c.hand \ {"cookie"} ELSE c.hand)
                             \ (IF get THEN BodyHeaders ELSE {})
                  IN  IF c.url # r.to THEN o \ SENSITIVE_REDIRECT_HEADERS ELSE o
  BY <1>1, MovesOn
<1>3. gone \subseteq own /\ d.hand = own \ gone
  <2>1. set \in BOOLEAN /\ get \in BOOLEAN /\ leaves \in BOOLEAN
    BY <1>1 DEF to_get
  <2>2. own = (IF set THEN c.hand \ {"cookie"} ELSE c.hand) \ (IF get THEN BodyHeaders ELSE {})
    BY <1>1
  <2>3. d.hand = IF leaves THEN own \ SENSITIVE_REDIRECT_HEADERS ELSE own
    BY <1>1, <1>2, <2>2, Zenon
  <2>4. PICK hand, kept : hand = c.hand /\ kept = d.hand
    OBVIOUS
  <2>5. own = (IF set THEN hand \ {"cookie"} ELSE hand) \ (IF get THEN BodyHeaders ELSE {})
    BY <2>2, <2>4
  <2>6. kept = IF leaves THEN own \ SENSITIVE_REDIRECT_HEADERS ELSE own
    BY <2>3, <2>4
  <2>7. gone = (hand \cap SENSITIVE_REDIRECT_HEADERS) \ (kept \cup IF set THEN {"cookie"} ELSE {})
    BY <1>1, <2>4
  <2>8. \A x : x \in BodyHeaders => x \notin SENSITIVE_REDIRECT_HEADERS
    BY DEF BodyHeaders, Framing, SENSITIVE_REDIRECT_HEADERS
  <2>9. \A x : x \in own <=> x \in hand /\ (set => x # "cookie") /\ (get => x \notin BodyHeaders)
    BY <2>5
  <2>10. \A x : x \in kept <=> x \in own /\ (leaves => x \notin SENSITIVE_REDIRECT_HEADERS)
    BY <2>6
  <2>11. \A x : x \in gone <=> x \in hand /\ x \in SENSITIVE_REDIRECT_HEADERS /\ x \notin kept /\ (set => x # "cookie")
    BY <2>7
  <2>12. \A x \in gone : x \in own
    BY <2>8, <2>9, <2>11
  <2>13. \A x : x \in kept <=> x \in own \ gone
    BY <2>9, <2>10, <2>11
  <2> QED BY <2>4, <2>12, <2>13
<1>4. PICK e1, e2, e3, e4 :
         /\ e1 = Ev("Redirected", c.url, [to |-> r.to, userinfo |-> r.userinfo])
         /\ e2 = Ev("UrlCredentialsRemoved", r.to, None)
         /\ e3 = Ev("MethodDowngraded", r.to, d.method)
         /\ e4 = Ev("SensitiveHeadersStripped", r.to, gone)
  OBVIOUS
<1>5. PICK a1, a2, a3 :
         /\ a1 = When(r.userinfo, e2) /\ a2 = When(c.method # d.method, e3) /\ a3 = When(gone # {}, e4)
  OBVIOUS
<1>6. a = ((<<e1>> \o a1) \o a2) \o a3
  BY <1>1, <1>4, <1>5, Zenon DEF Redirected
<1>7. PICK q1, q2, q3, q4 :
         /\ q1 = Saw(p, e1) /\ q2 = (IF r.userinfo THEN Saw(q1, e2) ELSE q1)
         /\ q3 = (IF c.method # d.method THEN Saw(q2, e3) ELSE q2)
         /\ q4 = (IF gone # {} THEN Saw(q3, e4) ELSE q3)
  OBVIOUS
<1>8. IsEvents(a) /\ z = q4
  <2>1. IsEvents(<<e1>>) /\ IsEvents(a1) /\ IsEvents(a2) /\ IsEvents(a3)
    BY <1>5, Lists, SeenWhen
  <2>2. IsEvents(<<e1>> \o a1) /\ IsEvents((<<e1>> \o a1) \o a2)
    BY <2>1, Lists
  <2>3. Seen(p, <<e1>>) = q1
    BY <1>7, SeenOne
  <2>4. Seen(q1, a1) = q2 /\ Seen(q2, a2) = q3 /\ Seen(q3, a3) = q4
    BY ZenonT(60), <1>5, <1>7, SeenWhen
  <2>5. PICK b1 : b1 = <<e1>>
    OBVIOUS
  <2>6. PICK b2 : b2 = b1 \o a1
    OBVIOUS
  <2>7. PICK b3 : b3 = b2 \o a2
    OBVIOUS
  <2>8. Seen(p, b2) = q2
    BY <2>1, <2>3, <2>4, <2>5, <2>6, SeenMore
  <2>9. Seen(p, b3) = q3
    BY <2>1, <2>2, <2>4, <2>5, <2>6, <2>7, <2>8, SeenMore
  <2>10. a = b3 \o a3 /\ IsEvents(b3)
    BY <1>6, <2>2, <2>5, <2>6, <2>7
  <2>11. Seen(p, b3 \o a3) = q4
    BY <2>1, <2>4, <2>9, <2>10, SeenMore
  <2>12. IsEvents(b3 \o a3)
    BY <2>1, <2>10, Lists
  <2> QED BY <2>10, <2>11, <2>12
<1>9. /\ Keeps(q1, p, {"url", "userinfo", "referer", "null", "withheld", "phase"})
      /\ q1.url = r.to /\ (q1.userinfo <=> r.userinfo) /\ q1.referer = req.referrer
      /\ ~q1.null /\ ~q1.withheld /\ q1.phase = "asked" /\ ~q1.wrong
  <2>1. /\ Keeps(q1, p, {"url", "userinfo", "referer", "null", "withheld", "phase"})
        /\ q1.url = r.to /\ (q1.userinfo <=> r.userinfo) /\ q1.referer = req.referrer
        /\ ~q1.null /\ ~q1.withheld /\ q1.phase = "asked"
    BY <1>4, <1>7, SawRedirect
  <2> QED BY <2>1 DEF Keeps
<1>10. Keeps(q2, q1, {"userinfo"}) /\ ~q2.userinfo
  <2>1. CASE r.userinfo
    <3>1. q2 = Saw(q1, Ev("UrlCredentialsRemoved", r.to, None))
      BY <1>4, <1>7, <2>1
    <3> QED BY <1>9, <2>1, <3>1, SawUserinfo
  <2>2. CASE ~r.userinfo
    BY <1>7, <1>9, <2>2 DEF Keeps
  <2> QED BY <2>1, <2>2
<1>11. /\ q2.phase = "asked" /\ q2.url = r.to /\ ~q2.wrong /\ q2.method = c.method /\ q2.hand = p.hand
       /\ q2.referer = req.referrer /\ ~q2.null /\ ~q2.withheld /\ (q2.tainted <=> p.tainted)
  BY <1>9, <1>10 DEF Keeps
<1>12. get <=> c.method # d.method
  BY <1>1, <1>2 DEF to_get
<1>13. Keeps(q3, q2, {"method", "hand"}) /\ q3.method = d.method /\ q3.hand = own
  <2>1. CASE get
    <3>1. q3 = Saw(q2, Ev("MethodDowngraded", r.to, d.method)) /\ d.method # q2.method
      BY <1>4, <1>7, <1>11, <1>12, <2>1
    <3>2. Keeps(q3, q2, {"method", "hand"}) /\ q3.method = d.method /\ q3.hand = q2.hand \ BodyHeaders
      BY <1>11, <3>1, SawMethod
    <3> QED BY <1>1, <1>11, <2>1, <3>2
  <2>2. CASE ~get
    <3>1. q3 = q2 /\ d.method = c.method /\ own = p.hand
      BY <1>1, <1>7, <1>12, <2>2
    <3> QED BY <1>11, <3>1 DEF Keeps
  <2> QED BY <2>1, <2>2
<1>14. Keeps(q4, q3, {"hand"}) /\ q4.hand = d.hand
  <2>1. CASE gone # {}
    <3>1. q4 = Saw(q3, Ev("SensitiveHeadersStripped", r.to, gone)) /\ gone \subseteq q3.hand
      BY <1>3, <1>4, <1>7, <1>13, <2>1
    <3>2. ~q3.wrong /\ q3.phase = "asked" /\ q3.url = r.to
      BY <1>11, <1>13 DEF Keeps
    <3>3. Keeps(q4, q3, {"hand"}) /\ q4.hand = q3.hand \ gone
      BY ZenonT(60), <2>1, <3>1, <3>2, SawHeaders
    <3> QED BY <1>3, <1>13, <3>3
  <2>2. CASE gone = {}
    <3>1. q4 = q3 /\ d.hand = own
      BY <1>3, <1>7, <2>2
    <3> QED BY <1>13, <3>1 DEF Keeps
  <2> QED BY <2>1, <2>2
<1>15. /\ q4.phase = "asked" /\ q4.url = r.to /\ ~q4.wrong /\ q4.method = d.method /\ ~q4.userinfo
       /\ q4.referer = req.referrer /\ ~q4.null /\ ~q4.withheld /\ (q4.tainted <=> p.tainted)
  BY <1>10, <1>11, <1>13, <1>14 DEF Keeps
<1>16. Shows(q4, d)
  BY <1>2, <1>14, <1>15 DEF Shows
<1> QED BY <1>2, <1>8, <1>15, <1>16 DEF ShowsEarly, ShowsUnsent

\* The response is the end, or leads to the next hop.
LEMMA SettleTold ==
    ASSUME ReportAssumption, ReportInv, NEW c, NEW r \in Replies, NEW events, Settle(c, r, events),
           IsEvents(events), NEW p, p = Seen(panel, events), Shows(p, c), p.phase = "answered"
    PROVE  ReportInv'
<1>1. PICK told, e, jar, q :
         /\ told = (c.attach /\ r.cookies) /\ e = Ev("on_cookies", c.url, None)
         /\ jar = When(told, e)
         /\ q = IF told THEN Saw(p, e) ELSE p
  OBVIOUS
<1>2. PICK so_far : so_far = events \o jar
  OBVIOUS
<1>3. IsEvents(so_far) /\ Seen(panel, so_far) = q
  <2>1. IsEvents(jar) /\ Seen(p, jar) = q
    BY <1>1, SeenWhen
  <2> QED BY <1>2, <2>1, Lists, SeenMore
<1>4. Keeps(q, p, {"hand"}) /\ q.hand = (IF told THEN c.hand \ {"cookie"} ELSE c.hand) /\ q.phase = "answered"
      /\ ~q.wrong
  <2>1. CASE told
    <3>1. Keeps(q, p, {"hand"}) /\ q.hand = p.hand \ {"cookie"}
      BY <1>1, <2>1, SawAny DEF Shows
    <3> QED BY <2>1, <3>1 DEF Shows, Keeps
  <2>2. CASE ~told
    BY <1>1, <2>2 DEF Shows, Keeps
  <2> QED BY <2>1, <2>2
<1>5. q.url = c.url
  BY <1>4 DEF Shows, Keeps
<1>6. CASE Ended(Append(events, Ev("Failed", c.url, None)))
  <2>1. PICK f, y : f = Ev("Failed", c.url, None) /\ y = Saw(p, f)
    OBVIOUS
  <2>2. Over(y)
    BY <2>1, SawAny DEF Shows
  <2>3. Seen(panel, Append(events, f)) = y
    BY <2>1, SeenAppend
  <2> QED BY <1>6, <2>1, <2>2, <2>3, EndsIn
<1>7. CASE Ended(Append(so_far, Ev("Returned", c.url, None)))
  <2>1. PICK f, y : f = Ev("Returned", c.url, None) /\ y = Saw(q, f)
    OBVIOUS
  <2>2. Keeps(y, q, {"phase"}) /\ y.phase = "over"
    <3>1. ~q.wrong /\ c.url = q.url /\ q.phase = "answered"
      BY <1>4, <1>5
    <3>2. y = Saw(q, Ev("Returned", c.url, None))
      BY <2>1
    <3> QED BY <3>1, <3>2, SawStep, SMTT(30)
  <2>3. Over(y)
    BY <1>4, <2>2 DEF Over, Keeps
  <2>4. Seen(panel, Append(so_far, f)) = y
    BY <1>3, <2>1, SeenAppend
  <2> QED BY <1>7, <2>1, <2>3, <2>4, EndsIn
<1>8. CASE Ended(so_far \o blocked(r.to, "Cors"))
  <2>1. Over(Seen(panel, so_far \o blocked(r.to, "Cors")))
    BY <1>3, <1>4, Reasons, Refused
  <2> QED BY <1>8, <2>1, EndsIn
<1>9. CASE /\ r.to # None /\ chain' = Moved(c, r) /\ stage' = "hop"
           /\ panel' = Seen(panel, so_far \o Redirected(c, r, Moved(c, r)))
           /\ req' = req
  <2>1. PICK d, a, z : d = Moved(c, r) /\ a = Redirected(c, r, d) /\ z = Seen(q, a)
    OBVIOUS
  <2>2. IsUrl(r.to) /\ r.userinfo \in BOOLEAN
    BY <1>9 DEF ReportAssumption, ReplyType, IsUrl
  <2>3. /\ ~q.userinfo /\ IsChain(c) /\ q.method = c.method /\ (q.tainted <=> c.taint_reported)
        /\ c.taint_reported => c.origin_tainted
    BY <1>4 DEF Shows, Keeps
  <2>4. q.hand = IF c.attach /\ r.cookies THEN c.hand \ {"cookie"} ELSE c.hand
    BY <1>1, <1>4
  <2>5. IsEvents(a) /\ Shows(z, d) /\ z.phase = "asked" /\ ShowsEarly(z) /\ ShowsUnsent(z, d)
    BY <1>4, <1>5, <2>1, <2>2, <2>3, <2>4, RedirectShown
  <2>6. panel' = z
    <3>1. panel' = Seen(panel, so_far \o a)
      BY <1>9, <2>1
    <3> QED BY <1>3, <2>1, <2>5, <3>1, SeenMore
  <2>7. chain' = d
    BY <1>9, <2>1
  <2>8. req.credentials \in RequestCredentials
    BY DEF ReportInv
  <2> QED BY <1>9, <2>5, <2>6, <2>7, <2>8 DEF ReportInv, Shows, ShowsEarly, ShowsUnsent
<1>10. \/ Ended(Append(events, Ev("Failed", c.url, None)))
       \/ Ended(Append(so_far, Ev("Returned", c.url, None)))
       \/ Ended(so_far \o blocked(r.to, "Cors"))
       \/ /\ r.to # None /\ chain' = Moved(c, r) /\ stage' = "hop"
          /\ panel' = Seen(panel, so_far \o Redirected(c, r, Moved(c, r)))
          /\ req' = req
  BY <1>1, <1>2, Zenon DEF Settle, Told
<1> QED BY <1>6, <1>7, <1>8, <1>9, <1>10

LEMMA HitTold ==
    ASSUME ReportAssumption, ReportInv, NEW r \in Replies, NEW outcome \in Answering, Hit(r, outcome)
    PROVE  ReportInv'
<1>1. PICK c, a, q : c = WithCredentials(req, chain) /\ a = Withheld(req, c) /\ q = Seen(panel, a)
  OBVIOUS
<1>2. stage = "plan"
  BY DEF Hit
<1>3. IsEvents(a) /\ Shows(q, c) /\ q.phase = "asked"
  BY <1>1, <1>2, Decided
<1>4. PICK e, y : e = Ev(outcome, c.url, None) /\ y = Saw(q, e)
  OBVIOUS
<1>5. ~q.wrong /\ c.url = q.url
  BY <1>3 DEF Shows
<1>6. Keeps(y, q, {"phase"}) /\ y.phase = "answered"
  BY <1>3, <1>4, <1>5, SawStep
<1>7. Shows(y, c)
  BY <1>3, <1>6 DEF Shows, Keeps
<1>8. PICK events : events = Append(a, e)
  OBVIOUS
<1>9. IsEvents(events) /\ y = Seen(panel, events)
  BY <1>1, <1>3, <1>4, <1>8, SeenAppend
<1>10. Settle(c, r, events) \/ Ended(a \o blocked(c.url, "Cors"))
  BY <1>1, <1>4, <1>8, Zenon DEF Hit
<1>11. CASE Settle(c, r, events)
  BY <1>6, <1>7, <1>9, <1>11, SettleTold
<1>12. CASE Ended(a \o blocked(c.url, "Cors"))
  <2>1. Over(Seen(panel, a \o blocked(c.url, "Cors")))
    BY <1>1, <1>3, <1>5, Reasons, Refused
  <2> QED BY <1>12, <2>1, EndsIn
<1> QED BY <1>10, <1>11, <1>12

\* The head of a response.
LEMMA Headed ==
    ASSUME ReportInv, stage = "sent", NEW q, q = Saw(panel, Headers)
    PROVE  Keeps(q, panel, {"phase"}) /\ q.phase = "answered" /\ Shows(q, chain)
<1>1. Shows(panel, chain) /\ panel.phase = "sent"
  BY DEF ReportInv
<1>2. ~panel.wrong /\ chain.url = panel.url
  BY <1>1 DEF Shows
<1>3. q = Saw(panel, Ev("ResponseHeaders", chain.url, None))
  BY DEF Headers
<1>4. Keeps(q, panel, {"phase"}) /\ q.phase = "answered"
  BY <1>1, <1>2, <1>3, SawStep
<1>5. Shows(q, chain)
  BY <1>1, <1>4 DEF Shows, Keeps
<1> QED BY <1>4, <1>5

LEMMA RejectedTold ==
    ASSUME ReportInv, NEW r \in Replies, Rejected(r)
    PROVE  ReportInv'
<1>1. PICK h, q : h = Headers /\ q = Saw(panel, h)
  OBVIOUS
<1>2. Shows(q, chain) /\ q.phase = "answered"
  BY <1>1, Headed DEF Rejected
<1>3. ~q.wrong
  BY <1>2 DEF Shows
<1>4. Ended(<<h, Ev("Failed", chain.url, None)>>) \/ Ended(<<h>> \o blocked(chain.url, "Cors"))
  BY <1>1 DEF Rejected
<1>5. CASE Ended(<<h, Ev("Failed", chain.url, None)>>)
  <2>1. PICK e, y : e = Ev("Failed", chain.url, None) /\ y = Saw(q, e)
    OBVIOUS
  <2>2. Over(y)
    BY <1>2, <1>3, <2>1, SawAny
  <2>3. Seen(panel, <<h, e>>) = y
    BY <1>1, <2>1, SeenPair
  <2> QED BY <1>5, <2>1, <2>2, <2>3, EndsIn
<1>6. CASE Ended(<<h>> \o blocked(chain.url, "Cors"))
  <2>1. PICK a : a = <<h>>
    OBVIOUS
  <2>2. IsEvents(a) /\ Seen(panel, a) = q
    BY <1>1, <2>1, Lists, SeenOne
  <2>3. Over(Seen(panel, a \o blocked(chain.url, "Cors")))
    BY <1>2, <1>3, <2>2, Reasons, Refused
  <2> QED BY <1>6, <2>1, <2>3, EndsIn
<1> QED BY <1>4, <1>5, <1>6

\* The hop is sent once more, as it was.
LEMMA ResentTold ==
    ASSUME ReportInv, stage = "sent", NEW ev, NEW x, ev = "Again" \/ (ev = "AuthRequired" /\ x = TRUE),
           Resent(Ev(ev, chain.url, x))
    PROVE  ReportInv'
<1>1. PICK h, e, f : h = Headers /\ e = Ev(ev, chain.url, x) /\ f = Ev("RequestSent", chain.url, None)
  OBVIOUS
<1>2. PICK q, y, z : q = Saw(panel, h) /\ y = Saw(q, e) /\ z = Saw(y, f)
  OBVIOUS
<1>3. Keeps(q, panel, {"phase"}) /\ q.phase = "answered" /\ Shows(q, chain)
  BY <1>1, <1>2, Headed
<1>4. ~q.wrong /\ chain.url = q.url
  BY <1>3 DEF Shows
<1>5. Keeps(y, q, {"phase"}) /\ y.phase = "again"
  <2>1. CASE ev = "Again"
    BY <1>1, <1>2, <1>3, <1>4, <2>1, SawAny
  <2>2. CASE ev = "AuthRequired" /\ x = TRUE
    <3>1. y = Saw(q, Ev("AuthRequired", chain.url, TRUE))
      BY <1>1, <1>2, <2>2
    <3>2. Keeps(y, q, {"phase"}) /\ y.phase = IF TRUE THEN "again" ELSE "answered"
      BY ZenonT(60), <1>3, <1>4, <3>1, SawStep
    <3> QED BY <3>2
  <2> QED BY <2>1, <2>2
<1>6. ~y.wrong /\ chain.url = y.url
  BY <1>4, <1>5 DEF Keeps
<1>7. Keeps(z, y, {"phase"}) /\ z.phase = "sent"
  BY <1>1, <1>2, <1>5, <1>6, SawStep
<1>8. Keeps(z, panel, {"phase"})
  BY <1>3, <1>5, <1>7 DEF Keeps
<1>9. /\ Shows(panel, chain) /\ ShowsLate(panel, chain) /\ ShowsSent(panel, chain)
      /\ req.credentials \in RequestCredentials /\ panel.phase = "sent" /\ wire = HopRequest(chain)
  BY DEF ReportInv
<1>10. Shows(z, chain) /\ ShowsLate(z, chain) /\ ShowsSent(z, chain)
  BY <1>8, <1>9 DEF Shows, ShowsLate, ShowsSent, Keeps
<1>11. panel' = Seen(panel, <<h, e>> \o <<f>>) /\ wire' = HopRequest(chain) /\ chain' = chain
       /\ req' = req /\ policy' = policy /\ stage' = stage
  BY <1>1 DEF Resent, Told, Sent
<1>12. panel' = z
  <2>1. PICK a : a = <<h, e>>
    OBVIOUS
  <2>2. IsEvents(a) /\ Seen(panel, a) = y
    BY <1>2, <2>1, Lists, SeenPair
  <2> QED BY <1>2, <1>11, <2>1, <2>2, SeenTwo
<1>13. wire' = HopRequest(chain)'
  BY <1>11 DEF HopRequest
<1> QED BY <1>7, <1>9, <1>10, <1>11, <1>12, <1>13 DEF ReportInv, Shows, ShowsLate, ShowsSent

LEMMA RevalidatedTold ==
    ASSUME ReportAssumption, ReportInv, NEW r \in Replies, NEW stored \in Replies, Revalidated(r, stored)
    PROVE  ReportInv'
<1>1. PICK h, e, f : h = Headers /\ e = Ev("Validated", chain.url, None) /\ f = Ev("Again", chain.url, None)
  OBVIOUS
<1>2. stage = "sent" /\ (Resent(f) \/ Settle(chain, stored, <<h, e>>))
  BY <1>1 DEF Revalidated
<1>3. CASE Resent(f)
  BY <1>1, <1>2, <1>3, ResentTold
<1>4. CASE Settle(chain, stored, <<h, e>>)
  <2>1. PICK a, q, y : a = <<h, e>> /\ q = Saw(panel, h) /\ y = Saw(q, e)
    OBVIOUS
  <2>2. q.phase = "answered" /\ Shows(q, chain)
    BY <1>1, <1>2, <2>1, Headed
  <2>3. ~q.wrong /\ chain.url = q.url /\ "Validated" \in Learning
    BY <2>2 DEF Shows, Learning
  <2>4. Keeps(y, q, {})
    BY <1>1, <2>1, <2>2, <2>3, SawStep
  <2>5. Shows(y, chain) /\ y.phase = "answered"
    BY <2>2, <2>4 DEF Shows, Keeps
  <2>6. IsEvents(a) /\ y = Seen(panel, a)
    BY <2>1, Lists, SeenPair
  <2> QED BY <1>4, <2>1, <2>5, <2>6, SettleTold
<1> QED BY <1>2, <1>3, <1>4

LEMMA ChallengedTold ==
    ASSUME ReportAssumption, ReportInv, NEW r \in Replies, Challenged(r)
    PROVE  ReportInv'
<1>1. PICK h, e, f : h = Headers /\ e = Ev("AuthRequired", chain.url, FALSE)
                     /\ f = Ev("AuthRequired", chain.url, TRUE)
  OBVIOUS
<1>2. stage = "sent" /\ (Resent(f) \/ Settle(chain, r, <<h, e>>))
  BY <1>1 DEF Challenged
<1>3. CASE Resent(f)
  BY <1>1, <1>2, <1>3, ResentTold
<1>4. CASE Settle(chain, r, <<h, e>>)
  <2>1. PICK a, q, y : a = <<h, e>> /\ q = Saw(panel, h) /\ y = Saw(q, e)
    OBVIOUS
  <2>2. q.phase = "answered" /\ Shows(q, chain)
    BY <1>1, <1>2, <2>1, Headed
  <2>3. ~q.wrong /\ chain.url = q.url
    BY <2>2 DEF Shows
  <2>4. Keeps(y, q, {"phase"}) /\ y.phase = "answered"
    BY <1>1, <2>1, <2>2, <2>3, SawStep
  <2>5. Shows(y, chain)
    BY <2>2, <2>4 DEF Shows, Keeps
  <2>6. IsEvents(a) /\ y = Seen(panel, a)
    BY <2>1, Lists, SeenPair
  <2> QED BY <1>4, <2>1, <2>4, <2>5, <2>6, SettleTold
<1> QED BY <1>2, <1>3, <1>4

\* What the cache learns changes nothing the panel shows.
LEMMA SeenLearning ==
    ASSUME NEW p, NEW c, Shows(p, c), p.phase = "answered", NEW ev \in Learning, NEW condition,
           NEW q, q = IF condition THEN Saw(p, Ev(ev, c.url, None)) ELSE p
    PROVE  Shows(q, c) /\ q.phase = "answered"
<1>1. ~p.wrong /\ c.url = p.url
  BY DEF Shows
<1>2. CASE condition
  <2>1. q = Saw(p, Ev(ev, c.url, None))
    BY <1>2
  <2>2. Keeps(q, p, {})
    BY ZenonT(60), <1>1, <2>1, SawStep
  <2> QED BY <2>2 DEF Shows, Keeps
<1>3. CASE ~condition
  BY <1>3
<1> QED BY <1>2, <1>3

LEMMA AnsweredTold ==
    ASSUME ReportAssumption, ReportInv, NEW r \in Replies, NEW stored \in BOOLEAN, Answered(r, stored)
    PROVE  ReportInv'
<1>1. PICK h, drops, e, f : /\ h = Headers /\ drops = (policy.cache.store /\ chain.method # "GET")
                            /\ e = Ev("Invalidated", chain.url, None) /\ f = Ev("Stored", chain.url, None)
  OBVIOUS
<1>2. PICK a, b, c : a = <<h>> /\ b = When(drops, e) /\ c = When(stored, f)
  OBVIOUS
<1>3. PICK d : d = a \o b
  OBVIOUS
<1>4. PICK events : events = d \o c
  OBVIOUS
<1>5. stage = "sent" /\ Settle(chain, r, events)
  BY <1>1, <1>2, <1>3, <1>4, Zenon DEF Answered
<1>6. PICK p, q, z : /\ p = Saw(panel, h) /\ q = (IF drops THEN Saw(p, e) ELSE p)
                     /\ z = (IF stored THEN Saw(q, f) ELSE q)
  OBVIOUS
<1>7. p.phase = "answered" /\ Shows(p, chain)
  BY <1>1, <1>5, <1>6, Headed
<1>8. "Invalidated" \in Learning /\ "Stored" \in Learning
  BY DEF Learning
<1>9. q.phase = "answered" /\ Shows(q, chain)
  BY <1>1, <1>6, <1>7, <1>8, SeenLearning
<1>10. z.phase = "answered" /\ Shows(z, chain)
  BY <1>1, <1>6, <1>8, <1>9, SeenLearning
<1>11. IsEvents(a) /\ Seen(panel, a) = p
  BY <1>2, <1>6, Lists, SeenOne
<1>12. IsEvents(b) /\ Seen(p, b) = q /\ IsEvents(c) /\ Seen(q, c) = z
  BY <1>2, <1>6, SeenWhen
<1>13. IsEvents(d) /\ Seen(panel, d) = q
  BY <1>3, <1>11, <1>12, Lists, SeenMore
<1>14. IsEvents(events) /\ z = Seen(panel, events)
  BY <1>4, <1>12, <1>13, Lists, SeenMore
<1> QED BY <1>5, <1>10, <1>14, SettleTold

\* The request as its fetcher takes it.
LEMMA Taken ==
    ASSUME NEW q, RequestType(q), NEW mixed, NEW r, r = [q EXCEPT !.mixed = mixed],
           \A u \in Urls : u = [scheme |-> u.scheme, host |-> u.host, site |-> u.site]
    PROVE  r.credentials \in RequestCredentials /\ IsUrl(r.url)
<1>1. "url" \in DOMAIN q /\ "credentials" \in DOMAIN q
  <2>1. DOMAIN q = DOMAIN builder(q.method, q.url)
    BY DEF RequestType
  <2>2. "url" \in DOMAIN builder(q.method, q.url) /\ "credentials" \in DOMAIN builder(q.method, q.url)
    BY DEF builder
  <2> QED BY <2>1, <2>2
<1>2. r.url = q.url /\ r.credentials = q.credentials
  BY <1>1
<1>3. q.url \in Urls /\ q.credentials \in RequestCredentials
  BY DEF RequestType
<1> QED BY <1>2, <1>3 DEF IsUrl

\* The chain as it starts, and the caller's own request.
LEMMA Starts ==
    ASSUME NEW q, NEW u, NEW c, c = start(q, u)
    PROVE  /\ IsChain(c) /\ c.url = u /\ c.method = q.method /\ c.hand = q.hand \ removed(q)
           /\ ~c.jar /\ ~c.taint_reported
<1>1. PICK kept, secret : kept = q.hand \ removed(q) /\ secret = ("authorization" \in kept)
  OBVIOUS
<1>2. PICK b : b = [url |-> u, method |-> q.method, hand |-> {}, secret |-> FALSE, jar |-> FALSE, before_hsts |-> None,
                    referrer |-> q.referrer, policy |-> q.policy, origin_tainted |-> FALSE, taint_reported |-> FALSE,
                    tainting |-> "basic", origin |-> "none", attach |-> FALSE, redirects |-> 0]
  OBVIOUS
<1>3. c = [b EXCEPT !.hand = kept, !.secret = secret]
  BY <1>1, <1>2, Zenon DEF start, Carrying
<1>4. IsChain(b) /\ b.url = u /\ b.method = q.method /\ b.jar = FALSE /\ b.taint_reported = FALSE
  BY <1>2 DEF IsChain
<1>5. /\ IsChain(c) /\ c.url = b.url /\ c.method = b.method /\ c.hand = kept
      /\ c.jar = b.jar /\ c.taint_reported = b.taint_reported
  BY <1>3, <1>4 DEF IsChain
<1> QED BY <1>1, <1>4, <1>5

LEMMA Accepts ==
    ASSUME NEW q, NEW p, p = Accepted(q)
    PROVE  /\ p.url = q.url /\ (p.userinfo <=> q.userinfo) /\ p.method = q.method /\ p.hand = q.hand
           /\ p.referer = q.referrer /\ ~p.tainted /\ ~p.null /\ ~p.withheld /\ p.phase = "asked" /\ ~p.wrong
<1>1. PICK userinfo : userinfo = q.userinfo
  OBVIOUS
<1>2. p = [url |-> q.url, userinfo |-> userinfo, method |-> q.method, hand |-> q.hand,
           referer |-> q.referrer, tainted |-> FALSE, null |-> FALSE, withheld |-> FALSE,
           phase |-> "asked", wrong |-> FALSE]
  BY <1>1 DEF Accepted
<1>3. p.userinfo = userinfo
  BY <1>2
<1> QED BY <1>1, <1>2, <1>3

LEMMA ReportInvInit ==
    ASSUME ReportAssumption, ReportInit
    PROVE  ReportInv
<1>0. PICK known \in {known_host(policy.transport, req.url), FALSE} :
         LET u       == IF known THEN Upgrade(req.url) ELSE req.url
             checked == hop_checks(policy.transport, req, u)
             bad     == req.origin # None /\ is_forbidden_method(req.method)
             upgrade == When(known, Ev("SecurityUpgraded", req.url, u))
             begin   == <<Ev("Started", u, None)>>
                        \o When(req.userinfo, Ev("UrlCredentialsRemoved", u, None))
                        \o When(removed(req) # {}, Ev("HeadersRemoved", u, removed(req)))
         IN  /\ chain = start(req, u)
             /\ panel = Seen(Accepted(req), upgrade \o
                           IF checked.to = None THEN blocked(u, checked.reason)
                           ELSE begin \o IF bad THEN blocked(u, "ForbiddenMethod") ELSE <<>>)
             /\ stage = IF checked.to = None \/ bad THEN "done" ELSE "hop"
  BY Zenon DEF ReportInit
<1>1. PICK u, checked, bad, gone, events, begin :
         /\ gone = removed(req)
         /\ known => known_host(policy.transport, req.url)
         /\ u = IF known THEN Upgrade(req.url) ELSE req.url
         /\ checked = hop_checks(policy.transport, req, u)
         /\ events = When(known, Ev("SecurityUpgraded", req.url, u))
         /\ begin = <<Ev("Started", u, None)>> \o When(req.userinfo, Ev("UrlCredentialsRemoved", u, None))
                       \o When(gone # {}, Ev("HeadersRemoved", u, gone))
         /\ chain = start(req, u)
         /\ panel = Seen(Accepted(req), events \o
                        IF checked.to = None THEN blocked(u, checked.reason)
                        ELSE begin \o IF bad THEN blocked(u, "ForbiddenMethod") ELSE <<>>)
         /\ stage = IF checked.to = None \/ bad THEN "done" ELSE "hop"
  <2>1. known => known_host(policy.transport, req.url)
    OBVIOUS
  <2> QED BY <1>0, <2>1, ZenonT(60)
<1>2. req.credentials \in RequestCredentials /\ IsUrl(req.url)
  <2>1. PICK q, mixed : q \in Submissions /\ req = [q EXCEPT !.mixed = mixed]
    BY DEF ReportInit
  <2> QED BY <2>1, Taken DEF ReportAssumption
<1>3. PICK p : p = Accepted(req)
  OBVIOUS
<1>4. /\ p.url = req.url /\ (p.userinfo <=> req.userinfo) /\ p.method = req.method /\ p.hand = req.hand
      /\ p.referer = req.referrer /\ ~p.tainted /\ ~p.null /\ ~p.withheld /\ p.phase = "asked" /\ ~p.wrong
  BY <1>3, Accepts
<1>5. IsUrl(u) /\ (known => u # req.url)
  <2>1. CASE known
    <3>1. req.url.scheme = "http"
      BY <1>1, <2>1 DEF known_host
    <3>2. u = Upgrade(req.url) /\ u.scheme = "https"
      BY <1>1, <1>2, <2>1 DEF Upgrade, IsUrl
    <3> QED BY <1>2, <3>1, <3>2, Upgraded
  <2>2. CASE ~known
    BY <1>1, <1>2, <2>2
  <2> QED BY <2>1, <2>2
<1>6. PICK q : q = Seen(p, events)
  OBVIOUS
<1>7. IsEvents(events) /\ Keeps(q, p, {"url"}) /\ q.url = u /\ ~q.wrong /\ q.phase = "asked"
  <2>1. IsEvents(events) /\ q = IF known THEN Saw(p, Ev("SecurityUpgraded", req.url, u)) ELSE p
    BY <1>1, <1>6, SeenWhen
  <2>2. CASE known
    <3>1. u = Upgrade(req.url)
      BY <1>1, <2>2
    <3>2. Keeps(q, p, {"url"}) /\ q.url = u
      BY <1>4, <1>5, <2>1, <2>2, <3>1, SawUpgrade
    <3> QED BY <1>4, <2>1, <3>2 DEF Keeps
  <2>3. CASE ~known
    BY <1>1, <1>4, <2>1, <2>3 DEF Keeps
  <2> QED BY <2>2, <2>3
<1>8. CASE checked.to = None
  <2>1. checked.reason \in BlockReason
    BY <1>1, <1>5, <1>8, GoesTo
  <2>2. panel = Seen(p, events \o blocked(u, checked.reason)) /\ stage = "done"
    BY <1>1, <1>3, <1>8
  <2>3. Over(panel)
    BY <1>6, <1>7, <2>1, <2>2, Refused
  <2> QED BY <1>2, <2>2, <2>3 DEF ReportInv
<1>9. CASE checked.to # None
  <2>1. PICK e1, e2, e3, a1, a2 :
           /\ e1 = Ev("Started", u, None) /\ e2 = Ev("UrlCredentialsRemoved", u, None)
           /\ e3 = Ev("HeadersRemoved", u, gone)
           /\ a1 = When(req.userinfo, e2) /\ a2 = When(gone # {}, e3)
    OBVIOUS
  <2>2. PICK b1 : b1 = <<e1>>
    OBVIOUS
  <2>3. PICK b2 : b2 = b1 \o a1
    OBVIOUS
  <2>4. begin = b2 \o a2
    BY <1>1, <2>1, <2>2, <2>3
  <2>5. PICK q1, q2, q3 : /\ q1 = Saw(q, e1) /\ q2 = (IF req.userinfo THEN Saw(q1, e2) ELSE q1)
                          /\ q3 = (IF gone # {} THEN Saw(q2, e3) ELSE q2)
    OBVIOUS
  <2>6. Keeps(q1, q, {}) /\ ~q1.wrong
    <3>1. Keeps(q1, q, {})
      BY <1>7, <2>1, <2>5, SawStep
    <3> QED BY <1>7, <3>1 DEF Keeps
  <2>7. q1.phase = "asked" /\ q1.url = u /\ (q1.userinfo <=> req.userinfo) /\ q1.hand = req.hand
    BY <1>4, <1>7, <2>6 DEF Keeps
  <2>8. Keeps(q2, q1, {"userinfo"}) /\ ~q2.userinfo
    <3>1. CASE req.userinfo
      <4>1. q2 = Saw(q1, Ev("UrlCredentialsRemoved", u, None))
        BY <2>1, <2>5, <3>1
      <4> QED BY <2>6, <2>7, <3>1, <4>1, SawUserinfo
    <3>2. CASE ~req.userinfo
      BY <2>5, <2>7, <3>2 DEF Keeps
    <3> QED BY <3>1, <3>2
  <2>9. q2.phase = "asked" /\ q2.url = u /\ ~q2.wrong /\ q2.hand = req.hand
    BY <2>6, <2>7, <2>8 DEF Keeps
  <2>10. Keeps(q3, q2, {"hand"}) /\ q3.hand = req.hand \ gone
    <3>1. gone \subseteq req.hand
      BY <1>1 DEF removed
    <3>2. CASE gone # {}
      <4>1. q3 = Saw(q2, Ev("HeadersRemoved", u, gone))
        BY <2>1, <2>5, <3>2
      <4>2. Keeps(q3, q2, {"hand"}) /\ q3.hand = q2.hand \ gone
        BY <2>9, <3>1, <3>2, <4>1, SawHeaders
      <4> QED BY <2>9, <4>2
    <3>3. CASE gone = {}
      <4>1. q3 = q2 /\ req.hand \ gone = req.hand
        BY <2>5, <3>3
      <4> QED BY <2>9, <4>1 DEF Keeps
    <3> QED BY <3>2, <3>3
  <2>11. IsEvents(begin) /\ Seen(q, begin) = q3
    <3>1. IsEvents(b1) /\ Seen(q, b1) = q1
      BY <2>2, <2>5, Lists, SeenOne
    <3>2. IsEvents(a1) /\ Seen(q1, a1) = q2 /\ IsEvents(a2) /\ Seen(q2, a2) = q3
      <4>1. IsEvents(a1) /\ Seen(q1, a1) = q2
        BY <2>1, <2>5, SeenWhen
      <4>2. PICK y : y = q2
        OBVIOUS
      <4>3. IsEvents(a2) /\ Seen(y, a2) = IF gone # {} THEN Saw(y, e3) ELSE y
        BY <2>1, SeenWhen
      <4> QED BY <2>5, <4>1, <4>2, <4>3
    <3>3. IsEvents(b2) /\ Seen(q, b2) = q2
      BY <2>3, <3>1, <3>2, Lists, SeenMore
    <3> QED BY <2>4, <3>2, <3>3, Lists, SeenMore
  <2>12. PICK so_far : so_far = events \o begin
    OBVIOUS
  <2>13. IsEvents(so_far) /\ Seen(p, so_far) = q3
    BY <1>6, <1>7, <2>11, <2>12, Lists, SeenMore
  <2>14. /\ q3.url = u /\ ~q3.userinfo /\ q3.method = req.method /\ q3.hand = req.hand \ gone
         /\ q3.referer = req.referrer /\ ~q3.tainted /\ ~q3.null /\ ~q3.withheld /\ q3.phase = "asked" /\ ~q3.wrong
    BY <1>4, <1>7, <2>6, <2>8, <2>9, <2>10 DEF Keeps
  <2>15. CASE bad
    <3>1. PICK a : a = blocked(u, "ForbiddenMethod")
      OBVIOUS
    <3>2. IsEvents(a) /\ Over(Seen(q3, a))
      BY <2>14, <3>1, Reasons, SeenBlocked
    <3>3. panel = Seen(p, events \o (begin \o a)) /\ stage = "done"
      BY <1>1, <1>3, <1>9, <2>15, <3>1
    <3>4. PICK rest : rest = begin \o a
      OBVIOUS
    <3>5. IsEvents(rest) /\ Seen(q, rest) = Seen(q3, a)
      BY <2>11, <3>2, <3>4, Lists, SeenMore
    <3>6. panel = Seen(q3, a)
      BY <1>6, <1>7, <3>3, <3>4, <3>5, SeenMore
    <3> QED BY <1>2, <3>2, <3>3, <3>6 DEF ReportInv
  <2>16. CASE ~bad
    <3>1. PICK none : none = <<>>
      OBVIOUS
    <3>2. IsEvents(none) /\ Seen(q3, none) = q3
      BY <3>1, Lists, SeenNone
    <3>3. panel = Seen(p, events \o (begin \o none)) /\ stage = "hop"
      BY <1>1, <1>3, <1>9, <2>16, <3>1
    <3>4. PICK rest : rest = begin \o none
      OBVIOUS
    <3>5. IsEvents(rest) /\ Seen(q, rest) = q3
      BY <2>11, <3>2, <3>4, Lists, SeenMore
    <3>6. panel = q3
      BY <1>6, <1>7, <3>3, <3>4, <3>5, SeenMore
    <3>7. /\ IsChain(chain) /\ chain.url = u /\ chain.method = req.method /\ chain.hand = req.hand \ gone
          /\ ~chain.jar /\ ~chain.taint_reported
      BY <1>1, Starts
    <3>8. Shows(panel, chain)
      BY <1>5, <2>14, <3>6, <3>7 DEF Shows
    <3>9. panel.phase = "asked" /\ ShowsEarly(panel) /\ ShowsUnsent(panel, chain)
      BY <2>14, <3>6, <3>7 DEF ShowsEarly, ShowsUnsent
    <3> QED BY <1>2, <3>3, <3>8, <3>9 DEF ReportInv
  <2> QED BY <2>15, <2>16
<1> QED BY <1>8, <1>9

LEMMA ReportInvNext ==
    ASSUME ReportAssumption, ReportInv, [ReportNext]_reportVars
    PROVE  ReportInv'
<1>1. CASE \E ev \in {"Failed", "Cancelled"} : Fails(ev)
  BY <1>1, FailsTold
<1>2. CASE TooManyRedirects
  BY <1>2, FailsTold
<1>3. CASE secure_url
  BY <1>3, SecureTold
<1>4. CASE Regime
  BY <1>4, RegimeTold
<1>5. CASE Preflight
  BY <1>5, PreflightTold
<1>6. CASE Send
  BY <1>6, SendTold
<1>7. ASSUME NEW r \in Replies, NEW outcome \in Answering, Hit(r, outcome)
      PROVE  ReportInv'
  BY <1>7, HitTold
<1>8. ASSUME NEW r \in Replies, Rejected(r)
      PROVE  ReportInv'
  BY <1>8, RejectedTold
<1>9. ASSUME NEW r \in Replies, Challenged(r)
      PROVE  ReportInv'
  BY <1>9, ChallengedTold
<1>10. ASSUME NEW r \in Replies, NEW stored \in Replies, Revalidated(r, stored)
       PROVE  ReportInv'
  BY <1>10, RevalidatedTold
<1>11. ASSUME NEW r \in Replies, NEW stored \in BOOLEAN, Answered(r, stored)
       PROVE  ReportInv'
  BY <1>11, AnsweredTold
<1>12. CASE UNCHANGED reportVars
  BY <1>12 DEF reportVars, ReportInv, Over, Shows, ShowsEarly, ShowsLate, ShowsUnsent, ShowsSent, HopRequest
<1> QED BY <1>1, <1>2, <1>3, <1>4, <1>5, <1>6, <1>7, <1>8, <1>9, <1>10, <1>11, <1>12 DEF ReportNext

\* What the panel shows is what was sent.
LEMMA ReportInvTells ==
    ASSUME ReportInv
    PROVE  EveryChangeTold
<1>1. ~panel.wrong /\ (stage = "done" => panel.phase = "over")
  BY DEF ReportInv, Over, Shows
<1>2. CASE stage = "sent"
  <2>1. /\ Shows(panel, chain) /\ ShowsLate(panel, chain) /\ ShowsSent(panel, chain)
        /\ wire = HopRequest(chain)
    BY <1>2 DEF ReportInv
  <2>2. PICK jar : jar = chain.jar
    OBVIOUS
  <2>3. wire = [url |-> chain.url, method |-> chain.method, hand |-> chain.hand, referer |-> chain.referrer,
                origin |-> chain.origin, jar |-> jar]
    BY <2>1, <2>2 DEF HopRequest
  <2>4. /\ wire.url = chain.url /\ wire.method = chain.method /\ wire.hand = chain.hand
        /\ wire.referer = chain.referrer /\ wire.origin = chain.origin /\ wire.jar = jar
    BY <2>3
  <2>5. wire.jar <=> chain.jar
    BY <2>2, <2>4
  <2> QED BY <1>1, <2>1, <2>4, <2>5 DEF EveryChangeTold, Shows, ShowsLate, ShowsSent
<1>3. CASE stage # "sent"
  BY <1>1, <1>3 DEF EveryChangeTold
<1> QED BY <1>2, <1>3

\* An observer that knows the caller's request, its own jar and the events knows every request
\* that is sent: each change a policy made was told in its place, and nothing else was
\* (net/events.rs).
THEOREM ChangesAreTold == ASSUME ReportAssumption PROVE ReportSpec => []EveryChangeTold
<1>1. ReportInit => ReportInv
  BY ReportInvInit
<1>2. ReportInv /\ [ReportNext]_reportVars => ReportInv'
  BY ReportInvNext
<1>3. ReportInv => EveryChangeTold
  BY ReportInvTells
<1> QED BY <1>1, <1>2, <1>3, PTL DEF ReportSpec
=============================================================================
