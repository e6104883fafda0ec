-------------------------- MODULE CoalescingProofs -------------------------
(***************************************************************************)
(* Proofs about Coalescing, for every number of requests, keys and runs:   *)
(* a fetch somebody reads is never cancelled by the callers that leave,    *)
(* nobody is handed a cancellation that is not its own, and every caller   *)
(* is answered at most once and only as module FetchPromise allows.        *)
(*                                                                         *)
(* The heart of the invariant is CountExact: sub_count is the number of    *)
(* the requests that joined the fetch and whose watcher has not counted    *)
(* them out.  Between a caller's answer and its watcher's decrement it     *)
(* still counts, which is why a count of zero means that nobody listens.   *)
(***************************************************************************)
EXTENDS Coalescing, FiniteSetTheorems, TLAPS

\* A request the loop has not taken.
Fresh(r) == pc[r] \in {"new", "queued", "refused"}

\* A request that is not taken has joined nothing, and its entry is not in use.
FreshUnused ==
    \A r \in Requests : Fresh(r) =>
        /\ entryOf[r] = None /\ watch[r] = "none"
        /\ ~fired[r] /\ subs[r] = 0 /\ listeners[r] = {}
        /\ phase[r] = "none" /\ result[r] = None /\ body[r] = "none"

\* A request that is taken belongs to the entry of one that is, of the same run.
TakenJoined ==
    \A r \in Requests : ~Fresh(r) =>
        /\ entryOf[r] \in Requests /\ ~Fresh(entryOf[r])
        /\ runOf[r] = runOf[entryOf[r]] /\ runOf[r] \in Runs /\ runOf[r] <= run

\* Where the loop stands.
LoopAt ==
    /\ loop \in {"joined", "lead", "refusing"} => cur \in Requests /\ ~Fresh(cur)
    /\ loop = "joined" => pc[cur] = "joined"
    /\ \A r \in Requests : pc[r] = "joined" => watch[r] = "none"

\* Who still listens has no answer; "caller" is the answer of a watcher.
AnswersMatch ==
    /\ \A e, r \in Requests : r \in listeners[e] => entryOf[r] = e /\ answer[r] = None
    /\ \A r \in Requests :
          /\ answer[r] = "caller" => watch[r] \in {"dec", "fire", "detach", "gone"}
          /\ watch[r] \in {"dec", "fire"} => answer[r] = "caller"
          /\ pc[r] \in {"new", "queued"} => answer[r] = None

\* Runs before the present one were shut down, and so is one that stops.
RunsInOrder ==
    /\ \A g \in Runs : g < run => g \in down
    /\ loop \in {"stopping", "ended"} => run \in down
    /\ stopped => down # {}

\* A fetch reports an abort only when it was cancelled.
AbortedIsCancelled ==
    \A e \in Requests : result[e] = "aborted" \/ body[e] = "aborted" => IsCancelled(e)

\* A task that is over has a result, and it is never a caller's own.
ResultsKnown ==
    \A e \in Requests :
        /\ result[e] \notin {"caller", "shutdown"}
        /\ phase[e] \in {"over", "removed", "collecting"} => result[e] # None

\* The requests that count for e: those that joined it and were not counted out by
\* their watcher.
Counted(e) == {r \in Requests : entryOf[r] = e /\ (answer[r] = "caller" => watch[r] = "dec")}

\* sub_count is the number of these, and parent_cancel fires only at zero.
CountExact ==
    \A e \in Requests : IsFiniteSet(Counted(e)) /\ subs[e] = Cardinality(Counted(e))
FiredAtZero ==
    \A e \in Requests :
        fired[e] \/ (\E r \in Requests : watch[r] = "fire" /\ entryOf[r] = e) => subs[e] = 0

Shape == FreshUnused /\ TakenJoined /\ LoopAt /\ AnswersMatch
CoalInv ==
    /\ TypeOK /\ Shape /\ RunsInOrder /\ ResultsKnown /\ AbortedIsCancelled
    /\ CountExact /\ FiredAtZero /\ NoForeignCancel

-----------------------------------------------------------------------------
(* The initial state.                                                      *)

\* Every initial state satisfies the inductive invariant.
LEMMA InitInv == Init => CoalInv
<1> SUFFICES ASSUME Init PROVE CoalInv
  OBVIOUS
<1> USE CoalescingAssumption DEF CoalescingAssumption
<1>1. /\ stopped \in BOOLEAN /\ fired \in [Requests -> BOOLEAN] /\ wants \in [Requests -> BOOLEAN]
      /\ mode \in [Requests -> BOOLEAN] /\ hasEnd \in [Requests -> BOOLEAN]
  BY Zenon DEF Init
<1>2. TypeOK
  BY <1>1 DEF Init, TypeOK, Runs, Answers
<1>3. Shape /\ RunsInOrder /\ ResultsKnown /\ AbortedIsCancelled /\ NoForeignCancel /\ FiredAtZero
  BY DEF Init, Shape, FreshUnused, TakenJoined, LoopAt, AnswersMatch, RunsInOrder,
         ResultsKnown, AbortedIsCancelled, NoForeignCancel, FiredAtZero, Fresh, Runs
<1>4. CountExact
  <2> SUFFICES ASSUME NEW e \in Requests
               PROVE  IsFiniteSet(Counted(e)) /\ subs[e] = Cardinality(Counted(e))
    BY DEF CountExact
  <2>1. Counted(e) = {}
    BY DEF Init, Counted
  <2>2. QED
    BY <2>1, FS_EmptySet DEF Init
<1>5. QED
  BY <1>2, <1>3, <1>4 DEF CoalInv

-----------------------------------------------------------------------------
(* Counting.                                                               *)

\* Who joined e and was not sent the answer to its own cancellation counts for e, so e
\* is not cancelled.
LEMMA CountsFor ==
    ASSUME CoalInv, NEW e \in Requests, NEW r \in Requests, entryOf[r] = e,
           answer[r] = "caller" => watch[r] = "dec"
    PROVE  subs[e] \in Nat /\ subs[e] > 0 /\ ~fired[e]
<1>1. IsFiniteSet(Counted(e)) /\ subs[e] = Cardinality(Counted(e)) /\ r \in Counted(e)
  BY DEF CoalInv, CountExact, Counted
<1>2. subs[e] \in Nat /\ subs[e] # 0
  BY <1>1, FS_CardinalityType, FS_EmptySet
<1>3. subs[e] > 0
  BY <1>2
<1>4. ~fired[e]
  BY <1>2 DEF CoalInv, FiredAtZero
<1> QED
  BY <1>2, <1>3, <1>4

\* A step after which the same requests count keeps the counts.
LEMMA CountsKept ==
    ASSUME CoalInv, UNCHANGED <<entryOf, subs, fired>>,
           \A r \in Requests : (answer'[r] = "caller" => watch'[r] = "dec")
                                <=> (answer[r] = "caller" => watch[r] = "dec"),
           \A r \in Requests : watch'[r] = "fire" => watch[r] = "fire"
    PROVE  CountExact' /\ FiredAtZero'
<1>1. \A e \in Requests : Counted(e)' = Counted(e)
  BY DEF Counted
<1>2. CountExact'
  BY <1>1 DEF CountExact, CoalInv
<1>3. FiredAtZero'
  BY DEF FiredAtZero, CoalInv
<1> QED
  BY <1>2, <1>3

\* watch_cancel on one request: a listener is taken out and answered, and will be counted
\* out; anybody else only detaches.
Watched(r) ==
    /\ watch[r] = "watching" /\ r \in token /\ ~Fresh(r) /\ entryOf[r] \in Requests
    /\ UNCHANGED <<taskSide, subs, fired, wants, lifeVars>>
    /\ \/ /\ r \in listeners[entryOf[r]] /\ answer[r] = None
          /\ listeners' = [listeners EXCEPT ![entryOf[r]] = @ \ {r}]
          /\ Send({r}, "caller") /\ answer' = [answer EXCEPT ![r] = "caller"]
          /\ watch' = [watch EXCEPT ![r] = "dec"]
       \/ /\ r \notin listeners[entryOf[r]]
          /\ UNCHANGED <<listeners, answer>>
          /\ watch' = [watch EXCEPT ![r] = "detach"]

\* Waiter::cancel does one of the two, from every state of the invariant.
LEMMA WatchCancel ==
    ASSUME CoalInv, NEW r \in Requests, watch_cancel(r)
    PROVE  Watched(r)
<1> USE DEF Watched
<1>1. watch[r] = "watching" /\ r \in token /\ UNCHANGED <<taskSide, subs, fired, wants, lifeVars>>
  BY DEF watch_cancel
<1>2. ~Fresh(r) /\ entryOf[r] \in Requests
  BY <1>1 DEF CoalInv, Shape, FreshUnused, TakenJoined
<1>3. CASE r \in listeners[entryOf[r]]
  <2>1. /\ listeners' = [listeners EXCEPT ![entryOf[r]] = @ \ {r}] /\ Send({r}, "caller")
        /\ watch' = [watch EXCEPT ![r] = "dec"]
    BY <1>3 DEF watch_cancel
  <2>2. answer' = [answer EXCEPT ![r] = "caller"]
    BY <2>1 DEF Send, CoalInv, TypeOK
  <2>3. answer[r] = None
    BY <1>2, <1>3 DEF CoalInv, Shape, AnswersMatch
  <2> QED
    BY <1>1, <1>2, <1>3, <2>1, <2>2, <2>3
<1>4. CASE r \notin listeners[entryOf[r]]
  <2>1. UNCHANGED <<listeners, answer>> /\ watch' = [watch EXCEPT ![r] = "detach"]
    BY <1>4 DEF watch_cancel
  <2> QED
    BY <1>1, <1>2, <1>4, <2>1
<1> QED
  BY <1>3, <1>4

\* join_inflight: the request follows the entry it finds, or leads a new one.
Joined(r) ==
    /\ pc[r] = "queued" /\ entryOf[r] = None /\ watch[r] = "none" /\ answer[r] = None
    /\ pc' = [pc EXCEPT ![r] = "joined"] /\ runOf' = [runOf EXCEPT ![r] = run]
    /\ loop' = "joined" /\ cur' = r
    /\ UNCHANGED <<answer, token, dropped, watch, run, down, stopped, fired, mode, result,
                   body, life, attached, hasEnd>>
    /\ \E e \in Requests :
          /\ entryOf' = [entryOf EXCEPT ![r] = e]
          /\ subs' = [subs EXCEPT ![e] = @ + 1]
          /\ listeners' = [listeners EXCEPT ![e] = @ \cup {r}]
          /\ \/ e # r /\ ~Fresh(e) /\ ~IsCancelled(e) /\ subs[e] > 0
                /\ UNCHANGED <<map, wants, phase>>
             \/ e = r /\ phase' = [phase EXCEPT ![r] = "new"]
                /\ map' = [map EXCEPT ![KeyOf[r]] = r]
                /\ wants' = [wants EXCEPT ![r] = (r \in Streaming)]

\* join_inflight does one of the two, and following needs a live entry (try_inc_sub).
LEMMA Join ==
    ASSUME CoalInv, NEW r \in Requests, join_inflight(r)
    PROVE  Joined(r)
<1> USE DEF Joined
<1> DEFINE e == map[KeyOf[r]]
<1>1. /\ pc[r] = "queued" /\ pc' = [pc EXCEPT ![r] = "joined"]
      /\ runOf' = [runOf EXCEPT ![r] = run] /\ loop' = "joined" /\ cur' = r
      /\ UNCHANGED <<answer, token, dropped, watch, run, down, stopped, fired, mode, result,
                     body, life, attached, hasEnd>>
  BY DEF join_inflight, lifeVars
<1>2. /\ Fresh(r) /\ entryOf[r] = None /\ watch[r] = "none" /\ answer[r] = None
      /\ subs[r] = 0 /\ listeners[r] = {}
  BY <1>1 DEF CoalInv, Shape, FreshUnused, AnswersMatch, Fresh
<1>3. CASE try_inc_sub(e)
  <2>1. e # None /\ ~IsCancelled(e) /\ subs[e] > 0
    BY <1>3 DEF try_inc_sub
  <2>2. e \in Requests
    BY <2>1, CoalescingAssumption DEF CoalescingAssumption, CoalInv, TypeOK
  <2>3. ~Fresh(e) /\ e # r
    BY <1>2, <2>1, <2>2 DEF CoalInv, Shape, FreshUnused
  <2>4. Follow(r, e)
    BY <1>3 DEF join_inflight
  <2> QED
    BY <1>1, <1>2, <2>1, <2>2, <2>3, <2>4 DEF Follow
<1>4. CASE ~try_inc_sub(e)
  <2>1. Lead(r)
    BY <1>4 DEF join_inflight
  <2>2. subs' = [subs EXCEPT ![r] = @ + 1] /\ listeners' = [listeners EXCEPT ![r] = @ \cup {r}]
    BY <1>2, <2>1 DEF Lead, first_subscriber
  <2> QED
    BY <1>1, <1>2, <2>1, <2>2 DEF Lead
<1> QED
  BY <1>3, <1>4

\* Joining adds one request to what counts for one entry, and to its sub_count.
LEMMA JoinCounts ==
    ASSUME CoalInv, NEW r \in Requests, NEW e \in Requests, entryOf[r] = None, answer[r] = None,
           watch[r] = "none", ~fired[e] /\ ~\E u \in Requests : watch[u] = "fire" /\ entryOf[u] = e,
           entryOf' = [entryOf EXCEPT ![r] = e], UNCHANGED <<answer, watch, fired>>,
           subs' = [subs EXCEPT ![e] = @ + 1]
    PROVE  CountExact' /\ FiredAtZero'
<1>1. /\ entryOf \in [Requests -> Requests \cup {None}] /\ subs \in [Requests -> Nat]
      /\ None \notin Requests /\ None # "caller"
  BY CoalescingAssumption DEF CoalescingAssumption, CoalInv, TypeOK
<1>2. Counted(e)' = Counted(e) \cup {r} /\ r \notin Counted(e)
  BY <1>1 DEF Counted
<1>3. \A f \in Requests \ {e} : Counted(f)' = Counted(f)
  BY <1>1 DEF Counted
<1>4. IsFiniteSet(Counted(e)) /\ subs[e] = Cardinality(Counted(e))
  BY DEF CoalInv, CountExact
<1>5. IsFiniteSet(Counted(e)') /\ Cardinality(Counted(e)') = Cardinality(Counted(e)) + 1
  BY <1>2, <1>4, FS_AddElement
<1>6. CountExact'
  BY <1>1, <1>3, <1>4, <1>5 DEF CountExact, CoalInv
<1>7. FiredAtZero'
  BY <1>1 DEF FiredAtZero, CoalInv
<1> QED
  BY <1>6, <1>7

\* A follower is counted in under the entry's lock, a leader counts one.
LEMMA JoinStep ==
    ASSUME CoalInv, NEW r \in Requests, join_inflight(r)
    PROVE  CountExact' /\ FiredAtZero'
<1>1. /\ entryOf[r] = None /\ answer[r] = None /\ watch[r] = "none" /\ Fresh(r)
      /\ UNCHANGED <<answer, watch, fired>>
  BY Join DEF Joined, Fresh
<1>2. PICK e \in Requests :
        /\ entryOf' = [entryOf EXCEPT ![r] = e] /\ subs' = [subs EXCEPT ![e] = @ + 1]
        /\ e = r \/ subs[e] > 0
  BY Join DEF Joined
<1>3. ~fired[e] /\ ~\E u \in Requests : watch[u] = "fire" /\ entryOf[u] = e
  <2>1. CASE e = r
    BY <1>1, <2>1, CoalescingAssumption
    DEF CoalescingAssumption, CoalInv, Shape, FreshUnused, TakenJoined
  <2>2. CASE subs[e] > 0
    BY <2>2 DEF CoalInv, TypeOK, FiredAtZero
  <2> QED
    BY <1>2, <2>1, <2>2
<1> QED
  BY <1>1, <1>2, <1>3, JoinCounts

\* join_inflight keeps the types.
LEMMA JoinType ==
    ASSUME CoalInv, NEW r \in Requests, join_inflight(r)
    PROVE  TypeOK'
<1> USE DEF TypeOK
<1>1. TypeOK /\ KeyOf[r] \in Keys
  BY CoalescingAssumption DEF CoalescingAssumption, CoalInv
<1>2. /\ pc' \in [Requests -> {"new", "queued", "joined", "accepted", "refused"}]
      /\ runOf' \in [Requests -> Runs \cup {0}] /\ cur' \in Requests /\ loop' = "joined"
      /\ UNCHANGED <<answer, token, dropped, watch, run, down, stopped, fired, mode, result, body,
                     life, attached, hasEnd>>
  BY <1>1, Join DEF Joined
<1>3. PICK e \in Requests :
        /\ entryOf' = [entryOf EXCEPT ![r] = e] /\ subs' = [subs EXCEPT ![e] = @ + 1]
        /\ listeners' = [listeners EXCEPT ![e] = @ \cup {r}]
        /\ \/ UNCHANGED <<map, wants, phase>>
           \/ /\ phase' = [phase EXCEPT ![r] = "new"] /\ map' = [map EXCEPT ![KeyOf[r]] = r]
              /\ wants' = [wants EXCEPT ![r] = (r \in Streaming)]
  BY Join DEF Joined
<1>4. wants' \in [Requests -> BOOLEAN]
  <2>1. CASE UNCHANGED wants
    BY <1>1, <2>1
  <2>2. CASE wants' = [wants EXCEPT ![r] = (r \in Streaming)] /\ r \in Streaming
    <3>1. wants' = [wants EXCEPT ![r] = TRUE]
      BY <2>2
    <3> QED
      BY <1>1, <3>1
  <2>3. CASE wants' = [wants EXCEPT ![r] = (r \in Streaming)] /\ r \notin Streaming
    <3>1. (r \in Streaming) = FALSE
      BY <2>3
    <3>2. wants' = [wants EXCEPT ![r] = FALSE]
      BY <2>3, <3>1, Zenon
    <3> QED
      BY <1>1, <3>2
  <2> QED
    BY <1>3, <2>1, <2>2, <2>3
<1>5. /\ map' \in [Keys -> Requests \cup {None}] /\ entryOf' \in [Requests -> Requests \cup {None}]
      /\ subs' \in [Requests -> Nat] /\ listeners' \in [Requests -> SUBSET Requests]
      /\ phase' \in [Requests -> {"none", "new", "waiting", "performing", "over", "removed",
                                   "collecting", "finished"}]
  BY <1>1, <1>3
<1> QED
  BY <1>1, <1>2, <1>4, <1>5

\* A watcher counts its request out, and goes on to cancel if it was the last.
LEMMA DecCounts ==
    ASSUME CoalInv, NEW r \in Requests, watch_dec(r)
    PROVE  CountExact' /\ FiredAtZero' /\ TypeOK'
<1> USE DEF CoalInv, TypeOK
<1> DEFINE e == entryOf[r]
<1>1. e \in Requests /\ answer[r] = "caller" /\ watch[r] = "dec"
  BY DEF watch_dec, Shape, TakenJoined, FreshUnused, Fresh, AnswersMatch
<1>2. subs[e] \in Nat /\ subs[e] > 0 /\ ~fired[e]
  BY <1>1, CountsFor
<1>3. /\ watch' = [watch EXCEPT ![r] = IF subs[e] = 1 THEN "fire" ELSE "detach"]
      /\ subs' = [subs EXCEPT ![e] = @ - 1]
      /\ UNCHANGED <<answer, entryOf, fired>>
  BY DEF watch_dec, taskSide
<1>4. Counted(e)' = Counted(e) \ {r} /\ r \in Counted(e)
  BY <1>1, <1>3 DEF Counted
<1>5. \A f \in Requests \ {e} : Counted(f)' = Counted(f)
  BY <1>1, <1>3 DEF Counted
<1>6. IsFiniteSet(Counted(e)') /\ Cardinality(Counted(e)') = Cardinality(Counted(e)) - 1
  BY <1>1, <1>4, FS_RemoveElement DEF CountExact
<1>7. CountExact'
  BY <1>1, <1>3, <1>5, <1>6 DEF CountExact
<1>8. FiredAtZero'
  <2> SUFFICES ASSUME NEW f \in Requests,
                      fired'[f] \/ \E u \in Requests : watch'[u] = "fire" /\ entryOf'[u] = f
               PROVE  subs'[f] = 0
    BY DEF FiredAtZero
  <2>1. CASE f # e
    BY <1>1, <1>3, <2>1 DEF FiredAtZero
  <2>2. CASE f = e
    <3>1. ~\E u \in Requests : watch[u] = "fire" /\ entryOf[u] = e
      BY <1>1, <1>2 DEF FiredAtZero
    <3>2. subs[e] = 1
      BY <1>1, <1>2, <1>3, <2>2, <3>1
    <3> QED
      BY <1>1, <1>3, <2>2, <3>2
  <2> QED
    BY <2>1, <2>2
<1>9. /\ subs' \in [Requests -> Nat]
      /\ watch' \in [Requests -> {"none", "watching", "dec", "fire", "detach", "gone"}]
  BY <1>1, <1>2, <1>3
<1>10. TypeOK'
  BY <1>9 DEF watch_dec, taskSide, loopVars, taskVars, lifeVars
<1> QED
  BY <1>7, <1>8, <1>10

-----------------------------------------------------------------------------
(* The steps, one part of the invariant at a time.                        *)

\* What a request that is not taken, and one that is, look like.
LEMMA StepFresh ==
    ASSUME CoalInv, [Next]_vars PROVE FreshUnused' /\ TakenJoined'
<1> /\ TypeOK /\ Shape /\ RunsInOrder /\ ResultsKnown /\ AbortedIsCancelled
    /\ CountExact /\ FiredAtZero /\ NoForeignCancel
  BY DEF CoalInv
<1> USE CoalescingAssumption DEF CoalescingAssumption, TypeOK, Shape, FreshUnused,
    TakenJoined, LoopAt, Fresh, IsCancelled, RunsInOrder, Runs, callerVars, loopVars,
    entryVars, taskVars, lifeVars, callerSide, taskSide
<1>1. ASSUME NEW r \in Requests, submit(r) PROVE FreshUnused' /\ TakenJoined'
  BY <1>1 DEF submit, Send
<1>2. ASSUME NEW r \in Requests, Cancel(r) PROVE FreshUnused' /\ TakenJoined'
  BY <1>2 DEF Cancel
<1>3. ASSUME NEW r \in Requests, DropStream(r) PROVE FreshUnused' /\ TakenJoined'
  BY <1>3 DEF DropStream
<1>4. CASE Shutdown
  BY <1>4 DEF Shutdown
<1>5. CASE Restart
  BY <1>5 DEF Restart
<1>6. CASE CheckShutdown
  BY <1>6 DEF CheckShutdown
<1>7. CASE NoWork
  BY <1>7 DEF NoWork
<1>8. CASE stop_queue
  BY <1>8 DEF stop_queue, Send
<1>9. CASE accept
  BY <1>9 DEF accept, attach
<1>10. CASE refuse
  BY <1>10 DEF refuse, EndEvent
<1>11. CASE refused
  BY <1>11 DEF refused
<1>12. CASE spawn_fetch
  BY <1>12 DEF spawn_fetch
<1>13. ASSUME NEW r \in Requests, join_inflight(r) PROVE FreshUnused' /\ TakenJoined'
  <2>0. Joined(r)
    BY <1>13, Join
  <2>1. /\ Fresh(r) /\ entryOf[r] = None /\ run \in Runs /\ runOf' = [runOf EXCEPT ![r] = run]
        /\ pc' = [pc EXCEPT ![r] = "joined"] /\ UNCHANGED <<run, watch, fired, result, body>>
    BY <2>0 DEF Joined
  <2>2. PICK e \in Requests :
          /\ entryOf' = [entryOf EXCEPT ![r] = e] /\ subs' = [subs EXCEPT ![e] = @ + 1]
          /\ listeners' = [listeners EXCEPT ![e] = @ \cup {r}]
          /\ \/ e # r /\ ~Fresh(e) /\ ~IsCancelled(e) /\ UNCHANGED phase
             \/ e = r /\ phase' = [phase EXCEPT ![r] = "new"]
    BY <2>0 DEF Joined
  <2>3. FreshUnused'
    BY <2>1, <2>2
  <2>4. CASE e = r
    BY <2>1, <2>2, <2>3, <2>4
  <2>5. CASE e # r
    <3>1. runOf[e] \in 1..MaxRuns /\ run \in 1..MaxRuns /\ runOf[e] <= run
      BY <2>1, <2>2, <2>5
    <3>2. ~(runOf[e] < run)
      BY <2>2, <2>5, <3>1
    <3>3. \A i, j \in Int : i <= j /\ ~(i < j) => i = j
      OBVIOUS
    <3>4. runOf[e] \in Int /\ run \in Int
      BY <3>1
    <3>5. runOf[e] = run
      BY <3>1, <3>2, <3>3, <3>4, Zenon
    <3> QED
      BY <2>1, <2>2, <2>3, <2>5, <3>5
  <2> QED
    BY <2>4, <2>5
<1>14. ASSUME NEW r \in Requests, Acquire(r) PROVE FreshUnused' /\ TakenJoined'
  BY <1>14 DEF Acquire
<1>15. ASSUME NEW r \in Requests, Aborted(r) PROVE FreshUnused' /\ TakenJoined'
  BY <1>15 DEF Aborted, Over, EndEvent
<1>16. ASSUME NEW r \in Requests, perform_buffered(r) PROVE FreshUnused' /\ TakenJoined'
  BY <1>16 DEF perform_buffered, Over, EndEvent
<1>17. ASSUME NEW r \in Requests, perform_streaming(r) PROVE FreshUnused' /\ TakenJoined'
  BY <1>17 DEF perform_streaming
<1>18. ASSUME NEW r \in Requests, remove_if(r) PROVE FreshUnused' /\ TakenJoined'
  BY <1>18 DEF remove_if
<1>19. ASSUME NEW r \in Requests, finish(r) PROVE FreshUnused' /\ TakenJoined'
  BY <1>19 DEF finish, Send, Served
<1>20. ASSUME NEW r \in Requests, finish_collected(r) PROVE FreshUnused' /\ TakenJoined'
  BY <1>20 DEF finish_collected, Send
<1>21. ASSUME NEW r \in Requests, BodyEnds(r) PROVE FreshUnused' /\ TakenJoined'
  BY <1>21 DEF BodyEnds, EndEvent
<1>22. ASSUME NEW r \in Requests, watch_cancel(r) PROVE FreshUnused' /\ TakenJoined'
  <2>1. Watched(r)
    BY <1>22, WatchCancel
  <2> QED
    BY <2>1 DEF Watched
<1>23. ASSUME NEW r \in Requests, watch_dec(r) PROVE FreshUnused' /\ TakenJoined'
  BY <1>23 DEF watch_dec
<1>24. ASSUME NEW r \in Requests, watch_fire(r) PROVE FreshUnused' /\ TakenJoined'
  BY <1>24 DEF watch_fire
<1>25. ASSUME NEW r \in Requests, watch_detach(r) PROVE FreshUnused' /\ TakenJoined'
  BY <1>25 DEF watch_detach
<1>26. ASSUME NEW r \in Requests, watch_ended(r) PROVE FreshUnused' /\ TakenJoined'
  BY <1>26 DEF watch_ended
<1>27. CASE UNCHANGED vars
  BY <1>27 DEF vars
<1> QED
  BY <1>1, <1>2, <1>3, <1>4, <1>5, <1>6, <1>7, <1>8, <1>9, <1>10, <1>11, <1>12, <1>13,
     <1>14, <1>15, <1>16, <1>17, <1>18, <1>19, <1>20, <1>21, <1>22, <1>23, <1>24, <1>25,
     <1>26, <1>27 DEF Next, Loop, Cleanup, Network, Watcher

\* Answers and listeners.
LEMMA StepAnswers ==
    ASSUME CoalInv, [Next]_vars PROVE AnswersMatch' /\ LoopAt'
<1> /\ TypeOK /\ Shape /\ RunsInOrder /\ ResultsKnown /\ AbortedIsCancelled
    /\ CountExact /\ FiredAtZero /\ NoForeignCancel
  BY DEF CoalInv
<1> USE CoalescingAssumption DEF CoalescingAssumption, TypeOK, Shape, FreshUnused,
    TakenJoined, LoopAt, AnswersMatch, Fresh, ResultsKnown, callerVars, loopVars, entryVars,
    taskVars, lifeVars, callerSide, taskSide
<1>1. ASSUME NEW r \in Requests, submit(r) PROVE AnswersMatch' /\ LoopAt'
  BY <1>1 DEF submit, Send
<1>2. ASSUME NEW r \in Requests, Cancel(r) PROVE AnswersMatch' /\ LoopAt'
  BY <1>2 DEF Cancel
<1>3. ASSUME NEW r \in Requests, DropStream(r) PROVE AnswersMatch' /\ LoopAt'
  BY <1>3 DEF DropStream
<1>4. CASE Shutdown
  BY <1>4 DEF Shutdown
<1>5. CASE Restart
  BY <1>5 DEF Restart
<1>6. CASE CheckShutdown
  BY <1>6 DEF CheckShutdown
<1>7. CASE NoWork
  BY <1>7 DEF NoWork
<1>8. CASE stop_queue
  BY <1>8 DEF stop_queue, Send
<1>9. CASE accept
  BY <1>9 DEF accept, attach
<1>10. CASE refuse
  BY <1>10 DEF refuse, EndEvent
<1>11. CASE refused
  BY <1>11 DEF refused
<1>12. CASE spawn_fetch
  BY <1>12 DEF spawn_fetch
<1>13. ASSUME NEW r \in Requests, join_inflight(r) PROVE AnswersMatch' /\ LoopAt'
  <2>1. Joined(r)
    BY <1>13, Join
  <2> QED
    BY <2>1 DEF Joined
<1>14. ASSUME NEW r \in Requests, Acquire(r) PROVE AnswersMatch' /\ LoopAt'
  BY <1>14 DEF Acquire
<1>15. ASSUME NEW r \in Requests, Aborted(r) PROVE AnswersMatch' /\ LoopAt'
  BY <1>15 DEF Aborted, Over, EndEvent
<1>16. ASSUME NEW r \in Requests, perform_buffered(r) PROVE AnswersMatch' /\ LoopAt'
  BY <1>16 DEF perform_buffered, Over, EndEvent
<1>17. ASSUME NEW r \in Requests, perform_streaming(r) PROVE AnswersMatch' /\ LoopAt'
  BY <1>17 DEF perform_streaming
<1>18. ASSUME NEW r \in Requests, remove_if(r) PROVE AnswersMatch' /\ LoopAt'
  BY <1>18 DEF remove_if
<1>19. ASSUME NEW r \in Requests, finish(r) PROVE AnswersMatch' /\ LoopAt'
  <2>1. /\ Served(r) \subseteq listeners[r] /\ result[r] # "caller"
        /\ answer' = [u \in Requests |-> IF u \in Served(r) THEN result[r] ELSE answer[u]]
        /\ listeners' = [listeners EXCEPT ![r] = @ \ Served(r)]
        /\ UNCHANGED <<pc, watch, entryOf, loop, cur>>
    BY <1>19 DEF finish, Send, Served
  <2>2. LoopAt'
    BY <2>1
  <2>3. AnswersMatch'
    BY <2>1
  <2> QED
    BY <2>2, <2>3
<1>20. ASSUME NEW r \in Requests, finish_collected(r) PROVE AnswersMatch' /\ LoopAt'
  BY <1>20 DEF finish_collected, Send
<1>21. ASSUME NEW r \in Requests, BodyEnds(r) PROVE AnswersMatch' /\ LoopAt'
  BY <1>21 DEF BodyEnds, EndEvent
<1>22. ASSUME NEW r \in Requests, watch_cancel(r) PROVE AnswersMatch' /\ LoopAt'
  <2>1. Watched(r)
    BY <1>22, WatchCancel
  <2>2. /\ watch[r] = "watching" /\ entryOf[r] \in Requests
        /\ UNCHANGED <<pc, entryOf, loop, cur>>
    BY <2>1 DEF Watched
  <2>3. CASE r \in listeners[entryOf[r]]
    <3>1. /\ listeners' = [listeners EXCEPT ![entryOf[r]] = @ \ {r}]
          /\ answer' = [answer EXCEPT ![r] = "caller"]
          /\ watch' = [watch EXCEPT ![r] = "dec"]
      BY <2>1, <2>3 DEF Watched
    <3>2. LoopAt'
      BY <2>2, <3>1
    <3>3. \A e, u \in Requests : u \in listeners'[e] => entryOf'[u] = e /\ answer'[u] = None
      BY <2>2, <3>1
    <3>4. \A u \in Requests :
             /\ answer'[u] = "caller" => watch'[u] \in {"dec", "fire", "detach", "gone"}
             /\ watch'[u] \in {"dec", "fire"} => answer'[u] = "caller"
             /\ pc'[u] \in {"new", "queued"} => answer'[u] = None
      BY <2>2, <3>1
    <3> QED
      BY <3>2, <3>3, <3>4
  <2>4. CASE r \notin listeners[entryOf[r]]
    <3>1. UNCHANGED <<listeners, answer>> /\ watch' = [watch EXCEPT ![r] = "detach"]
      BY <2>1, <2>4 DEF Watched
    <3>2. LoopAt'
      BY <2>2, <3>1
    <3>3. AnswersMatch'
      BY <2>2, <3>1
    <3> QED
      BY <3>2, <3>3
  <2> QED
    BY <2>3, <2>4
<1>23. ASSUME NEW r \in Requests, watch_dec(r) PROVE AnswersMatch' /\ LoopAt'
  BY <1>23 DEF watch_dec
<1>24. ASSUME NEW r \in Requests, watch_fire(r) PROVE AnswersMatch' /\ LoopAt'
  BY <1>24 DEF watch_fire
<1>25. ASSUME NEW r \in Requests, watch_detach(r) PROVE AnswersMatch' /\ LoopAt'
  BY <1>25 DEF watch_detach
<1>26. ASSUME NEW r \in Requests, watch_ended(r) PROVE AnswersMatch' /\ LoopAt'
  BY <1>26 DEF watch_ended
<1>27. CASE UNCHANGED vars
  BY <1>27 DEF vars
<1> QED
  BY <1>1, <1>2, <1>3, <1>4, <1>5, <1>6, <1>7, <1>8, <1>9, <1>10, <1>11, <1>12, <1>13,
     <1>14, <1>15, <1>16, <1>17, <1>18, <1>19, <1>20, <1>21, <1>22, <1>23, <1>24, <1>25,
     <1>26, <1>27 DEF Next, Loop, Cleanup, Network, Watcher

\* Runs follow one another, and what a fetch has to show for itself.
LEMMA StepRuns ==
    ASSUME CoalInv, [Next]_vars PROVE RunsInOrder' /\ ResultsKnown' /\ AbortedIsCancelled'
<1> /\ TypeOK /\ Shape /\ RunsInOrder /\ ResultsKnown /\ AbortedIsCancelled
    /\ CountExact /\ FiredAtZero /\ NoForeignCancel
  BY DEF CoalInv
<1> USE CoalescingAssumption DEF CoalescingAssumption, TypeOK, Shape, RunsInOrder,
    ResultsKnown, AbortedIsCancelled, FreshUnused, TakenJoined, Fresh, IsCancelled, Runs,
    callerVars, loopVars, entryVars, taskVars, lifeVars, callerSide, taskSide
<1>1. ASSUME NEW r \in Requests, submit(r)
      PROVE  RunsInOrder' /\ ResultsKnown' /\ AbortedIsCancelled'
  BY <1>1 DEF submit, Send
<1>2. ASSUME NEW r \in Requests, Cancel(r)
      PROVE  RunsInOrder' /\ ResultsKnown' /\ AbortedIsCancelled'
  BY <1>2 DEF Cancel
<1>3. ASSUME NEW r \in Requests, DropStream(r)
      PROVE  RunsInOrder' /\ ResultsKnown' /\ AbortedIsCancelled'
  BY <1>3 DEF DropStream
<1>4. CASE Shutdown
  BY <1>4 DEF Shutdown
<1>5. CASE Restart
  <2>1. /\ run \in 1..MaxRuns /\ run' = run + 1 /\ run \in down /\ loop' = "top"
        /\ stopped' = FALSE /\ UNCHANGED <<down, fired, runOf, result, body, phase>>
    BY <1>5 DEF Restart
  <2>2. \A k \in 1..MaxRuns : k < run + 1 => k < run \/ k = run
    BY <2>1
  <2>3. ASSUME NEW k \in Runs, k < run' PROVE k \in down'
    <3>1. k \in 1..MaxRuns /\ k < run + 1
      BY <2>1, <2>3
    <3>2. k < run \/ k = run
      BY <2>2, <3>1
    <3> QED
      BY <2>1, <3>1, <3>2
  <2>4. RunsInOrder'
    BY <2>1, <2>3
  <2>5. ResultsKnown' /\ AbortedIsCancelled'
    BY <2>1
  <2> QED
    BY <2>4, <2>5
<1>6. CASE CheckShutdown
  BY <1>6 DEF CheckShutdown
<1>7. CASE NoWork
  BY <1>7 DEF NoWork
<1>8. CASE stop_queue
  BY <1>8 DEF stop_queue, Send
<1>9. CASE accept
  BY <1>9 DEF accept, attach
<1>10. CASE refuse
  BY <1>10 DEF refuse, EndEvent
<1>11. CASE refused
  BY <1>11 DEF refused
<1>12. CASE spawn_fetch
  BY <1>12 DEF spawn_fetch
<1>13. ASSUME NEW r \in Requests, join_inflight(r)
      PROVE  RunsInOrder' /\ ResultsKnown' /\ AbortedIsCancelled'
  BY <1>13 DEF join_inflight, Follow, Lead, first_subscriber, try_inc_sub
<1>14. ASSUME NEW r \in Requests, Acquire(r)
      PROVE  RunsInOrder' /\ ResultsKnown' /\ AbortedIsCancelled'
  BY <1>14 DEF Acquire
<1>15. ASSUME NEW r \in Requests, Aborted(r)
      PROVE  RunsInOrder' /\ ResultsKnown' /\ AbortedIsCancelled'
  BY <1>15 DEF Aborted, Over, EndEvent
<1>16. ASSUME NEW r \in Requests, perform_buffered(r)
      PROVE  RunsInOrder' /\ ResultsKnown' /\ AbortedIsCancelled'
  BY <1>16 DEF perform_buffered, Over, EndEvent
<1>17. ASSUME NEW r \in Requests, perform_streaming(r)
      PROVE  RunsInOrder' /\ ResultsKnown' /\ AbortedIsCancelled'
  BY <1>17 DEF perform_streaming
<1>18. ASSUME NEW r \in Requests, remove_if(r)
      PROVE  RunsInOrder' /\ ResultsKnown' /\ AbortedIsCancelled'
  BY <1>18 DEF remove_if
<1>19. ASSUME NEW r \in Requests, finish(r)
      PROVE  RunsInOrder' /\ ResultsKnown' /\ AbortedIsCancelled'
  BY <1>19 DEF finish, Send, Served
<1>20. ASSUME NEW r \in Requests, finish_collected(r)
      PROVE  RunsInOrder' /\ ResultsKnown' /\ AbortedIsCancelled'
  BY <1>20 DEF finish_collected, Send
<1>21. ASSUME NEW r \in Requests, BodyEnds(r)
      PROVE  RunsInOrder' /\ ResultsKnown' /\ AbortedIsCancelled'
  BY <1>21 DEF BodyEnds, EndEvent
<1>22. ASSUME NEW r \in Requests, watch_cancel(r)
      PROVE  RunsInOrder' /\ ResultsKnown' /\ AbortedIsCancelled'
  BY <1>22 DEF watch_cancel, Send
<1>23. ASSUME NEW r \in Requests, watch_dec(r)
      PROVE  RunsInOrder' /\ ResultsKnown' /\ AbortedIsCancelled'
  BY <1>23 DEF watch_dec
<1>24. ASSUME NEW r \in Requests, watch_fire(r)
      PROVE  RunsInOrder' /\ ResultsKnown' /\ AbortedIsCancelled'
  BY <1>24 DEF watch_fire
<1>25. ASSUME NEW r \in Requests, watch_detach(r)
      PROVE  RunsInOrder' /\ ResultsKnown' /\ AbortedIsCancelled'
  BY <1>25 DEF watch_detach
<1>26. ASSUME NEW r \in Requests, watch_ended(r)
      PROVE  RunsInOrder' /\ ResultsKnown' /\ AbortedIsCancelled'
  BY <1>26 DEF watch_ended
<1>27. CASE UNCHANGED vars
  BY <1>27 DEF vars
<1> QED
  BY <1>1, <1>2, <1>3, <1>4, <1>5, <1>6, <1>7, <1>8, <1>9, <1>10, <1>11, <1>12, <1>13,
     <1>14, <1>15, <1>16, <1>17, <1>18, <1>19, <1>20, <1>21, <1>22, <1>23, <1>24, <1>25,
     <1>26, <1>27 DEF Next, Loop, Cleanup, Network, Watcher

\* Every step keeps the count exact, and fires only at zero.
LEMMA StepCount ==
    ASSUME CoalInv, [Next]_vars PROVE CountExact' /\ FiredAtZero'
<1> /\ TypeOK /\ Shape /\ RunsInOrder /\ ResultsKnown /\ AbortedIsCancelled
    /\ CountExact /\ FiredAtZero /\ NoForeignCancel
  BY DEF CoalInv
<1> USE CoalescingAssumption DEF CoalescingAssumption, TypeOK, Shape, AnswersMatch,
    LoopAt, FreshUnused, TakenJoined, Fresh, ResultsKnown, callerVars, loopVars, entryVars,
    taskVars, lifeVars, callerSide, taskSide
<1>1. ASSUME NEW r \in Requests, submit(r) PROVE CountExact' /\ FiredAtZero'
  BY <1>1, CountsKept DEF submit, Send
<1>2. ASSUME NEW r \in Requests, Cancel(r) PROVE CountExact' /\ FiredAtZero'
  BY <1>2, CountsKept DEF Cancel
<1>3. ASSUME NEW r \in Requests, DropStream(r) PROVE CountExact' /\ FiredAtZero'
  BY <1>3, CountsKept DEF DropStream
<1>4. CASE Shutdown
  BY <1>4, CountsKept DEF Shutdown
<1>5. CASE Restart
  BY <1>5, CountsKept DEF Restart
<1>6. CASE CheckShutdown
  BY <1>6, CountsKept DEF CheckShutdown
<1>7. CASE NoWork
  BY <1>7, CountsKept DEF NoWork
<1>8. CASE stop_queue
  BY <1>8, CountsKept DEF stop_queue, Send
<1>9. CASE accept
  BY <1>9, CountsKept DEF accept, attach
<1>10. CASE refuse
  BY <1>10, CountsKept DEF refuse, EndEvent
<1>11. CASE refused
  BY <1>11, CountsKept DEF refused
<1>12. CASE spawn_fetch
  BY <1>12, CountsKept DEF spawn_fetch
<1>13. ASSUME NEW r \in Requests, join_inflight(r) PROVE CountExact' /\ FiredAtZero'
  BY <1>13, JoinStep
<1>14. ASSUME NEW r \in Requests, Acquire(r) PROVE CountExact' /\ FiredAtZero'
  BY <1>14, CountsKept DEF Acquire
<1>15. ASSUME NEW r \in Requests, Aborted(r) PROVE CountExact' /\ FiredAtZero'
  BY <1>15, CountsKept DEF Aborted, Over, EndEvent
<1>16. ASSUME NEW r \in Requests, perform_buffered(r) PROVE CountExact' /\ FiredAtZero'
  BY <1>16, CountsKept DEF perform_buffered, Over, EndEvent
<1>17. ASSUME NEW r \in Requests, perform_streaming(r) PROVE CountExact' /\ FiredAtZero'
  BY <1>17, CountsKept DEF perform_streaming
<1>18. ASSUME NEW r \in Requests, remove_if(r) PROVE CountExact' /\ FiredAtZero'
  BY <1>18, CountsKept DEF remove_if
<1>19. ASSUME NEW r \in Requests, finish(r) PROVE CountExact' /\ FiredAtZero'
  <2>1. /\ Served(r) \subseteq listeners[r] /\ result[r] # "caller"
        /\ answer' = [u \in Requests |-> IF u \in Served(r) THEN result[r] ELSE answer[u]]
        /\ UNCHANGED <<watch, entryOf, subs, fired>>
    BY <1>19 DEF finish, Send, Served
  <2> QED
    BY <2>1, CountsKept
<1>20. ASSUME NEW r \in Requests, finish_collected(r) PROVE CountExact' /\ FiredAtZero'
  BY <1>20, CountsKept DEF finish_collected, Send
<1>21. ASSUME NEW r \in Requests, BodyEnds(r) PROVE CountExact' /\ FiredAtZero'
  BY <1>21, CountsKept DEF BodyEnds, EndEvent
<1>22. ASSUME NEW r \in Requests, watch_cancel(r) PROVE CountExact' /\ FiredAtZero'
  <2>1. Watched(r)
    BY <1>22, WatchCancel
  <2> QED
    BY <2>1, CountsKept DEF Watched
<1>23. ASSUME NEW r \in Requests, watch_dec(r) PROVE CountExact' /\ FiredAtZero'
  BY <1>23, DecCounts
<1>24. ASSUME NEW r \in Requests, watch_fire(r) PROVE CountExact' /\ FiredAtZero'
  <2>1. /\ entryOf[r] \in Requests /\ subs[entryOf[r]] = 0
        /\ fired' = [fired EXCEPT ![entryOf[r]] = TRUE] /\ watch' = [watch EXCEPT ![r] = "detach"]
        /\ answer[r] = "caller" /\ watch[r] = "fire" /\ UNCHANGED <<answer, entryOf, subs>>
    BY <1>24 DEF watch_fire, FiredAtZero
  <2>2. \A e \in Requests : Counted(e)' = Counted(e)
    BY <2>1 DEF Counted
  <2>3. CountExact'
    BY <2>1, <2>2 DEF CountExact
  <2>4. FiredAtZero'
    BY <2>1 DEF FiredAtZero
  <2> QED
    BY <2>3, <2>4
<1>25. ASSUME NEW r \in Requests, watch_detach(r) PROVE CountExact' /\ FiredAtZero'
  BY <1>25, CountsKept DEF watch_detach
<1>26. ASSUME NEW r \in Requests, watch_ended(r) PROVE CountExact' /\ FiredAtZero'
  BY <1>26, CountsKept DEF watch_ended
<1>27. CASE UNCHANGED vars
  BY <1>27, CountsKept DEF vars
<1> QED
  BY <1>1, <1>2, <1>3, <1>4, <1>5, <1>6, <1>7, <1>8, <1>9, <1>10, <1>11, <1>12, <1>13,
     <1>14, <1>15, <1>16, <1>17, <1>18, <1>19, <1>20, <1>21, <1>22, <1>23, <1>24, <1>25,
     <1>26, <1>27 DEF Next, Loop, Cleanup, Network, Watcher

\* The variables keep their types; that sub_count stays a natural is the count's doing.
LEMMA StepType ==
    ASSUME CoalInv, [Next]_vars PROVE TypeOK'
<1> /\ TypeOK /\ Shape /\ RunsInOrder /\ ResultsKnown /\ AbortedIsCancelled
    /\ CountExact /\ FiredAtZero /\ NoForeignCancel
  BY DEF CoalInv
<1> USE CoalescingAssumption DEF CoalescingAssumption, TypeOK, Answers, Runs, Shape,
    LoopAt, TakenJoined, FreshUnused, Fresh, callerVars, loopVars, entryVars, taskVars,
    lifeVars, callerSide, taskSide
<1>1. ASSUME NEW r \in Requests, submit(r) PROVE TypeOK'
  <2>1. /\ answer' \in [Requests -> Answers \cup {None}]
        /\ pc' \in [Requests -> {"new", "queued", "joined", "accepted", "refused"}]
    <3>1. CASE stopped
      BY <1>1, <3>1 DEF submit, Send
    <3>2. CASE ~stopped
      BY <1>1, <3>2 DEF submit
    <3> QED
      BY <3>1, <3>2
  <2> QED
    BY <1>1, <2>1 DEF submit
<1>2. ASSUME NEW r \in Requests, Cancel(r) PROVE TypeOK'
  BY <1>2 DEF Cancel
<1>3. ASSUME NEW r \in Requests, DropStream(r) PROVE TypeOK'
  BY <1>3 DEF DropStream
<1>4. CASE Shutdown
  BY <1>4 DEF Shutdown
<1>5. CASE Restart
  <2>1. run' \in Runs
    BY <1>5 DEF Restart
  <2>2. stopped' \in BOOLEAN
    BY <1>5, Zenon DEF Restart
  <2> QED
    BY <1>5, <2>1, <2>2 DEF Restart
<1>6. CASE CheckShutdown
  BY <1>6 DEF CheckShutdown
<1>7. CASE NoWork
  BY <1>7 DEF NoWork
<1>8. CASE stop_queue
  BY <1>8 DEF stop_queue, Send
<1>9. CASE accept
  <2>1. cur \in Requests /\ entryOf[cur] \in Requests
    BY <1>9 DEF accept
  <2>2. /\ life' \in [Requests -> {"none", "open", "ended"}]
        /\ attached' \in [Requests -> SUBSET Requests]
    <3>1. attach(cur, entryOf[cur])
      BY <1>9, Zenon DEF accept
    <3>2. CASE hasEnd[entryOf[cur]]
      BY <2>1, <3>1, <3>2 DEF attach
    <3>3. CASE ~hasEnd[entryOf[cur]]
      BY SMTT(30), <2>1, <3>1, <3>3 DEF attach
    <3> QED
      BY <3>2, <3>3
  <2>3. wants' \in [Requests -> BOOLEAN]
    <3>1. (wants[entryOf[cur]] \/ cur \in Streaming) \in BOOLEAN
      BY Zenon
    <3>2. wants' = [wants EXCEPT ![entryOf[cur]] = wants[entryOf[cur]] \/ cur \in Streaming]
      BY <1>9 DEF accept
    <3> QED
      BY <3>1, <3>2, <2>1
  <2>4. watch' \in [Requests -> {"none", "watching", "dec", "fire", "detach", "gone"}]
    BY <1>9 DEF accept
  <2>5. pc' \in [Requests -> {"new", "queued", "joined", "accepted", "refused"}]
    BY <1>9 DEF accept
  <2>6. /\ loop' \in {"top", "pick", "joined", "lead", "refusing", "stopping", "ended"}
        /\ cur' \in Requests \cup {None}
    BY <1>9, <2>1 DEF accept
  <2>7. UNCHANGED <<answer, token, dropped, entryOf, runOf, run, down, stopped, map, subs,
                    fired, listeners, phase, mode, result, body, hasEnd>>
    BY <1>9 DEF accept
  <2> QED
    BY <2>2, <2>3, <2>4, <2>5, <2>6, <2>7
<1>10. CASE refuse
  BY <1>10 DEF refuse, EndEvent
<1>11. CASE refused
  BY <1>11 DEF refused
<1>12. CASE spawn_fetch
  BY <1>12 DEF spawn_fetch
<1>13. ASSUME NEW r \in Requests, join_inflight(r) PROVE TypeOK'
  BY <1>13, JoinType
<1>14. ASSUME NEW r \in Requests, Acquire(r) PROVE TypeOK'
  BY <1>14 DEF Acquire
<1>15. ASSUME NEW r \in Requests, Aborted(r) PROVE TypeOK'
  BY <1>15 DEF Aborted, Over, EndEvent
<1>16. ASSUME NEW r \in Requests, perform_buffered(r) PROVE TypeOK'
  BY <1>16 DEF perform_buffered, Over, EndEvent
<1>17. ASSUME NEW r \in Requests, perform_streaming(r) PROVE TypeOK'
  BY <1>17 DEF perform_streaming
<1>18. ASSUME NEW r \in Requests, remove_if(r) PROVE TypeOK'
  BY <1>18 DEF remove_if
<1>19. ASSUME NEW r \in Requests, finish(r) PROVE TypeOK'
  BY <1>19 DEF finish, Send, Served
<1>20. ASSUME NEW r \in Requests, finish_collected(r) PROVE TypeOK'
  BY <1>20 DEF finish_collected, Send
<1>21. ASSUME NEW r \in Requests, BodyEnds(r) PROVE TypeOK'
  BY <1>21 DEF BodyEnds, EndEvent
<1>22. ASSUME NEW r \in Requests, watch_cancel(r) PROVE TypeOK'
  <2>1. /\ answer' \in [Requests -> Answers \cup {None}]
        /\ listeners' \in [Requests -> SUBSET Requests]
        /\ watch' \in [Requests -> {"none", "watching", "dec", "fire", "detach", "gone"}]
    <3>1. Watched(r)
      BY <1>22, WatchCancel
    <3>2. CASE r \in listeners[entryOf[r]]
      <4>1. /\ listeners' = [listeners EXCEPT ![entryOf[r]] = @ \ {r}]
            /\ answer' = [answer EXCEPT ![r] = "caller"]
            /\ watch' = [watch EXCEPT ![r] = "dec"]
        BY <3>1, <3>2 DEF Watched
      <4> QED
        BY <4>1
    <3>3. CASE r \notin listeners[entryOf[r]]
      <4>1. UNCHANGED <<listeners, answer>> /\ watch' = [watch EXCEPT ![r] = "detach"]
        BY <3>1, <3>3 DEF Watched
      <4> QED
        BY <4>1
    <3> QED
      BY <3>2, <3>3
  <2> QED
    BY <1>22, <2>1 DEF watch_cancel
<1>23. ASSUME NEW r \in Requests, watch_dec(r) PROVE TypeOK'
  BY <1>23, DecCounts
<1>24. ASSUME NEW r \in Requests, watch_fire(r) PROVE TypeOK'
  BY <1>24 DEF watch_fire
<1>25. ASSUME NEW r \in Requests, watch_detach(r) PROVE TypeOK'
  BY <1>25 DEF watch_detach
<1>26. ASSUME NEW r \in Requests, watch_ended(r) PROVE TypeOK'
  BY <1>26 DEF watch_ended
<1>27. CASE UNCHANGED vars
  BY <1>27 DEF vars
<1> QED
  BY <1>1, <1>2, <1>3, <1>4, <1>5, <1>6, <1>7, <1>8, <1>9, <1>10, <1>11, <1>12, <1>13,
     <1>14, <1>15, <1>16, <1>17, <1>18, <1>19, <1>20, <1>21, <1>22, <1>23, <1>24, <1>25,
     <1>26, <1>27 DEF Next, Loop, Cleanup, Network, Watcher

\* Who listens to a fetch that was aborted is of a run that was shut down: had the last
\* subscriber's leaving cancelled it, nobody would listen.
LEMMA ListenersOfAborted ==
    ASSUME CoalInv, NEW e \in Requests, NEW r \in listeners[e], IsCancelled(e)
    PROVE  runOf[r] \in down
<1>1. r \in Requests /\ entryOf[r] = e /\ answer[r] = None
  BY DEF CoalInv, TypeOK, Shape, AnswersMatch
<1>2. answer[r] # "caller"
  BY <1>1, CoalescingAssumption DEF CoalescingAssumption
<1>3. ~fired[e]
  BY <1>1, <1>2, CountsFor
<1>4. runOf[e] \in down
  BY <1>3 DEF IsCancelled
<1>5. runOf[r] = runOf[e]
  BY <1>1, CoalescingAssumption DEF CoalescingAssumption, CoalInv, Shape, FreshUnused, TakenJoined
<1> QED
  BY <1>4, <1>5

\* Nobody is handed a cancellation of somebody else.
LEMMA StepForeign ==
    ASSUME CoalInv, [Next]_vars PROVE NoForeignCancel'
<1> /\ TypeOK /\ Shape /\ RunsInOrder /\ ResultsKnown /\ AbortedIsCancelled
    /\ CountExact /\ FiredAtZero /\ NoForeignCancel
  BY DEF CoalInv
<1> USE CoalescingAssumption DEF CoalescingAssumption, TypeOK, NoForeignCancel, Shape,
    AnswersMatch, FreshUnused, Fresh, ResultsKnown, callerVars, loopVars, entryVars,
    taskVars, lifeVars, callerSide, taskSide
<1>1. ASSUME NEW r \in Requests, submit(r) PROVE NoForeignCancel'
  BY <1>1 DEF submit, Send
<1>2. ASSUME NEW r \in Requests, Cancel(r) PROVE NoForeignCancel'
  BY <1>2 DEF Cancel
<1>3. ASSUME NEW r \in Requests, DropStream(r) PROVE NoForeignCancel'
  BY <1>3 DEF DropStream
<1>4. CASE Shutdown
  BY <1>4 DEF Shutdown
<1>5. CASE Restart
  BY <1>5 DEF Restart
<1>6. CASE CheckShutdown
  BY <1>6 DEF CheckShutdown
<1>7. CASE NoWork
  BY <1>7 DEF NoWork
<1>8. CASE stop_queue
  BY <1>8 DEF stop_queue, Send
<1>9. CASE accept
  BY <1>9 DEF accept, attach
<1>10. CASE refuse
  BY <1>10 DEF refuse, EndEvent
<1>11. CASE refused
  BY <1>11 DEF refused
<1>12. CASE spawn_fetch
  BY <1>12 DEF spawn_fetch
<1>13. ASSUME NEW r \in Requests, join_inflight(r) PROVE NoForeignCancel'
  <2>1. Joined(r)
    BY <1>13, Join
  <2> QED
    BY <2>1 DEF Joined
<1>14. ASSUME NEW r \in Requests, Acquire(r) PROVE NoForeignCancel'
  BY <1>14 DEF Acquire
<1>15. ASSUME NEW r \in Requests, Aborted(r) PROVE NoForeignCancel'
  BY <1>15 DEF Aborted, Over, EndEvent
<1>16. ASSUME NEW r \in Requests, perform_buffered(r) PROVE NoForeignCancel'
  BY <1>16 DEF perform_buffered, Over, EndEvent
<1>17. ASSUME NEW r \in Requests, perform_streaming(r) PROVE NoForeignCancel'
  BY <1>17 DEF perform_streaming
<1>18. ASSUME NEW r \in Requests, remove_if(r) PROVE NoForeignCancel'
  BY <1>18 DEF remove_if
<1>19. ASSUME NEW r \in Requests, finish(r) PROVE NoForeignCancel'
  <2>1. /\ Served(r) \subseteq listeners[r] /\ UNCHANGED <<runOf, down>>
        /\ answer' = [u \in Requests |-> IF u \in Served(r) THEN result[r] ELSE answer[u]]
    BY <1>19 DEF finish, Send, Served
  <2>2. ASSUME NEW u \in Served(r), result[r] = "aborted" PROVE runOf[u] \in down
    BY <2>1, <2>2, ListenersOfAborted DEF AbortedIsCancelled
  <2> QED
    BY <2>1, <2>2
<1>20. ASSUME NEW r \in Requests, finish_collected(r) PROVE NoForeignCancel'
  <2>1. PICK a \in {"buffered", "error", "aborted"} :
              (a = "aborted" => body[r] = "aborted") /\ Send(listeners[r], a)
    BY <1>20 DEF finish_collected
  <2>2. UNCHANGED <<runOf, down>>
    BY <1>20 DEF finish_collected
  <2>3. ASSUME NEW u \in listeners[r], a = "aborted" PROVE runOf[u] \in down
    BY <2>1, <2>3, ListenersOfAborted DEF AbortedIsCancelled
  <2> QED
    BY <2>1, <2>2, <2>3 DEF Send
<1>21. ASSUME NEW r \in Requests, BodyEnds(r) PROVE NoForeignCancel'
  BY <1>21 DEF BodyEnds, EndEvent
<1>22. ASSUME NEW r \in Requests, watch_cancel(r) PROVE NoForeignCancel'
  <2>1. Watched(r)
    BY <1>22, WatchCancel
  <2> QED
    BY <2>1 DEF Watched
<1>23. ASSUME NEW r \in Requests, watch_dec(r) PROVE NoForeignCancel'
  BY <1>23 DEF watch_dec
<1>24. ASSUME NEW r \in Requests, watch_fire(r) PROVE NoForeignCancel'
  BY <1>24 DEF watch_fire
<1>25. ASSUME NEW r \in Requests, watch_detach(r) PROVE NoForeignCancel'
  BY <1>25 DEF watch_detach
<1>26. ASSUME NEW r \in Requests, watch_ended(r) PROVE NoForeignCancel'
  BY <1>26 DEF watch_ended
<1>27. CASE UNCHANGED vars
  BY <1>27 DEF vars
<1> QED
  BY <1>1, <1>2, <1>3, <1>4, <1>5, <1>6, <1>7, <1>8, <1>9, <1>10, <1>11, <1>12, <1>13,
     <1>14, <1>15, <1>16, <1>17, <1>18, <1>19, <1>20, <1>21, <1>22, <1>23, <1>24, <1>25,
     <1>26, <1>27 DEF Next, Loop, Cleanup, Network, Watcher

-----------------------------------------------------------------------------
(* The invariant, and what follows from it.                                *)

\* CoalInv is an invariant: it holds initially and every step keeps it.
LEMMA Invariant == Spec => []CoalInv
<1>1. CoalInv /\ [Next]_vars => CoalInv'
  <2> SUFFICES ASSUME CoalInv, [Next]_vars PROVE CoalInv'
    OBVIOUS
  <2>1. Shape'
    BY StepFresh, StepAnswers DEF Shape
  <2> QED
    BY <2>1, StepType, StepRuns, StepCount, StepForeign DEF CoalInv
<1> QED
  BY InitInv, <1>1, PTL DEF Spec

\* The variables of the fetcher keep their types; sub_count never goes below zero.
THEOREM TypeCorrect == Spec => []TypeOK
<1>1. CoalInv => TypeOK
  BY DEF CoalInv
<1> QED
  BY Invariant, <1>1, PTL

\* parent_cancel is not fired while a caller waits for the fetch or reads its stream,
\* however joins, cancellations and results interleave.
THEOREM NeverCancelledUnderReader == Spec => []NotCancelledUnderReader
<1>1. CoalInv => NotCancelledUnderReader
  <2> SUFFICES ASSUME CoalInv, NEW e \in Requests, fired[e], Wanted(e) PROVE FALSE
    BY DEF NotCancelledUnderReader
  <2>1. PICK r \in Requests : entryOf[r] = e /\ answer[r] \in {None, "stream"}
    BY DEF Wanted, Streamers, CoalInv, TypeOK, Shape, AnswersMatch
  <2>2. answer[r] # "caller"
    BY <2>1, CoalescingAssumption DEF CoalescingAssumption
  <2> QED
    BY <2>1, <2>2, CountsFor
<1> QED
  BY Invariant, <1>1, PTL

\* A caller gets the result of an aborted fetch only when its own run was shut down.
THEOREM CancellationsAreOwn == Spec => []NoForeignCancel
<1>1. CoalInv => NoForeignCancel
  BY DEF CoalInv
<1> QED
  BY Invariant, <1>1, PTL

-----------------------------------------------------------------------------
(* One fetch per key, and the end of every request.                        *)

\* A fetch one can still join is the one in the map, and the request the loop leads with
\* has its entry, and no task yet.
MappedWhileGoing == \A e \in Requests : Going(e) => map[KeyOf[e]] = e
LeaderIsNew == loop = "lead" \/ (loop = "joined" /\ entryOf[cur] = cur) => phase[cur] = "new"
MapInv == MappedWhileGoing /\ LeaderIsNew

LEMMA StepMap ==
    ASSUME CoalInv, MapInv, [Next]_vars
    PROVE  MapInv'
<1> USE CoalescingAssumption DEF CoalescingAssumption
<1>0. TypeOK /\ Shape /\ MappedWhileGoing /\ LeaderIsNew
  BY DEF CoalInv, MapInv
<1>1. ASSUME UNCHANGED <<map, subs, phase, runOf, entryOf>>, down \subseteq down',
             \A e \in Requests : fired[e] => fired'[e],
             loop' \in {"lead", "joined"} => UNCHANGED <<loop, cur>>
      PROVE  MapInv'
  <2>1. \A e \in Requests : Going(e)' => Going(e)
    BY <1>1 DEF Going, IsCancelled
  <2> QED
    BY <1>0, <1>1, <2>1 DEF MapInv, MappedWhileGoing, LeaderIsNew
<1>2. ASSUME NEW e \in Requests, phase[e] # "new", phase'[e] # "new",
             phase'[e] \in {"new", "waiting", "performing"} => phase[e] \in {"waiting", "performing"},
             \A f \in Requests : f # e => phase'[f] = phase[f],
             UNCHANGED <<map, subs, fired, runOf, down, entryOf, loop, cur>>
      PROVE  MapInv'
  <2>1. \A f \in Requests : Going(f)' => Going(f)
    BY <1>2 DEF Going, IsCancelled
  <2>2. MappedWhileGoing'
    BY <1>0, <1>2, <2>1 DEF MappedWhileGoing
  <2>3. LeaderIsNew'
    BY <1>0, <1>2 DEF LeaderIsNew, Shape, LoopAt
  <2> QED
    BY <2>2, <2>3 DEF MapInv
<1>3. CASE (\E r \in Requests : submit(r) \/ Cancel(r) \/ DropStream(r)) \/ Shutdown \/ Restart
  BY <1>1, <1>3 DEF submit, Cancel, DropStream, Shutdown, Restart, callerVars, loopVars, entryVars,
     taskVars
<1>4. CASE CheckShutdown \/ NoWork \/ stop_queue \/ refused
  BY <1>1, <1>4 DEF CheckShutdown, NoWork, stop_queue, refused, callerVars, entryVars, taskVars
<1>5. CASE accept
  <2>1. /\ UNCHANGED <<map, subs, fired, phase, runOf, down, entryOf>>
        /\ loop = "joined" /\ loop' \in {"lead", "top"}
        /\ loop' = "lead" => entryOf[cur] = cur /\ cur' = cur
    BY <1>5 DEF accept, taskVars
  <2>2. \A e \in Requests : Going(e)' => Going(e)
    BY <2>1 DEF Going, IsCancelled
  <2>3. MappedWhileGoing'
    BY <1>0, <2>1, <2>2 DEF MappedWhileGoing
  <2>4. LeaderIsNew'
    BY <1>0, <2>1 DEF LeaderIsNew
  <2> QED
    BY <2>3, <2>4 DEF MapInv
<1>6. CASE refuse \/ spawn_fetch
  <2>1. cur \in Requests /\ phase[cur] = "new"
    BY <1>0, <1>6 DEF refuse, spawn_fetch, Shape, LoopAt, LeaderIsNew
  <2>2. /\ UNCHANGED <<map, subs, fired, runOf, down>> /\ loop' \notin {"lead", "joined"}
        /\ \A f \in Requests : f # cur => phase'[f] = phase[f]
    BY <1>0, <1>6, <2>1 DEF refuse, spawn_fetch, entryVars, TypeOK
  <2>3. \A f \in Requests : Going(f)' => Going(f)
    BY <2>1, <2>2 DEF Going, IsCancelled
  <2> QED
    BY <1>0, <2>2, <2>3 DEF MapInv, MappedWhileGoing, LeaderIsNew
<1>7. ASSUME NEW r \in Requests, join_inflight(r) PROVE MapInv'
  <2> DEFINE m == map[KeyOf[r]]
  <2>1. /\ Fresh(r) /\ phase[r] = "none" /\ subs[r] = 0
        /\ loop' = "joined" /\ cur' = r /\ UNCHANGED <<fired, down>>
        /\ runOf' = [runOf EXCEPT ![r] = run]
        /\ IF try_inc_sub(m) THEN Follow(r, m) ELSE Lead(r)
    BY <1>0, <1>7 DEF join_inflight, Shape, FreshUnused, Fresh
  <2>2. \A f \in Requests : f # r => IsCancelled(f)' = IsCancelled(f)
    BY <1>0, <2>1 DEF IsCancelled, TypeOK
  <2>3. CASE try_inc_sub(m)
    <3>1. /\ m \in Requests /\ m # r /\ subs[m] > 0
          /\ UNCHANGED <<map, phase>> /\ entryOf'[r] = m
          /\ \A f \in Requests : f # m => subs'[f] = subs[f]
      BY <1>0, <2>1, <2>3 DEF try_inc_sub, Follow, TypeOK
    <3>2. \A f \in Requests : Going(f)' => Going(f)
      BY <2>1, <2>2, <3>1 DEF Going
    <3> QED
      BY <1>0, <2>1, <3>1, <3>2 DEF MapInv, MappedWhileGoing, LeaderIsNew
  <2>4. CASE ~try_inc_sub(m)
    <3>1. /\ map' = [map EXCEPT ![KeyOf[r]] = r] /\ map'[KeyOf[r]] = r
          /\ phase'[r] = "new" /\ \A f \in Requests : f # r => phase'[f] = phase[f] /\ subs'[f] = subs[f]
      BY <1>0, <2>1, <2>4 DEF Lead, TypeOK
    <3>2. \A f \in Requests : f # r => (Going(f)' <=> Going(f))
      BY <2>2, <3>1 DEF Going
    <3>3. ASSUME NEW f \in Requests, f # r, Going(f) PROVE KeyOf[f] # KeyOf[r]
      <4>1. f # None /\ subs[f] > 0 /\ ~IsCancelled(f) /\ map[KeyOf[f]] = f
        BY <1>0, <3>3 DEF MappedWhileGoing, Going
      <4> QED
        BY <2>4, <4>1 DEF try_inc_sub
    <3>4. MappedWhileGoing'
      BY <1>0, <3>1, <3>2, <3>3 DEF MappedWhileGoing, TypeOK
    <3> QED
      BY <2>1, <3>1, <3>4 DEF MapInv, LeaderIsNew
  <2> QED
    BY <2>3, <2>4
<1>8. ASSUME NEW r \in Requests, Acquire(r) \/ Aborted(r) \/ perform_buffered(r) \/ perform_streaming(r)
      PROVE  MapInv'
  <2>1. /\ phase[r] \in {"waiting", "performing"} /\ phase'[r] \in {"performing", "over"}
        /\ \A f \in Requests : f # r => phase'[f] = phase[f]
        /\ UNCHANGED <<map, subs, fired, runOf, down, entryOf, loop, cur>>
    BY <1>0, <1>8 DEF Acquire, Aborted, perform_buffered, perform_streaming, Over, callerSide, loopVars,
       entryVars, TypeOK
  <2> QED
    BY <1>2, <2>1
<1>9. ASSUME NEW r \in Requests, finish(r) \/ finish_collected(r) PROVE MapInv'
  <2>1. /\ phase[r] \in {"removed", "collecting"} /\ phase'[r] \in {"collecting", "finished"}
        /\ \A f \in Requests : f # r => phase'[f] = phase[f]
        /\ UNCHANGED <<map, subs, fired, runOf, down, entryOf, loop, cur>>
    BY <1>0, <1>9 DEF finish, finish_collected, loopVars, TypeOK
  <2> QED
    BY <1>2, <2>1
<1>10. ASSUME NEW r \in Requests, remove_if(r) PROVE MapInv'
  <2>1. /\ phase[r] = "over" /\ phase'[r] = "removed"
        /\ \A f \in Requests : f # r => phase'[f] = phase[f]
        /\ UNCHANGED <<subs, fired, runOf, down, entryOf, loop, cur>>
        /\ \A k \in Keys : map[k] # r => map'[k] = map[k]
    BY <1>0, <1>10 DEF remove_if, callerSide, loopVars, entryVars, TypeOK
  <2>2. \A f \in Requests : Going(f)' => Going(f) /\ f # r
    BY <2>1 DEF Going, IsCancelled
  <2>3. MappedWhileGoing'
    BY <1>0, <2>1, <2>2 DEF MappedWhileGoing
  <2>4. LeaderIsNew'
    BY <1>0, <2>1 DEF LeaderIsNew, Shape, LoopAt
  <2> QED
    BY <2>3, <2>4 DEF MapInv
<1>11. ASSUME NEW r \in Requests, BodyEnds(r) \/ watch_cancel(r) \/ watch_fire(r) \/ watch_detach(r) \/ watch_ended(r)
       PROVE  MapInv'
  <2>1. UNCHANGED <<map, subs, phase, runOf, entryOf, down, loop, cur>>
    BY <1>11 DEF BodyEnds, watch_cancel, watch_fire, watch_detach, watch_ended, callerSide, taskSide,
       loopVars, entryVars, taskVars
  <2>2. \A e \in Requests : fired[e] => fired'[e]
    BY <1>0, <1>11 DEF BodyEnds, watch_cancel, watch_fire, watch_detach, watch_ended, entryVars, TypeOK
  <2> QED
    BY <1>1, <2>1, <2>2
<1>12. ASSUME NEW r \in Requests, watch_dec(r) PROVE MapInv'
  <2>1. entryOf[r] \in Requests
    BY <1>0, <1>12 DEF watch_dec, Shape, FreshUnused, TakenJoined
  <2>2. /\ UNCHANGED <<map, fired, phase, runOf, entryOf, down, loop, cur>>
        /\ \A f \in Requests : subs'[f] > 0 => subs[f] > 0
    BY <1>0, <1>12, <2>1 DEF watch_dec, taskSide, loopVars, taskVars, TypeOK
  <2>3. \A f \in Requests : Going(f)' => Going(f)
    BY <2>2 DEF Going, IsCancelled
  <2> QED
    BY <1>0, <2>2, <2>3 DEF MapInv, MappedWhileGoing, LeaderIsNew
<1>13. CASE UNCHANGED vars
  BY <1>1, <1>13 DEF vars, loopVars, entryVars, taskVars
<1> QED
  BY <1>3, <1>4, <1>5, <1>6, <1>7, <1>8, <1>9, <1>10, <1>11, <1>12, <1>13
     DEF Next, Loop, Cleanup, Network, Watcher

\* Coalescing: at any time at most one fetch per key that a request could join; a second
\* one is only started when everybody left the first or its run was shut down
\* (join_inflight, try_inc_sub, remove_if).
THEOREM FetchesAreShared == Spec => []OneFetchPerKey
<1>1. Init => MapInv
  BY DEF Init, MapInv, MappedWhileGoing, LeaderIsNew, Going
<1>2. CoalInv /\ MapInv /\ [Next]_vars => MapInv'
  BY StepMap
<1>3. MapInv => OneFetchPerKey
  BY DEF MapInv, MappedWhileGoing, OneFetchPerKey
<1> QED
  BY Invariant, <1>1, <1>2, <1>3, PTL DEF Spec

\* An open lifecycle is one its entry's Shared will report the end to.
OpenAttached ==
    \A r \in Requests : life[r] = "open" =>
        ~Fresh(r) /\ r \in attached[entryOf[r]] /\ ~hasEnd[entryOf[r]]

LEMMA StepOpen ==
    ASSUME CoalInv, OpenAttached, [Next]_vars
    PROVE  OpenAttached'
<1> USE CoalescingAssumption DEF CoalescingAssumption
<1>0. TypeOK /\ Shape
  BY DEF CoalInv
<1>1. ASSUME UNCHANGED <<life, attached, hasEnd, entryOf>>,
             \A r \in Requests : ~Fresh(r) => ~Fresh(r)'
      PROVE  OpenAttached'
  BY <1>1 DEF OpenAttached
<1>2. ASSUME UNCHANGED <<life, attached, hasEnd, entryOf, pc>>
      PROVE  OpenAttached'
  BY <1>2 DEF OpenAttached, Fresh
<1>3. ASSUME NEW e \in Requests, EndEvent(e), UNCHANGED <<entryOf, pc>>
      PROVE  OpenAttached'
  <2> SUFFICES ASSUME NEW r \in Requests, life'[r] = "open"
               PROVE  ~Fresh(r)' /\ r \in attached'[entryOf'[r]] /\ ~hasEnd'[entryOf'[r]]
    BY DEF OpenAttached
  <2>1. life[r] = "open" /\ r \notin attached[e]
    BY <1>3 DEF EndEvent
  <2>2. ~Fresh(r) /\ r \in attached[entryOf[r]] /\ ~hasEnd[entryOf[r]] /\ entryOf[r] # e
    BY <2>1 DEF OpenAttached
  <2>3. entryOf[r] \in Requests
    BY <1>0, <2>2 DEF Shape, TakenJoined
  <2> QED
    BY <1>0, <1>3, <2>2, <2>3 DEF EndEvent, Fresh, TypeOK
<1>4. CASE \E r \in Requests : submit(r)
  BY <1>0, <1>1, <1>4 DEF submit, Fresh, lifeVars, TypeOK
<1>5. CASE stop_queue
  BY <1>0, <1>1, <1>5 DEF stop_queue, Fresh, lifeVars, TypeOK
<1>6. CASE \/ Shutdown \/ Restart \/ CheckShutdown \/ NoWork \/ refused \/ spawn_fetch
           \/ \E r \in Requests : Cancel(r) \/ DropStream(r)
  BY <1>2, <1>6 DEF Shutdown, Restart, CheckShutdown, NoWork, refused, spawn_fetch, Cancel, DropStream,
     callerVars, lifeVars
<1>7. CASE accept
  <2>1. cur \in Requests /\ ~Fresh(cur) /\ entryOf[cur] \in Requests
    BY <1>0, <1>7 DEF accept, Shape, LoopAt, TakenJoined
  <2>2. /\ attach(cur, entryOf[cur]) /\ UNCHANGED <<entryOf, hasEnd>>
        /\ pc' = [pc EXCEPT ![cur] = "accepted"]
    BY <1>7 DEF accept
  <2>3. \A r \in Requests : ~Fresh(r) => ~Fresh(r)'
    BY <1>0, <2>1, <2>2 DEF Fresh, TypeOK
  <2>4. CASE hasEnd[entryOf[cur]]
    BY <1>0, <2>1, <2>2, <2>3, <2>4 DEF attach, OpenAttached, TypeOK
  <2>5. CASE ~hasEnd[entryOf[cur]]
    <3>1. /\ attached' = [attached EXCEPT ![entryOf[cur]] = @ \cup {cur}]
          /\ life' = [life EXCEPT ![cur] = "open"]
      BY <2>2, <2>5 DEF attach
    <3>2. /\ cur \in attached'[entryOf[cur]]
          /\ \A e \in Requests : attached[e] \subseteq attached'[e]
      BY <1>0, <2>1, <3>1 DEF TypeOK
    <3>3. \A r \in Requests : r # cur => life'[r] = life[r]
      BY <1>0, <3>1 DEF TypeOK
    <3>4. \A r \in Requests : ~Fresh(r) => entryOf[r] \in Requests
      BY <1>0 DEF Shape, TakenJoined
    <3> QED
      BY <2>1, <2>2, <2>3, <2>5, <3>2, <3>3, <3>4 DEF OpenAttached
  <2> QED
    BY <2>4, <2>5
<1>8. CASE refuse
  <2>1. cur \in Requests
    BY <1>0, <1>8 DEF refuse, Shape, LoopAt
  <2> QED
    BY <1>3, <1>8, <2>1 DEF refuse, callerVars
<1>9. ASSUME NEW r \in Requests, join_inflight(r) PROVE OpenAttached'
  <2>1. /\ Fresh(r) /\ UNCHANGED <<life, attached, hasEnd>>
        /\ pc' = [pc EXCEPT ![r] = "joined"]
        /\ \A q \in Requests : q # r => entryOf'[q] = entryOf[q]
    BY <1>0, <1>9 DEF join_inflight, Follow, Lead, lifeVars, Fresh, TypeOK
  <2>2. life[r] # "open"
    BY <2>1 DEF OpenAttached
  <2> QED
    BY <1>0, <2>1, <2>2 DEF OpenAttached, Fresh, TypeOK
<1>10. ASSUME NEW r \in Requests, Aborted(r) \/ perform_buffered(r) \/ BodyEnds(r) PROVE OpenAttached'
  <2>1. EndEvent(r) /\ UNCHANGED <<entryOf, pc>>
    BY <1>10 DEF Aborted, perform_buffered, BodyEnds, Over, callerSide, callerVars
  <2> QED
    BY <1>3, <2>1
<1>11. CASE \E r \in Requests : \/ Acquire(r) \/ perform_streaming(r) \/ remove_if(r) \/ finish(r)
                                \/ finish_collected(r)
  BY <1>2, <1>11 DEF Acquire, perform_streaming, remove_if, finish, finish_collected, callerSide,
     callerVars, lifeVars
<1>12. CASE \E r \in Requests : watch_cancel(r) \/ watch_dec(r) \/ watch_fire(r) \/ watch_ended(r)
  BY <1>2, <1>12 DEF watch_cancel, watch_dec, watch_fire, watch_ended, taskSide, lifeVars
<1>13. ASSUME NEW r \in Requests, watch_detach(r) PROVE OpenAttached'
  <2>1. entryOf[r] \in Requests
    BY <1>0, <1>13 DEF watch_detach, Shape, FreshUnused, TakenJoined
  <2>2. /\ UNCHANGED <<entryOf, hasEnd, pc>> /\ life' = [life EXCEPT ![r] = "ended"]
        /\ attached' = [attached EXCEPT ![entryOf[r]] = @ \ {r}]
    BY <1>13 DEF watch_detach, taskSide
  <2> QED
    BY <1>0, <2>1, <2>2 DEF OpenAttached, Fresh, TypeOK, Shape, TakenJoined
<1>14. CASE UNCHANGED vars
  BY <1>2, <1>14 DEF vars, callerVars, lifeVars
<1> QED
  BY <1>4, <1>5, <1>6, <1>7, <1>8, <1>9, <1>10, <1>11, <1>12, <1>13, <1>14
     DEF Next, Loop, Cleanup, Network, Watcher

\* Every request that was accepted hears of its end: none is left open by a fetch that has
\* ended, whenever it joined and whoever left (Shared::attach, Shared::detach).
THEOREM NoneLeftOpen == Spec => []EveryRequestEnds
<1>1. Init => OpenAttached
  BY DEF Init, OpenAttached
<1>2. CoalInv /\ OpenAttached /\ [Next]_vars => OpenAttached'
  BY StepOpen
<1>3. OpenAttached => EveryRequestEnds
  BY DEF OpenAttached, EveryRequestEnds
<1> QED
  BY Invariant, <1>1, <1>2, <1>3, PTL DEF Spec

-----------------------------------------------------------------------------
(* The fetcher keeps its promise to its callers.                           *)

\* The requests submitted so far, as KeepsPromise maps them.
asked == {r \in Requests : pc[r] # "new"}

\* Sending one answer, with a reason for it, to callers that have none.
LEMMA Answering ==
    ASSUME NEW S \in SUBSET Requests, NEW a \in Answers, Send(S, a), UNCHANGED <<token, down>>,
           asked' \in {asked, asked \cup S}, S \subseteq asked',
           \A r \in S : answer[r] = None /\ Promise!Justified(r, a),
           answer \in [Requests -> Answers \cup {None}],
           S # {} \/ asked' = asked
    PROVE  [Promise!Next]_(Promise!vars)
<1>1. CASE S = {}
  <2>1. answer' = answer
    BY <1>1 DEF Send
  <2> QED
    BY <1>1, <2>1 DEF Promise!vars, asked
<1>2. CASE S # {}
  <2> DEFINE f == [r \in S |-> a]
  <2>1. f \in [S -> Promise!Answers]
    BY DEF Answers, Promise!Answers
  <2>2. \A r \in S : Promise!Justified(r, f[r])
    OBVIOUS
  <2>3. answer' = [r \in Requests |-> IF r \in S THEN f[r] ELSE answer[r]]
    BY DEF Send
  <2>4. Promise!Answer(S)
    BY <1>2, <2>1, <2>2, <2>3 DEF Promise!Answer, asked
  <2> QED
    BY <2>4 DEF Promise!Next
<1> QED
  BY <1>1, <1>2

\* Every step is one that FetchPromise allows, or none to it.
LEMMA StepPromise ==
    ASSUME CoalInv, [Next]_vars PROVE [Promise!Next]_(Promise!vars)
<1> /\ TypeOK /\ Shape /\ RunsInOrder /\ ResultsKnown /\ AbortedIsCancelled
    /\ CountExact /\ FiredAtZero /\ NoForeignCancel
  BY DEF CoalInv
<1> USE CoalescingAssumption DEF CoalescingAssumption, TypeOK, Shape, LoopAt,
    AnswersMatch, Fresh, Promise!vars, callerVars, loopVars, entryVars, taskVars, lifeVars,
    callerSide, taskSide
<1>1. ASSUME NEW r \in Requests, submit(r) PROVE [Promise!Next]_(Promise!vars)
  <2>1. pc[r] = "new" /\ answer[r] = None /\ asked' = asked \cup {r} /\ UNCHANGED <<token, down>>
    BY <1>1 DEF submit, asked
  <2>2. CASE stopped
    <3> DEFINE S == {r}
    <3>1. Send(S, "shutdown") /\ "shutdown" \in Answers
      BY <1>1, <2>2 DEF submit, Answers
    <3>2. \A u \in S : answer[u] = None /\ Promise!Justified(u, "shutdown")
      BY <2>1, <2>2 DEF RunsInOrder, Promise!Justified
    <3>3. S # {} /\ S \in SUBSET Requests /\ S \subseteq asked'
      BY <2>1
    <3>4. asked' \in {asked, asked \cup S}
      BY <2>1
    <3> HIDE DEF S
    <3> QED
      BY <2>1, <3>1, <3>2, <3>3, <3>4, Answering
  <2>3. CASE ~stopped
    <3>1. Promise!Ask(r)
      BY <1>1, <2>1, <2>3 DEF submit, Promise!Ask, asked
    <3> QED
      BY <3>1 DEF Promise!Next
  <2> QED
    BY <2>2, <2>3
<1>2. ASSUME NEW r \in Requests, Cancel(r) PROVE [Promise!Next]_(Promise!vars)
  <2>1. Promise!Cancel(r)
    BY <1>2 DEF Cancel, Promise!Cancel
  <2> QED
    BY <2>1 DEF Promise!Next
<1>3. ASSUME NEW r \in Requests, DropStream(r) PROVE [Promise!Next]_(Promise!vars)
  BY <1>3 DEF DropStream
<1>4. CASE Shutdown
  <2>1. run \in Runs /\ Promise!Stop(run)
    BY <1>4 DEF Shutdown, Promise!Stop
  <2> QED
    BY <2>1 DEF Promise!Next
<1>5. CASE Restart
  BY <1>5 DEF Restart
<1>6. CASE CheckShutdown
  BY <1>6 DEF CheckShutdown
<1>7. CASE NoWork
  BY <1>7 DEF NoWork
<1>8. CASE stop_queue
  <2> DEFINE S == {r \in Requests : pc[r] = "queued"}
  <2>1. /\ Send(S, "shutdown") /\ asked' = asked /\ S \subseteq asked' /\ UNCHANGED <<token, down>>
    BY <1>8 DEF stop_queue, asked
  <2>2. \A r \in S : answer[r] = None /\ Promise!Justified(r, "shutdown")
    BY <1>8 DEF stop_queue, RunsInOrder, Promise!Justified
  <2>3. "shutdown" \in Answers
    BY DEF Answers
  <2> QED
    BY <2>1, <2>2, <2>3, Answering
<1>9. CASE accept
  BY <1>9 DEF accept, attach
<1>10. CASE refuse
  BY <1>10 DEF refuse, EndEvent
<1>11. CASE refused
  BY <1>11 DEF refused
<1>12. CASE spawn_fetch
  BY <1>12 DEF spawn_fetch
<1>13. ASSUME NEW r \in Requests, join_inflight(r) PROVE [Promise!Next]_(Promise!vars)
  BY <1>13 DEF join_inflight, Follow, Lead, first_subscriber, try_inc_sub
<1>14. ASSUME NEW r \in Requests, Acquire(r) PROVE [Promise!Next]_(Promise!vars)
  BY <1>14 DEF Acquire
<1>15. ASSUME NEW r \in Requests, Aborted(r) PROVE [Promise!Next]_(Promise!vars)
  BY <1>15 DEF Aborted, Over, EndEvent
<1>16. ASSUME NEW r \in Requests, perform_buffered(r) PROVE [Promise!Next]_(Promise!vars)
  BY <1>16 DEF perform_buffered, Over, EndEvent
<1>17. ASSUME NEW r \in Requests, perform_streaming(r) PROVE [Promise!Next]_(Promise!vars)
  BY <1>17 DEF perform_streaming
<1>18. ASSUME NEW r \in Requests, remove_if(r) PROVE [Promise!Next]_(Promise!vars)
  BY <1>18 DEF remove_if
<1>19. ASSUME NEW r \in Requests, finish(r) PROVE [Promise!Next]_(Promise!vars)
  <2>1. /\ Send(Served(r), result[r]) /\ Served(r) \subseteq listeners[r] /\ asked' = asked
        /\ UNCHANGED <<token, down>>
    BY <1>19 DEF finish, Served, asked
  <2>2. result[r] \in Answers
    BY <1>19 DEF finish, ResultsKnown
  <2>3. \A u \in Served(r) : u \in asked /\ answer[u] = None
    BY <2>1 DEF FreshUnused, asked
  <2>4. ASSUME NEW u \in Served(r) PROVE Promise!Justified(u, result[r])
    <3>1. result[r] = "aborted" => down # {}
      BY <2>1, ListenersOfAborted DEF AbortedIsCancelled
    <3> QED
      BY <3>1 DEF Promise!Justified, ResultsKnown, Served
  <2> QED
    BY <2>1, <2>2, <2>3, <2>4, Answering
<1>20. ASSUME NEW r \in Requests, finish_collected(r) PROVE [Promise!Next]_(Promise!vars)
  <2>1. PICK a \in {"buffered", "error", "aborted"} :
              (a = "aborted" => body[r] = "aborted") /\ Send(listeners[r], a)
    BY <1>20 DEF finish_collected
  <2>2. asked' = asked /\ UNCHANGED <<token, down>> /\ listeners[r] \subseteq Requests
    BY <1>20 DEF finish_collected, asked
  <2>3. \A u \in listeners[r] : u \in asked /\ answer[u] = None
    BY <2>2 DEF FreshUnused, asked
  <2>4. ASSUME NEW u \in listeners[r] PROVE Promise!Justified(u, a)
    <3>1. a = "aborted" => down # {}
      BY <2>1, ListenersOfAborted DEF AbortedIsCancelled
    <3> QED
      BY <2>1, <3>1 DEF Promise!Justified
  <2>5. a \in Answers
    BY <2>1 DEF Answers
  <2> QED
    BY <2>1, <2>2, <2>3, <2>4, <2>5, Answering
<1>21. ASSUME NEW r \in Requests, BodyEnds(r) PROVE [Promise!Next]_(Promise!vars)
  BY <1>21 DEF BodyEnds, EndEvent
<1>22. ASSUME NEW r \in Requests, watch_cancel(r) PROVE [Promise!Next]_(Promise!vars)
  <2>0. Watched(r)
    BY <1>22, WatchCancel
  <2>1. asked' = asked /\ UNCHANGED <<token, down>> /\ r \in token
    BY <1>22 DEF watch_cancel, asked
  <2>2. CASE r \in listeners[entryOf[r]]
    <3>1. Send({r}, "caller") /\ answer[r] = None /\ pc[r] # "new"
      BY <2>0, <2>2 DEF Watched
    <3>2. {r} \subseteq asked /\ Promise!Justified(r, "caller") /\ "caller" \in Answers
      BY <2>1, <3>1 DEF asked, Promise!Justified, Answers
    <3> QED
      BY <2>1, <3>1, <3>2, Answering
  <2>3. CASE r \notin listeners[entryOf[r]]
    <3>1. UNCHANGED answer
      BY <2>0, <2>3 DEF Watched
    <3> QED
      BY <2>1, <3>1 DEF asked
  <2> QED
    BY <2>2, <2>3
<1>23. ASSUME NEW r \in Requests, watch_dec(r) PROVE [Promise!Next]_(Promise!vars)
  BY <1>23 DEF watch_dec
<1>24. ASSUME NEW r \in Requests, watch_fire(r) PROVE [Promise!Next]_(Promise!vars)
  BY <1>24 DEF watch_fire
<1>25. ASSUME NEW r \in Requests, watch_detach(r) PROVE [Promise!Next]_(Promise!vars)
  BY <1>25 DEF watch_detach
<1>26. ASSUME NEW r \in Requests, watch_ended(r) PROVE [Promise!Next]_(Promise!vars)
  BY <1>26 DEF watch_ended
<1>27. CASE UNCHANGED vars
  BY <1>27 DEF vars
<1> QED
  BY <1>1, <1>2, <1>3, <1>4, <1>5, <1>6, <1>7, <1>8, <1>9, <1>10, <1>11, <1>12, <1>13,
     <1>14, <1>15, <1>16, <1>17, <1>18, <1>19, <1>20, <1>21, <1>22, <1>23, <1>24, <1>25,
     <1>26, <1>27 DEF Next, Loop, Cleanup, Network, Watcher

\* Coalescing implements FetchPromise: whatever is shared, restarted or torn down, a
\* caller gets at most one answer, of the kind it asked for, and a cancellation only with a
\* reason.
THEOREM PromiseKept == Spec => KeepsPromise
<1>1. Init => Promise!Init
  BY DEF Init, Promise!Init
<1>2. CoalInv /\ [Next]_vars => [Promise!Next]_(Promise!vars)
  BY StepPromise
<1> QED
  BY Invariant, <1>1, <1>2, PTL DEF Spec, KeepsPromise, Promise!Spec
=============================================================================
