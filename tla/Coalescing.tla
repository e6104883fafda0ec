----------------------------- MODULE Coalescing -----------------------------
(***************************************************************************)
(* Requests that share one fetch (net/fetcher.rs, net/utils.rs Waiter,     *)
(* net/lifecycle.rs).  The run loop joins each request to the fetch in     *)
(* flight under its key or makes it the leader of a new one; a task per    *)
(* fetch performs it and fans the result out; a watcher per request acts   *)
(* on its caller's cancellation; the host may shut the fetcher down and    *)
(* run it again.  Loop, tasks, watchers and callers run on any thread, so  *)
(* their steps interleave.                                                 *)
(*                                                                         *)
(* An entry of the in-flight map is named by the request that leads it.    *)
(* Which queued request the loop takes next is the lanes' business: here   *)
(* any.  When a fetch gets its slots is the pool's (module SlotPool).      *)
(***************************************************************************)
EXTENDS Integers, FiniteSets

CONSTANTS Requests,
          Keys, KeyOf,     \* the coalescing key of each request
          Streaming,       \* the requests that ask for a streamed body
          MaxRuns, Stops,  \* bounds: how often run() is called, and a run shut down
          None

ASSUME CoalescingAssumption ==
    /\ KeyOf \in [Requests -> Keys]
    /\ Streaming \subseteq Requests
    /\ MaxRuns \in Nat \ {0} /\ Stops \in Nat
    /\ None \notin Requests
    /\ None \notin {"buffered", "stream", "error", "aborted", "caller", "shutdown"}

Runs == 1..MaxRuns

VARIABLES
    pc,         \* the request: new, queued, joined (taken by the loop), accepted
    answer,     \* what its caller was sent
    token,      \* the callers that cancelled
    dropped,    \* the callers that dropped the stream they were sent
    watch,      \* the watcher of the request, see watch_caller
    life,       \* its Lifecycle: none, open, ended
    entryOf,    \* the entry it joined
    runOf,      \* the run whose loop took it
    run, down,  \* the run under way, and the runs whose shutdown token fired
    loop, cur,  \* where the run loop is, and the request it works on
    stopped,    \* Fetcher::stopped
    map,        \* Fetcher::inflight_map
    subs, fired, wants, listeners,   \* the fields of an entry
    phase,      \* the fetch task of an entry
    mode,       \* should_stream, as the task read it
    result,     \* what the task performed
    body,       \* the streamed body: none, flowing, complete, failed, aborted, abandoned
    attached,   \* the entry's Shared: the lifecycles it reports its end to,
    hasEnd      \* and whether it has had its end

callerVars == <<pc, answer, token, dropped>>
loopVars   == <<run, down, loop, cur, stopped>>
entryVars  == <<subs, fired, wants, listeners>>
taskVars   == <<phase, mode, result, body>>
lifeVars   == <<life, attached, hasEnd>>
vars == <<callerVars, watch, entryOf, runOf, loopVars, map, entryVars, taskVars, lifeVars>>

Answers == {"buffered", "stream", "error", "aborted", "caller", "shutdown"}

TypeOK ==
    /\ pc \in [Requests -> {"new", "queued", "joined", "accepted", "refused"}]
    /\ answer \in [Requests -> Answers \cup {None}]
    /\ token \subseteq Requests /\ dropped \subseteq Requests
    /\ watch \in [Requests -> {"none", "watching", "dec", "fire", "detach", "gone"}]
    /\ entryOf \in [Requests -> Requests \cup {None}]
    /\ runOf \in [Requests -> Runs \cup {0}]
    /\ run \in Runs /\ down \subseteq Runs
    /\ loop \in {"top", "pick", "joined", "lead", "refusing", "stopping", "ended"}
    /\ cur \in Requests \cup {None}
    /\ stopped \in BOOLEAN
    /\ map \in [Keys -> Requests \cup {None}]
    /\ subs \in [Requests -> Nat] /\ fired \in [Requests -> BOOLEAN]
    /\ wants \in [Requests -> BOOLEAN]
    /\ listeners \in [Requests -> SUBSET Requests]
    /\ phase \in [Requests -> {"none", "new", "waiting", "performing", "over", "removed",
                               "collecting", "finished"}]
    /\ mode \in [Requests -> BOOLEAN]
    /\ result \in [Requests -> Answers \cup {None}]
    /\ body \in [Requests -> {"none", "flowing", "complete", "failed", "aborted", "abandoned"}]
    /\ life \in [Requests -> {"none", "open", "ended"}]
    /\ attached \in [Requests -> SUBSET Requests]
    /\ hasEnd \in [Requests -> BOOLEAN]

Init ==
    /\ pc = [r \in Requests |-> "new"]
    /\ answer = [r \in Requests |-> None]
    /\ token = {} /\ dropped = {}
    /\ watch = [r \in Requests |-> "none"]
    /\ entryOf = [r \in Requests |-> None]
    /\ runOf = [r \in Requests |-> 0]
    /\ run = 1 /\ down = {} /\ loop = "top" /\ cur = None /\ stopped = FALSE
    /\ map = [k \in Keys |-> None]
    /\ subs = [e \in Requests |-> 0] /\ fired = [e \in Requests |-> FALSE]
    /\ wants = [e \in Requests |-> FALSE]
    /\ listeners = [e \in Requests |-> {}]
    /\ phase = [e \in Requests |-> "none"] /\ mode = [e \in Requests |-> FALSE]
    /\ result = [e \in Requests |-> None] /\ body = [e \in Requests |-> "none"]
    /\ life = [r \in Requests |-> "none"]
    /\ attached = [e \in Requests |-> {}]
    /\ hasEnd = [e \in Requests |-> FALSE]

\* parent_cancel is a child of its run's shutdown token.
IsCancelled(e) == fired[e] \/ runOf[e] \in down

\* Sending a to every caller in S.
Send(S, a) == answer' = [r \in Requests |-> IF r \in S THEN a ELSE answer[r]]

-----------------------------------------------------------------------------
(* The caller and the host.                                                *)

submit(r) ==
    /\ pc[r] = "new"
    /\ IF stopped
         THEN /\ Send({r}, "shutdown")
              /\ pc' = [pc EXCEPT ![r] = "refused"]
         ELSE /\ pc' = [pc EXCEPT ![r] = "queued"]
              /\ UNCHANGED answer
    /\ UNCHANGED <<token, dropped, watch, entryOf, runOf, loopVars, map, entryVars, taskVars, lifeVars>>

Cancel(r) ==
    /\ pc[r] # "new" /\ r \notin token
    /\ token' = token \cup {r}
    /\ UNCHANGED <<pc, answer, dropped, watch, entryOf, runOf, loopVars, map, entryVars, taskVars, lifeVars>>

\* The caller lets go of the stream it was sent and of everything read from it.
DropStream(r) ==
    /\ answer[r] = "stream" /\ r \notin dropped
    /\ dropped' = dropped \cup {r}
    /\ UNCHANGED <<pc, answer, token, watch, entryOf, runOf, loopVars, map, entryVars, taskVars, lifeVars>>

Shutdown ==
    /\ run \notin down /\ run <= Stops
    /\ down' = down \cup {run}
    /\ UNCHANGED <<callerVars, watch, entryOf, runOf, run, loop, cur, stopped, map, entryVars, taskVars, lifeVars>>

\* run() called again once the loop has ended: the queue reopens.
Restart ==
    /\ loop = "ended" /\ run < MaxRuns
    /\ run' = run + 1 /\ stopped' = FALSE /\ loop' = "top"
    /\ UNCHANGED <<callerVars, watch, entryOf, runOf, down, cur, map, entryVars, taskVars, lifeVars>>

-----------------------------------------------------------------------------
(* The run loop.                                                           *)

CheckShutdown ==
    /\ loop = "top"
    /\ loop' = IF run \in down THEN "stopping" ELSE "pick"
    /\ UNCHANGED <<callerVars, watch, entryOf, runOf, run, down, cur, stopped, map, entryVars, taskVars, lifeVars>>

\* Nothing queued: wait_for_work, then round again.
NoWork ==
    /\ loop = "pick" /\ \A r \in Requests : pc[r] # "queued"
    /\ loop' = "top"
    /\ UNCHANGED <<callerVars, watch, entryOf, runOf, run, down, cur, stopped, map, entryVars, taskVars, lifeVars>>

stop_queue ==
    /\ loop = "stopping"
    /\ LET left == {r \in Requests : pc[r] = "queued"}
       IN  /\ Send(left, "shutdown")
           /\ pc' = [r \in Requests |-> IF r \in left THEN "refused" ELSE pc[r]]
    /\ stopped' = TRUE /\ loop' = "ended"
    /\ UNCHANGED <<token, dropped, watch, entryOf, runOf, run, down, cur, map, entryVars, taskVars, lifeVars>>

try_inc_sub_any(e) == e # None

\* try_inc_sub: an entry being torn down takes no more subscribers.
try_inc_sub(e) == e # None /\ ~IsCancelled(e) /\ subs[e] > 0

Follow(r, e) ==
    /\ entryOf' = [entryOf EXCEPT ![r] = e]
    /\ subs' = [subs EXCEPT ![e] = @ + 1]
    /\ listeners' = [listeners EXCEPT ![e] = @ \cup {r}]
    /\ UNCHANGED <<map, wants, phase>>

first_subscriber == 1

Lead(r) ==
    /\ entryOf' = [entryOf EXCEPT ![r] = r]
    /\ map' = [map EXCEPT ![KeyOf[r]] = r]
    /\ subs' = [subs EXCEPT ![r] = first_subscriber]
    /\ listeners' = [listeners EXCEPT ![r] = {r}]
    /\ wants' = [wants EXCEPT ![r] = (r \in Streaming)]
    /\ phase' = [phase EXCEPT ![r] = "new"]

\* next_item and join_inflight, the latter under the map's shard lock.
join_inflight(r) ==
    /\ loop = "pick" /\ pc[r] = "queued"
    /\ IF try_inc_sub(map[KeyOf[r]]) THEN Follow(r, map[KeyOf[r]]) ELSE Lead(r)
    /\ pc' = [pc EXCEPT ![r] = "joined"]
    /\ runOf' = [runOf EXCEPT ![r] = run]
    /\ loop' = "joined" /\ cur' = r
    /\ UNCHANGED <<answer, token, dropped, watch, run, down, stopped, fired, mode, result, body, lifeVars>>

attach_blind(r, e) ==
    /\ attached' = [attached EXCEPT ![e] = @ \cup {r}]
    /\ life' = [life EXCEPT ![r] = "open"]

\* Shared::new for a leader; Shared::attach for a follower, which is handed the
\* fetch's end at once when the fetch has had it.
attach(r, e) ==
    IF hasEnd[e]
      THEN /\ life' = [life EXCEPT ![r] = "ended"]
           /\ UNCHANGED attached
      ELSE /\ attached' = [attached EXCEPT ![e] = @ \cup {r}]
           /\ life' = [life EXCEPT ![r] = "open"]

\* accept, watch_caller and the wants_streaming store.  They are one step: only
\* the watcher and the task look at what they leave, each at one of the three.
accept ==
    /\ loop = "joined"
    /\ LET r == cur
           e == entryOf[r]
       IN  /\ attach(r, e)
           /\ watch' = [watch EXCEPT ![r] = "watching"]
           /\ wants' = [wants EXCEPT ![e] = @ \/ r \in Streaming]
           /\ pc' = [pc EXCEPT ![r] = "accepted"]
           /\ loop' = IF e = r THEN "lead" ELSE "top"
           /\ cur' = IF e = r THEN r ELSE None
    /\ UNCHANGED <<answer, token, dropped, entryOf, runOf, run, down, stopped, map, subs, fired,
                   listeners, taskVars, hasEnd>>

\* The terminal event of e's fetch, through Shared and each Lifecycle.
EndEvent(e) ==
    /\ hasEnd' = [hasEnd EXCEPT ![e] = TRUE]
    /\ life' = [r \in Requests |-> IF r \in attached[e] THEN "ended" ELSE life[r]]
    /\ attached' = [attached EXCEPT ![e] = {}]

\* hop_checks refuse the leader's request; the loop cleans up and fans out itself.
refuse ==
    /\ loop = "lead"
    /\ EndEvent(cur)
    /\ result' = [result EXCEPT ![cur] = "error"]
    /\ phase' = [phase EXCEPT ![cur] = "over"]
    /\ loop' = "refusing"
    /\ UNCHANGED <<callerVars, watch, entryOf, runOf, run, down, cur, stopped, map, entryVars, mode, body>>

refused ==
    /\ loop = "refusing" /\ phase[cur] = "finished"
    /\ loop' = "top" /\ cur' = None
    /\ UNCHANGED <<callerVars, watch, entryOf, runOf, run, down, stopped, map, entryVars, taskVars, lifeVars>>

spawn_fetch ==
    /\ loop = "lead"
    /\ phase' = [phase EXCEPT ![cur] = "waiting"]
    /\ loop' = "top" /\ cur' = None
    /\ UNCHANGED <<callerVars, watch, entryOf, runOf, run, down, stopped, map, entryVars, mode, result, body, lifeVars>>

-----------------------------------------------------------------------------
(* The task of a fetch (the async block of spawn_fetch).                   *)

callerSide == <<callerVars, watch, entryOf, runOf, loopVars>>

\* The slots came; should_stream is read now.
Acquire(e) ==
    /\ phase[e] = "waiting"
    /\ phase' = [phase EXCEPT ![e] = "performing"]
    /\ mode' = [mode EXCEPT ![e] = e \in Streaming \/ wants[e]]
    /\ UNCHANGED <<callerSide, map, entryVars, result, body, lifeVars>>

\* The fetch is over with result x and its end reported.
Over(e, x) ==
    /\ phase' = [phase EXCEPT ![e] = "over"]
    /\ result' = [result EXCEPT ![e] = x]
    /\ EndEvent(e)
    /\ UNCHANGED <<callerSide, map, entryVars, mode, body>>

\* The wait for slots, or the transfer, is cut short by parent_cancel.
Aborted(e) == phase[e] \in {"waiting", "performing"} /\ IsCancelled(e) /\ Over(e, "aborted")

\* perform_buffered returned, or either failed.
perform_buffered(e) ==
    /\ phase[e] = "performing"
    /\ \E x \in IF mode[e] THEN {"error"} ELSE {"buffered", "error"} : Over(e, x)

\* perform_streaming returned its head; the body is still to come, and so is the end.
perform_streaming(e) ==
    /\ phase[e] = "performing" /\ mode[e]
    /\ phase' = [phase EXCEPT ![e] = "over"]
    /\ result' = [result EXCEPT ![e] = "stream"]
    /\ body' = [body EXCEPT ![e] = "flowing"]
    /\ UNCHANGED <<callerSide, map, entryVars, mode, lifeVars>>

remove_any(e) ==
    /\ phase[e] = "over"
    /\ map' = [map EXCEPT ![KeyOf[e]] = None]
    /\ phase' = [phase EXCEPT ![e] = "removed"]
    /\ UNCHANGED <<callerSide, entryVars, mode, result, body, lifeVars>>

\* inflight_map.remove_if: only this fetch's own entry.
remove_if(e) ==
    /\ phase[e] = "over"
    /\ map' = [map EXCEPT ![KeyOf[e]] = IF @ = e THEN None ELSE @]
    /\ phase' = [phase EXCEPT ![e] = "removed"]
    /\ UNCHANGED <<callerSide, entryVars, mode, result, body, lifeVars>>

Served_all(e) == listeners[e]

\* Who gets the result as it is: every listener, or those that asked for a stream.
Served(e) == IF result[e] = "stream" THEN listeners[e] \cap Streaming ELSE listeners[e]

finish_before_remove(e) ==
    /\ phase[e] = "over"
    /\ LET rest == listeners[e] \ Served(e)
       IN  /\ Send(Served(e), result[e])
           /\ listeners' = [listeners EXCEPT ![e] = rest]
           /\ phase' = [phase EXCEPT ![e] = IF rest = {} THEN "finished" ELSE "collecting"]
           /\ map' = [map EXCEPT ![KeyOf[e]] = IF @ = e /\ rest = {} THEN None ELSE @]
    /\ UNCHANGED <<pc, token, dropped, watch, entryOf, runOf, loopVars, subs, fired, wants,
                   mode, result, body, lifeVars>>

\* Waiter::finish: the listeners that wait for a buffered body stay registered
\* while the stream is collected for them.
finish(e) ==
    /\ phase[e] = "removed"
    /\ LET rest == listeners[e] \ Served(e)
       IN  /\ Send(Served(e), result[e])
           /\ listeners' = [listeners EXCEPT ![e] = rest]
           /\ phase' = [phase EXCEPT ![e] = IF rest = {} THEN "finished" ELSE "collecting"]
    /\ UNCHANGED <<pc, token, dropped, watch, entryOf, runOf, loopVars, map, subs, fired, wants,
                   mode, result, body, lifeVars>>

\* The second half of Waiter::finish, once stream_to_bytes has returned: with the
\* body, with the error it ended in, or past max_body_bytes.
finish_collected(e) ==
    /\ phase[e] = "collecting"
    /\ \E a \in {"buffered", "error", "aborted"} :
          /\ a = "buffered" => body[e] = "complete"
          /\ a = "aborted" => body[e] = "aborted"
          /\ Send(listeners[e], a)
    /\ listeners' = [listeners EXCEPT ![e] = {}]
    /\ phase' = [phase EXCEPT ![e] = "finished"]
    /\ UNCHANGED <<pc, token, dropped, watch, entryOf, runOf, loopVars, map, subs, fired, wants,
                   mode, result, body, lifeVars>>

Streamers(e) == {r \in Requests : entryOf[r] = e /\ answer[r] = "stream" /\ r \notin dropped}

\* The body reader ends: at the end of the body, on an error or a timeout, by
\* parent_cancel, or because nobody can read it any more.  ProgressReader
\* reports the end.
BodyEnds(e) ==
    /\ body[e] = "flowing"
    /\ \E b \in {"complete", "failed", "aborted", "abandoned"} :
          /\ b = "aborted" => IsCancelled(e)
          /\ b = "abandoned" => phase[e] = "finished" /\ Streamers(e) = {}
          /\ body' = [body EXCEPT ![e] = b]
    /\ EndEvent(e)
    /\ UNCHANGED <<callerSide, map, entryVars, phase, mode, result>>

-----------------------------------------------------------------------------
(* The watcher of a request (watch_caller).                                *)

taskSide == <<token, dropped, pc, entryOf, runOf, loopVars, map, taskVars>>

\* Waiter::cancel: a caller still registered is taken out and answered; only then
\* does it count out of the fetch.
watch_cancel(r) ==
    /\ watch[r] = "watching" /\ r \in token
    /\ LET e == entryOf[r]
       IN  IF r \in listeners[e]
             THEN /\ listeners' = [listeners EXCEPT ![e] = @ \ {r}]
                  /\ Send({r}, "caller")
                  /\ watch' = [watch EXCEPT ![r] = "dec"]
             ELSE /\ watch' = [watch EXCEPT ![r] = "detach"]
                  /\ UNCHANGED <<listeners, answer>>
    /\ UNCHANGED <<taskSide, subs, fired, wants, lifeVars>>

watch_dec_off_by_one(r) ==
    /\ watch[r] = "dec"
    /\ subs' = [subs EXCEPT ![entryOf[r]] = @ - 1]
    /\ watch' = [watch EXCEPT ![r] = IF subs[entryOf[r]] <= 2 THEN "fire" ELSE "detach"]
    /\ UNCHANGED <<taskSide, answer, fired, wants, listeners, lifeVars>>

\* dec_sub_and_maybe_cancel: the last one out ...
watch_dec(r) ==
    /\ watch[r] = "dec"
    /\ subs' = [subs EXCEPT ![entryOf[r]] = @ - 1]
    /\ watch' = [watch EXCEPT ![r] = IF subs[entryOf[r]] = 1 THEN "fire" ELSE "detach"]
    /\ UNCHANGED <<taskSide, answer, fired, wants, listeners, lifeVars>>

\* ... cancels the fetch.
watch_fire(r) ==
    /\ watch[r] = "fire"
    /\ fired' = [fired EXCEPT ![entryOf[r]] = TRUE]
    /\ watch' = [watch EXCEPT ![r] = "detach"]
    /\ UNCHANGED <<taskSide, answer, subs, wants, listeners, lifeVars>>

\* Shared::detach, and the Lifecycle's own end.
watch_detach(r) ==
    /\ watch[r] = "detach"
    /\ attached' = [attached EXCEPT ![entryOf[r]] = @ \ {r}]
    /\ life' = [life EXCEPT ![r] = "ended"]
    /\ watch' = [watch EXCEPT ![r] = "gone"]
    /\ UNCHANGED <<taskSide, answer, entryVars, hasEnd>>

\* The other arm of the select: the request has ended.
watch_ended(r) ==
    /\ watch[r] = "watching" /\ life[r] = "ended"
    /\ watch' = [watch EXCEPT ![r] = "gone"]
    /\ UNCHANGED <<taskSide, answer, entryVars, lifeVars>>

-----------------------------------------------------------------------------
Loop == CheckShutdown \/ NoWork \/ stop_queue \/ accept \/ refuse \/ refused \/ spawn_fetch
        \/ \E r \in Requests : join_inflight(r)

Cleanup(e) == remove_if(e) \/ finish(e)

Network(e) == Acquire(e) \/ perform_buffered(e) \/ perform_streaming(e) \/ BodyEnds(e)
              \/ finish_collected(e)

Watcher(r) == watch_cancel(r) \/ watch_dec(r) \/ watch_fire(r) \/ watch_detach(r) \/ watch_ended(r)

Next ==
    \/ Shutdown \/ Restart \/ Loop
    \/ \E r \in Requests :
          \/ submit(r) \/ Cancel(r) \/ DropStream(r)
          \/ Aborted(r) \/ Cleanup(r) \/ Network(r) \/ Watcher(r)

Spec == Init /\ [][Next]_vars

\* What the task of a fetch, and the reader of its body, do without waiting for the
\* network: a cancelled one stops at once.
Prompt(e) == Cleanup(e) \/ Aborted(e) \/ (body[e] # "flowing" /\ finish_collected(e))
             \/ (IsCancelled(e) /\ BodyEnds(e))

\* Tasks that can run are run, and a fired token is seen by whoever selects on it.
\* Of the network nothing is assumed: it may stall for ever.
LocalFairness == WF_vars(Loop) /\ \A r \in Requests : WF_vars(Prompt(r)) /\ WF_vars(Watcher(r))

LocalSpec == Spec /\ LocalFairness

-----------------------------------------------------------------------------
(* What makes coalescing correct.                                          *)

\* Nobody is handed a cancellation that is not its own: a result of an aborted
\* fetch only ever reaches callers whose run was shut down, not one that joined a
\* fetch others were abandoning (try_inc_sub), and not one of a later run.
NoForeignCancel ==
    \A r \in Requests : answer[r] = "aborted" => runOf[r] \in down

Wanted(e) == listeners[e] # {} \/ Streamers(e) # {}

\* The last caller to leave cancels the fetch, and no earlier one: while a caller
\* waits for the fetch or reads its stream, the count keeps parent_cancel from firing.
NotCancelledUnderReader == \A e \in Requests : fired[e] => ~Wanted(e)

Going(e) == phase[e] \in {"new", "waiting", "performing"} /\ subs[e] > 0 /\ ~IsCancelled(e)

\* Coalescing: one fetch per key.  A second one is only started when everybody
\* left the first or its run was shut down.
OneFetchPerKey ==
    \A e, f \in Requests : e # f /\ KeyOf[e] = KeyOf[f] => ~(Going(e) /\ Going(f))

\* Every request that was accepted hears of its end: none is left open by a fetch
\* that has ended, whenever it joined.
EveryRequestEnds == \A r \in Requests : life[r] = "open" => ~hasEnd[entryOf[r]]

\* Promise of the fetcher to its callers (module FetchPromise), whatever is shared.
Promise == INSTANCE FetchPromise
    WITH asked <- {r \in Requests : pc[r] # "new"}, NoAnswer <- None
KeepsPromise == Promise!Spec

\* A caller that cancels is answered, however long the network stalls
\* (fetch_with_cancel): the loop or its watcher sees the token.
CancelAnswered ==
    \A r \in Requests : (r \in token /\ pc[r] = "queued") ~> answer[r] # None

\* e waits for its slots, a response or the rest of its body, and is not cancelled.
OnNetwork(e) ==
    e # None /\ ~IsCancelled(e) /\ (phase[e] \in {"waiting", "performing"} \/ body[e] = "flowing")

\* Nothing but the network keeps a caller waiting: it is answered, or its fetch is out
\* there.
EveryCallerAnswered ==
    \A r \in Requests : pc[r] # "new" ~> (answer[r] # None \/ OnNetwork(entryOf[r]))

\* No caller is forgotten: one that cancels is answered whatever the network does, any other
\* unless the network still keeps its fetch (watch_caller, Waiter::finish).
CallersAnswered == CancelAnswered /\ EveryCallerAnswered
=============================================================================
