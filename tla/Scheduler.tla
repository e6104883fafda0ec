----------------------------- MODULE Scheduler ------------------------------
(***************************************************************************)
(* The queue and the run loop of a fetcher (net/fetcher.rs, and            *)
(* net/fetcher/native.rs for background revalidations): submit, the        *)
(* weighted pick across the four lanes, waking the loop, shutting it down  *)
(* and running it again.  The lanes' locks make submit, next_item and      *)
(* stop_queue one step each; run() stores its flag without them.           *)
(* What the loop does with a request it took is module Coalescing.         *)
(***************************************************************************)
EXTENDS Integers, Sequences

CONSTANTS Requests,
          LaneOf,        \* the lane of each request's priority
          Background,    \* the requests that are background revalidations
          MaxRuns,       \* bound: how often run() is called
          Overlap        \* may run() be called before the cancelled loop ended?

Priorities == 0..3
Runs == 1..MaxRuns

ASSUME SchedulerAssumption ==
    /\ LaneOf \in [Requests -> Priorities]
    /\ Background \subseteq Requests
    /\ MaxRuns \in Nat \ {0}
    /\ Overlap \in BOOLEAN

VARIABLES
    queue,      \* q_high, q_norm, q_low, q_idle
    stopped,    \* Fetcher::stopped
    wake,       \* the permit of Fetcher::wake
    started,    \* Revalidations::started
    notifying,  \* the revalidations pushed to `started` whose permit is yet to be left
    ready,      \* the permit of Revalidations::ready
    state,      \* of a request: idle, started (revalidations), queued, taken
    refused,    \* the requests answered `fetcher shut down` on their last submission
    loop,       \* where each run's loop is
    counter,    \* its lane_counter
    batch,      \* the revalidations it took over to submit
    down        \* the runs whose shutdown token fired

queueVars == <<queue, stopped, wake, started, notifying, ready, state, refused, loop, counter, batch,
               down>>

QueueTypeOK ==
    /\ queue \in [Priorities -> Seq(Requests)]
    /\ stopped \in BOOLEAN /\ wake \in BOOLEAN /\ ready \in BOOLEAN
    /\ started \in Seq(Requests) /\ notifying \subseteq Requests
    /\ state \in [Requests -> {"idle", "started", "queued", "taken"}]
    /\ refused \subseteq Requests
    /\ loop \in [Runs -> {"none", "top", "revalidations", "pick", "busy", "waiting", "stopping", "ended"}]
    /\ counter \in [Runs -> 0..14]
    /\ batch \in [Runs -> Seq(Requests)]
    /\ down \subseteq Runs

QueueInit ==
    /\ queue = [l \in Priorities |-> <<>>]
    /\ stopped = FALSE /\ wake = FALSE /\ ready = FALSE
    /\ started = <<>> /\ notifying = {}
    /\ state = [r \in Requests |-> "idle"] /\ refused = {}
    /\ loop = [i \in Runs |-> "none"]
    /\ counter = [i \in Runs |-> 0]
    /\ batch = [i \in Runs |-> <<>>]
    /\ down = {}

-----------------------------------------------------------------------------
(* Callers, running fetches and the host.                                  *)

push_silent(r) ==
    IF stopped
      THEN /\ refused' = refused \cup {r}
           /\ state' = [state EXCEPT ![r] = "idle"]
           /\ UNCHANGED <<queue, wake>>
      ELSE /\ queue' = [queue EXCEPT ![LaneOf[r]] = Append(@, r)]
           /\ refused' = refused \ {r}
           /\ state' = [state EXCEPT ![r] = "queued"]
           /\ UNCHANGED wake

push_unchecked(r) ==
    /\ queue' = [queue EXCEPT ![LaneOf[r]] = Append(@, r)]
    /\ wake' = TRUE
    /\ refused' = refused \ {r}
    /\ state' = [state EXCEPT ![r] = "queued"]

\* The body of submit, under the lane's lock: refuse when stopped, else push and
\* leave the loop a permit.
push(r) ==
    IF stopped
      THEN /\ refused' = refused \cup {r}
           /\ state' = [state EXCEPT ![r] = "idle"]
           /\ UNCHANGED <<queue, wake>>
      ELSE /\ queue' = [queue EXCEPT ![LaneOf[r]] = Append(@, r)]
           /\ wake' = TRUE
           /\ refused' = refused \ {r}
           /\ state' = [state EXCEPT ![r] = "queued"]

submit(r) ==
    /\ r \notin Background /\ state[r] = "idle"
    /\ push(r)
    /\ UNCHANGED <<stopped, started, notifying, ready, loop, counter, batch, down>>

\* A fetch answered from a stale stored response starts its revalidation: it pushes
\* the request under the lock of `started`, and leaves a permit once that is released.
revalidate_later(r) ==
    /\ r \in Background \ notifying /\ state[r] = "idle"
    /\ started' = Append(started, r)
    /\ notifying' = notifying \cup {r}
    /\ state' = [state EXCEPT ![r] = "started"]
    /\ UNCHANGED <<queue, stopped, wake, ready, refused, loop, counter, batch, down>>

notify_ready(r) ==
    /\ r \in notifying
    /\ notifying' = notifying \ {r}
    /\ ready' = TRUE
    /\ UNCHANGED <<queue, stopped, wake, started, state, refused, loop, counter, batch, down>>

\* A request the loop took is answered and may come again.
Answered(r) ==
    /\ state[r] = "taken"
    /\ state' = [state EXCEPT ![r] = "idle"]
    /\ UNCHANGED <<queue, stopped, wake, started, notifying, ready, refused, loop, counter, batch, down>>

Running(i) == loop[i] \notin {"none", "ended"}

reopen_never == UNCHANGED stopped

reopen == stopped' = FALSE

\* The synchronous part of run().
run(i) ==
    /\ loop[i] = "none"
    /\ \A j \in 1..(i - 1) : loop[j] = "ended" \/ (Overlap /\ j \in down)
    /\ reopen
    /\ loop' = [loop EXCEPT ![i] = "top"]
    /\ UNCHANGED <<queue, wake, started, notifying, ready, state, refused, counter, batch, down>>

Shutdown(i) ==
    /\ Running(i) /\ i \notin down
    /\ down' = down \cup {i}
    /\ UNCHANGED <<queue, stopped, wake, started, notifying, ready, state, refused, loop, counter, batch>>

-----------------------------------------------------------------------------
(* run_loop.                                                               *)

\* The shutdown check, and the first half of queue_revalidations.
Top(i) ==
    /\ loop[i] = "top"
    /\ IF i \in down
         THEN /\ loop' = [loop EXCEPT ![i] = "stopping"]
              /\ UNCHANGED <<started, batch>>
         ELSE /\ loop' = [loop EXCEPT ![i] = "revalidations"]
              /\ batch' = [batch EXCEPT ![i] = started]
              /\ started' = <<>>
    /\ UNCHANGED <<queue, stopped, wake, notifying, ready, state, refused, counter, down>>

\* The loop submits the revalidations it took over, one by one.
queue_revalidations(i) ==
    /\ loop[i] = "revalidations"
    /\ IF batch[i] = <<>>
         THEN /\ loop' = [loop EXCEPT ![i] = "pick"]
              /\ UNCHANGED <<queue, wake, state, refused, batch>>
         ELSE /\ push(Head(batch[i]))
              /\ batch' = [batch EXCEPT ![i] = Tail(@)]
              /\ UNCHANGED loop
    /\ UNCHANGED <<stopped, started, notifying, ready, counter, down>>

pick_order_greedy(c) == <<0, 1, 2, 3>>

\* The lanes in the order pick_lane tries them at position c of the cycle.
pick_order(c) ==
    CASE c \in 0..7   -> <<0, 1, 2, 3>>
      [] c \in 8..11  -> <<1, 0, 2, 3>>
      [] c \in 12..13 -> <<2, 1, 0, 3>>
      [] OTHER        -> <<3, 2, 1, 0>>

Empty == \A l \in Priorities : queue[l] = <<>>

\* The lane pick_lane pops from; defined when some lane has a request.
Picked(c) ==
    LET p == CHOOSE p \in 1..4 :
                /\ queue[pick_order(c)[p]] # <<>>
                /\ \A q \in 1..(p - 1) : queue[pick_order(c)[q]] = <<>>
    IN  pick_order(c)[p]

next_counter(c) == (c + 1) % 15

\* next_item, under the four locks; the counter moves on even if nothing is there.
next_item(i) ==
    /\ loop[i] = "pick"
    /\ counter' = [counter EXCEPT ![i] = next_counter(@)]
    /\ IF Empty
         THEN /\ loop' = [loop EXCEPT ![i] = "waiting"]
              /\ UNCHANGED <<queue, state>>
         ELSE LET l == Picked(counter[i])
              IN  /\ loop' = [loop EXCEPT ![i] = "busy"]
                  /\ state' = [state EXCEPT ![Head(queue[l])] = "taken"]
                  /\ queue' = [queue EXCEPT ![l] = Tail(@)]
    /\ UNCHANGED <<stopped, wake, started, notifying, ready, refused, batch, down>>

\* The request is coalesced, refused or handed to its task; round again.
Handed(i) ==
    /\ loop[i] = "busy"
    /\ loop' = [loop EXCEPT ![i] = "top"]
    /\ UNCHANGED <<queue, stopped, wake, started, notifying, ready, state, refused, counter, batch, down>>

\* A permit of either Notify, or the shutdown token.
wait_for_work(i) ==
    /\ loop[i] = "waiting"
    /\ \/ wake /\ wake' = FALSE /\ UNCHANGED ready
       \/ ready /\ ready' = FALSE /\ UNCHANGED wake
       \/ i \in down /\ UNCHANGED <<wake, ready>>
    /\ loop' = [loop EXCEPT ![i] = "top"]
    /\ UNCHANGED <<queue, stopped, started, notifying, state, refused, counter, batch, down>>

\* Under all four locks: refuse what is queued and whatever comes.  The counter, a
\* local of run_loop, ends with it.
stop_queue(i) ==
    /\ loop[i] = "stopping"
    /\ stopped' = TRUE
    /\ refused' = refused \cup {r \in Requests : state[r] = "queued"}
    /\ state' = [r \in Requests |-> IF state[r] = "queued" THEN "idle" ELSE state[r]]
    /\ queue' = [l \in Priorities |-> <<>>]
    /\ loop' = [loop EXCEPT ![i] = "ended"]
    /\ counter' = [counter EXCEPT ![i] = 0]
    /\ UNCHANGED <<wake, started, notifying, ready, batch, down>>

Loop(i) == Top(i) \/ queue_revalidations(i) \/ next_item(i) \/ Handed(i) \/ wait_for_work(i) \/ stop_queue(i)

QueueNext ==
    \/ \E r \in Requests : submit(r) \/ revalidate_later(r) \/ notify_ready(r) \/ Answered(r)
    \/ \E i \in Runs : run(i) \/ Shutdown(i) \/ Loop(i)

QueueSpec == QueueInit /\ [][QueueNext]_queueVars

\* The runtime polls a loop that can go on, and nothing stops a fetch between its push
\* and its notify_one.
FairSpec ==
    /\ QueueSpec
    /\ \A i \in Runs : WF_queueVars(Loop(i))
    /\ \A r \in Background : WF_queueVars(notify_ready(r))

-----------------------------------------------------------------------------
(* What the queue guarantees.                                              *)

\* No request is stranded by a shutdown: it was drained and answered, or it saw
\* the flag under its lane's lock.
NoneStranded == stopped => Empty /\ \A r \in Requests : state[r] # "queued"

\* run() reopens the queue there and then, and it stays open while a run that was
\* not shut down is under way.
OpenWhileRunning == (\E i \in Runs : Running(i) /\ i \notin down) => ~stopped

\* No lost wake-up: a loop only sleeps on an empty queue, unless a permit or its
\* shutdown is about to wake it; nor on a revalidation that was started, unless the
\* fetch that started it is about to leave one.
NoLostWakeup ==
    \A i \in Runs : loop[i] = "waiting" /\ i \notin down =>
        /\ wake \/ Empty
        /\ ready \/ notifying # {} \/ started = <<>>

\* However much is submitted at higher priority, a queued request is taken or, when
\* the run is shut down, refused.
QueuedIsTaken ==
    \A r \in Requests :
        (state[r] \in {"queued", "started"} /\ \E i \in Runs : Running(i) /\ i \notin down)
            ~> (state[r] \notin {"queued", "started"} \/ \A i \in Runs : Running(i) => i \in down)
=============================================================================
