---------------------------- MODULE QueueProofs -----------------------------
(***************************************************************************)
(* Proofs about the two queues a request waits in: the fetcher's lanes     *)
(* (Scheduler), for any requests, any priorities and any number of runs,   *)
(* and the lanes for connection slots (SlotPool), for every number of      *)
(* fetches, origins and slots.                                             *)
(*                                                                         *)
(* The proofs about Scheduler are for a host that only calls run() once    *)
(* the loop before it has ended.  (When it does not, OpenWhileRunning      *)
(* fails: see the run with Overlap.)                                       *)
(***************************************************************************)
EXTENDS Scheduler, SlotPool, FiniteSetTheorems, TLAPS

-----------------------------------------------------------------------------
(* The fetcher's lanes and the loop that serves them.                      *)

\* Runs come one after the other.
InOrder == \A i \in Runs : loop[i] # "none" => \A j \in 1..(i - 1) : loop[j] = "ended"

\* The queue is closed only between runs, and nothing is left in it then.
ClosedBetweenRuns == stopped => \A i \in Runs : ~Running(i)

\* A loop that went to sleep found the lanes empty, or has a permit since; and from
\* the moment it took the started revalidations over, one more leaves a permit or is
\* about to.
LanesSeen == \A i \in Runs : loop[i] = "waiting" => wake \/ Empty
Looked == {"revalidations", "pick", "busy", "waiting"}
RevalidationsSeen == \A i \in Runs : loop[i] \in Looked => ready \/ notifying # {} \/ started = <<>>

SchedInv ==
    QueueTypeOK /\ InOrder /\ ClosedBetweenRuns /\ NoneStranded /\ LanesSeen /\ RevalidationsSeen

-----------------------------------------------------------------------------

LEMMA InitInv == QueueInit => SchedInv
<1> SUFFICES ASSUME QueueInit PROVE SchedInv
  OBVIOUS
<1> USE SchedulerAssumption DEF SchedulerAssumption
<1>1. /\ stopped = FALSE /\ wake = FALSE /\ ready = FALSE
      /\ queue \in [Priorities -> Seq(Requests)] /\ started = <<>> /\ down = {} /\ refused = {}
  BY DEF QueueInit
<1>2. stopped \in BOOLEAN /\ wake \in BOOLEAN /\ ready \in BOOLEAN
  BY <1>1, Zenon
<1>3. QueueTypeOK
  BY <1>1, <1>2 DEF QueueInit, QueueTypeOK
<1> QED
  BY <1>1, <1>3 DEF QueueInit, SchedInv, InOrder, ClosedBetweenRuns, NoneStranded, LanesSeen,
     RevalidationsSeen, Running, Looked

\* submit's body: it pushes a request into its lane and leaves a permit, unless the
\* queue is closed.
LEMMA PushType ==
    ASSUME QueueTypeOK, NEW r \in Requests, push(r)
    PROVE  /\ queue' \in [Priorities -> Seq(Requests)] /\ wake' \in BOOLEAN
           /\ state' \in [Requests -> {"idle", "started", "queued", "taken"}]
           /\ refused' \subseteq Requests
           /\ stopped => queue' = queue /\ wake' = wake /\ state' = [state EXCEPT ![r] = "idle"]
           /\ ~stopped => wake'
<1> USE SchedulerAssumption DEF SchedulerAssumption, QueueTypeOK
<1>1. CASE stopped
  BY <1>1 DEF push
<1>2. CASE ~stopped
  <2>1. LaneOf[r] \in Priorities /\ Append(queue[LaneOf[r]], r) \in Seq(Requests)
    OBVIOUS
  <2>2. wake' = TRUE
    BY <1>2 DEF push
  <2>3. wake' \in BOOLEAN
    BY <2>2, Zenon
  <2> QED
    BY <1>2, <2>1, <2>2, <2>3 DEF push
<1> QED
  BY <1>1, <1>2

\* pick_lane finds a request wherever there is one.
LEMMA SomePicked ==
    ASSUME ~Empty, NEW c \in 0..14
    PROVE  Picked(c) \in Priorities /\ queue[Picked(c)] # <<>>
<1> DEFINE P(p) == /\ queue[pick_order(c)[p]] # <<>>
                   /\ \A q \in 1..(p - 1) : queue[pick_order(c)[q]] = <<>>
<1>1. \A l \in Priorities : \E p \in 1..4 : pick_order(c)[p] = l
  BY DEF pick_order, Priorities
<1>2. \A p \in 1..4 : pick_order(c)[p] \in Priorities
  BY DEF pick_order, Priorities
<1>3. \E p \in 1..4 : queue[pick_order(c)[p]] # <<>>
  BY <1>1 DEF Empty
<1>4. \E p \in 1..4 : P(p)
  <2>1. 1..1 = {1} /\ 1..2 = {1, 2} /\ 1..3 = {1, 2, 3} /\ 1..4 = {1, 2, 3, 4}
    OBVIOUS
  <2> QED
    BY <1>3, <2>1
<1> QED
  BY <1>2, <1>4 DEF Picked

\* Every step of callers, host and loops keeps the types.
LEMMA QueueStepType == QueueTypeOK /\ [QueueNext]_queueVars => QueueTypeOK'
<1> SUFFICES ASSUME QueueTypeOK, [QueueNext]_queueVars PROVE QueueTypeOK'
  OBVIOUS
<1> USE SchedulerAssumption DEF SchedulerAssumption
<1>1. ASSUME NEW r \in Requests, submit(r) PROVE QueueTypeOK'
  BY <1>1, PushType DEF submit, QueueTypeOK
<1>2. ASSUME NEW r \in Requests, revalidate_later(r) PROVE QueueTypeOK'
  BY <1>2 DEF revalidate_later, QueueTypeOK
<1>13. ASSUME NEW r \in Requests, notify_ready(r) PROVE QueueTypeOK'
  <2>1. ready' \in BOOLEAN
    BY <1>13, Zenon DEF notify_ready
  <2> QED
    BY <1>13, <2>1 DEF notify_ready, QueueTypeOK
<1>3. ASSUME NEW r \in Requests, Answered(r) PROVE QueueTypeOK'
  BY <1>3 DEF Answered, QueueTypeOK
<1>4. ASSUME NEW i \in Runs, run(i) PROVE QueueTypeOK'
  <2>1. stopped' \in BOOLEAN
    BY <1>4, Zenon DEF run, reopen
  <2> QED
    BY <1>4, <2>1 DEF run, QueueTypeOK
<1>5. ASSUME NEW i \in Runs, Shutdown(i) PROVE QueueTypeOK'
  BY <1>5 DEF Shutdown, QueueTypeOK
<1>6. ASSUME NEW i \in Runs, Top(i) PROVE QueueTypeOK'
  <2>1. started' \in Seq(Requests) /\ batch' \in [Runs -> Seq(Requests)]
    <3>1. /\ started' \in {started, <<>>} /\ batch' \in {batch, [batch EXCEPT ![i] = started]}
          /\ <<>> \in Seq(Requests)
      BY <1>6 DEF Top
    <3> QED
      BY <3>1 DEF QueueTypeOK
  <2>2. loop' \in [Runs -> {"none", "top", "revalidations", "pick", "busy", "waiting",
                            "stopping", "ended"}]
    BY <1>6 DEF Top, QueueTypeOK
  <2> QED
    BY <1>6, <2>1, <2>2 DEF Top, QueueTypeOK
<1>7. ASSUME NEW i \in Runs, queue_revalidations(i) PROVE QueueTypeOK'
  <2>1. CASE batch[i] = <<>>
    <3>1. loop' = [loop EXCEPT ![i] = "pick"] /\ UNCHANGED <<queue, wake, state, refused, batch>>
      BY <1>7, <2>1 DEF queue_revalidations
    <3> QED
      BY <1>7, <3>1 DEF queue_revalidations, QueueTypeOK
  <2>2. CASE batch[i] # <<>>
    <3>1. Head(batch[i]) \in Requests /\ Tail(batch[i]) \in Seq(Requests)
      BY <2>2 DEF QueueTypeOK
    <3>2. push(Head(batch[i]))
      BY <1>7, <2>2 DEF queue_revalidations
    <3> QED
      BY <1>7, <2>2, <3>1, <3>2, PushType DEF queue_revalidations, QueueTypeOK
  <2> QED
    BY <2>1, <2>2
<1>8. ASSUME NEW i \in Runs, next_item(i) PROVE QueueTypeOK'
  <2>1. next_counter(counter[i]) \in 0..14
    <3>1. counter[i] \in 0..14
      BY DEF QueueTypeOK
    <3> QED
      BY <3>1 DEF next_counter
  <2>2. CASE Empty
    BY <1>8, <2>1, <2>2 DEF next_item, QueueTypeOK
  <2>3. CASE ~Empty
    <3> DEFINE l == Picked(counter[i])
    <3>1. l \in Priorities /\ queue[l] # <<>>
      BY <2>3, SomePicked DEF QueueTypeOK
    <3>2. Head(queue[l]) \in Requests /\ Tail(queue[l]) \in Seq(Requests)
      BY <3>1 DEF QueueTypeOK
    <3> QED
      BY <1>8, <2>1, <2>3, <3>1, <3>2 DEF next_item, QueueTypeOK
  <2> QED
    BY <2>2, <2>3
<1>9. ASSUME NEW i \in Runs, Handed(i) PROVE QueueTypeOK'
  BY <1>9 DEF Handed, QueueTypeOK
<1>10. ASSUME NEW i \in Runs, wait_for_work(i) PROVE QueueTypeOK'
  <2>1. wake' \in BOOLEAN /\ ready' \in BOOLEAN
    BY <1>10, Zenon DEF wait_for_work, QueueTypeOK
  <2> QED
    BY <1>10, <2>1 DEF wait_for_work, QueueTypeOK
<1>11. ASSUME NEW i \in Runs, stop_queue(i) PROVE QueueTypeOK'
  <2>1. stopped' \in BOOLEAN
    BY <1>11, Zenon DEF stop_queue
  <2> QED
    BY <1>11, <2>1 DEF stop_queue, QueueTypeOK
<1>12. CASE UNCHANGED queueVars
  BY <1>12 DEF queueVars, QueueTypeOK
<1> QED
  BY <1>1, <1>2, <1>3, <1>4, <1>5, <1>6, <1>7, <1>8, <1>9, <1>10, <1>11, <1>12, <1>13 DEF QueueNext, Loop

\* The variables of the queue and of its loops keep their types.
THEOREM QueueTypeCorrect == QueueSpec => []QueueTypeOK
<1>1. QueueInit => QueueTypeOK
  BY InitInv DEF SchedInv
<1> QED
  BY <1>1, QueueStepType, PTL DEF QueueSpec

-----------------------------------------------------------------------------
(* The inductive step, one action at a time.                               *)

\* What enqueue does to the parts of the invariant that look at the queue.
LEMMA PushKeeps ==
    ASSUME SchedInv, NEW r \in Requests, push(r), stopped' = stopped
    PROVE  /\ NoneStranded'
           /\ wake' \/ Empty' \/ (~wake /\ ~Empty)
           /\ wake => wake'
<1>1. CASE stopped
  <2>1. queue' = queue /\ wake' = wake /\ state' = [state EXCEPT ![r] = "idle"]
    BY <1>1, PushType DEF SchedInv
  <2> QED
    BY <1>1, <2>1 DEF SchedInv, NoneStranded, Empty, QueueTypeOK
<1>2. CASE ~stopped
  BY <1>2, PushType DEF SchedInv, NoneStranded
<1> QED
  BY <1>1, <1>2

\* The loop that runs is the only one.
LEMMA OneRuns ==
    ASSUME SchedInv, NEW i \in Runs, Running(i), NEW j \in Runs, j # i
    PROVE  ~Running(j)
<1>1. loop[i] # "none" /\ loop[i] # "ended" /\ i \in Int /\ j \in Int /\ i >= 1 /\ j >= 1
  BY SchedulerAssumption DEF Running, Runs, SchedulerAssumption
<1>2. CASE j < i
  BY <1>1, <1>2 DEF SchedInv, InOrder, Running
<1>3. CASE i < j
  BY <1>1, <1>3 DEF SchedInv, InOrder, Running
<1> QED
  BY <1>1, <1>2, <1>3

\* A step of a loop that goes on in its run, closes nothing and reopens nothing.
LEMMA LoopGoesOn ==
    ASSUME SchedInv, NEW i \in Runs, NEW s \in {"top", "revalidations", "pick", "busy", "waiting",
           "stopping"}, Running(i), loop' = [loop EXCEPT ![i] = s], stopped' = stopped
    PROVE  InOrder' /\ ClosedBetweenRuns'
<1>1. loop \in [Runs -> {"none", "top", "revalidations", "pick", "busy", "waiting", "stopping",
                         "ended"}]
  BY DEF SchedInv, QueueTypeOK
<1>2. ~stopped
  BY DEF SchedInv, ClosedBetweenRuns
<1>3. ClosedBetweenRuns'
  BY <1>2 DEF ClosedBetweenRuns
<1>4. ASSUME NEW k \in Runs, loop'[k] # "none", NEW j \in 1..(k - 1) PROVE loop'[j] = "ended"
  <2>1. j \in Runs /\ j # k
    BY SchedulerAssumption DEF Runs, SchedulerAssumption
  <2>2. loop[k] # "none"
    BY <1>1, <1>4 DEF Running
  <2>3. loop[j] = "ended"
    BY <2>2 DEF SchedInv, InOrder
  <2> QED
    BY <1>1, <2>1, <2>3 DEF Running
<1> QED
  BY <1>3, <1>4 DEF InOrder

\* Every step keeps the invariant when runs do not overlap.
LEMMA StepInv ==
    ASSUME ~Overlap, SchedInv, [QueueNext]_queueVars
    PROVE  SchedInv'
<1>0. QueueTypeOK'
  BY QueueStepType DEF SchedInv
<1> USE DEF SchedInv
<1>1. ASSUME NEW r \in Requests, submit(r) PROVE SchedInv'
  <2>1. NoneStranded' /\ (wake => wake') /\ (wake' \/ Empty' \/ (~wake /\ ~Empty))
    BY <1>1, PushKeeps DEF submit
  <2>2. loop' = loop /\ stopped' = stopped /\ ready' = ready /\ started' = started
        /\ notifying' = notifying
    BY <1>1 DEF submit
  <2>3. InOrder' /\ ClosedBetweenRuns' /\ RevalidationsSeen'
    BY <2>2 DEF InOrder, ClosedBetweenRuns, RevalidationsSeen, Running
  <2>4. LanesSeen'
    BY <2>1, <2>2 DEF LanesSeen
  <2> QED
    BY <1>0, <2>1, <2>3, <2>4
<1>2. ASSUME NEW r \in Requests, revalidate_later(r) PROVE SchedInv'
  <2>1. loop' = loop /\ stopped' = stopped /\ queue' = queue /\ wake' = wake /\ notifying' # {}
    BY <1>2 DEF revalidate_later
  <2>2. InOrder' /\ ClosedBetweenRuns' /\ LanesSeen' /\ RevalidationsSeen'
    BY <2>1 DEF InOrder, ClosedBetweenRuns, RevalidationsSeen, LanesSeen, Empty, Running
  <2>3. NoneStranded'
    BY <1>2, <2>1 DEF revalidate_later, NoneStranded, Empty, QueueTypeOK
  <2> QED
    BY <1>0, <2>2, <2>3
<1>13. ASSUME NEW r \in Requests, notify_ready(r) PROVE SchedInv'
  <2>1. UNCHANGED <<queue, stopped, wake, started, state, loop>> /\ ready'
    BY <1>13 DEF notify_ready
  <2> QED
    BY <1>0, <2>1 DEF InOrder, ClosedBetweenRuns, NoneStranded, RevalidationsSeen, LanesSeen, Empty,
       Running
<1>3. ASSUME NEW r \in Requests, Answered(r) PROVE SchedInv'
  <2>1. UNCHANGED <<queue, stopped, wake, started, notifying, ready, loop>>
    BY <1>3 DEF Answered
  <2>2. NoneStranded'
    BY <1>3, <2>1 DEF Answered, NoneStranded, Empty, QueueTypeOK
  <2> QED
    BY <1>0, <2>1, <2>2 DEF InOrder, ClosedBetweenRuns, RevalidationsSeen, LanesSeen, Empty, Running
<1>4. ASSUME NEW i \in Runs, run(i) PROVE SchedInv'
  <2>1. /\ ~stopped' /\ loop' = [loop EXCEPT ![i] = "top"] /\ loop[i] = "none"
        /\ UNCHANGED <<queue, wake, started, notifying, ready>>
        /\ \A j \in 1..(i - 1) : loop[j] = "ended"
    BY <1>4 DEF run, reopen
  <2>2. InOrder'
    <3>1. ASSUME NEW k \in Runs, loop'[k] # "none", NEW j \in 1..(k - 1) PROVE loop'[j] = "ended"
      <4>1. j \in Runs /\ i \in Int /\ k \in Int
        BY SchedulerAssumption DEF Runs, SchedulerAssumption
      <4>2. CASE k = i
        BY <2>1, <4>1, <4>2 DEF QueueTypeOK
      <4>3. CASE k # i
        BY <2>1, <3>1, <4>1, <4>3 DEF InOrder, QueueTypeOK
      <4> QED
        BY <4>2, <4>3
    <3> QED
      BY <3>1 DEF InOrder
  <2>3. ClosedBetweenRuns' /\ NoneStranded'
    BY <2>1 DEF ClosedBetweenRuns, NoneStranded
  <2>4. LanesSeen' /\ RevalidationsSeen'
    BY <2>1 DEF LanesSeen, RevalidationsSeen, Looked, Empty, QueueTypeOK
  <2> QED
    BY <1>0, <2>2, <2>3, <2>4
<1>5. ASSUME NEW i \in Runs, Shutdown(i) PROVE SchedInv'
  BY <1>0, <1>5 DEF Shutdown, InOrder, ClosedBetweenRuns, NoneStranded, LanesSeen,
     RevalidationsSeen, Empty, Running
<1>6. ASSUME NEW i \in Runs, Top(i) PROVE SchedInv'
  <2>1. Running(i) /\ UNCHANGED <<stopped, queue, wake, notifying, ready, state>>
    BY <1>6 DEF Top, Running
  <2>2. /\ loop' \in {[loop EXCEPT ![i] = "stopping"], [loop EXCEPT ![i] = "revalidations"]}
        /\ started' = started \/ started' = <<>>
        /\ i \in down => loop' = [loop EXCEPT ![i] = "stopping"]
        /\ i \notin down => started' = <<>>
    BY <1>6 DEF Top
  <2>3. InOrder' /\ ClosedBetweenRuns'
    BY <2>1, <2>2, LoopGoesOn
  <2>4. NoneStranded' /\ LanesSeen' /\ RevalidationsSeen'
    BY <2>1, <2>2 DEF NoneStranded, LanesSeen, RevalidationsSeen, Looked, Empty, QueueTypeOK
  <2> QED
    BY <1>0, <2>3, <2>4
<1>7. ASSUME NEW i \in Runs, queue_revalidations(i) PROVE SchedInv'
  <2>1. loop[i] = "revalidations" /\ Running(i) /\ UNCHANGED <<stopped, started, notifying, ready>>
    BY <1>7 DEF queue_revalidations, Running
  <2>2. CASE batch[i] = <<>>
    <3>1. loop' = [loop EXCEPT ![i] = "pick"] /\ UNCHANGED <<queue, wake, state>>
      BY <1>7, <2>2 DEF queue_revalidations
    <3>2. InOrder' /\ ClosedBetweenRuns'
      BY <2>1, <3>1, LoopGoesOn
    <3>3. NoneStranded' /\ LanesSeen' /\ RevalidationsSeen'
      BY <2>1, <3>1 DEF NoneStranded, LanesSeen, RevalidationsSeen, Looked, Empty, QueueTypeOK
    <3> QED
      BY <1>0, <3>2, <3>3
  <2>3. CASE batch[i] # <<>>
    <3>1. loop' = loop /\ push(Head(batch[i])) /\ Head(batch[i]) \in Requests
      BY <1>7, <2>3 DEF queue_revalidations, QueueTypeOK
    <3>2. NoneStranded' /\ (wake => wake') /\ (wake' \/ Empty' \/ (~wake /\ ~Empty))
      BY <2>1, <3>1, PushKeeps
    <3>3. InOrder' /\ ClosedBetweenRuns' /\ RevalidationsSeen' /\ LanesSeen'
      BY <2>1, <3>1, <3>2 DEF InOrder, ClosedBetweenRuns, RevalidationsSeen, LanesSeen, Running
    <3> QED
      BY <1>0, <3>2, <3>3
  <2> QED
    BY <2>2, <2>3
<1>8. ASSUME NEW i \in Runs, next_item(i) PROVE SchedInv'
  <2>1. loop[i] = "pick" /\ Running(i) /\ UNCHANGED <<stopped, started, notifying, ready, wake>>
    BY <1>8 DEF next_item, Running
  <2>2. /\ loop' \in {[loop EXCEPT ![i] = "waiting"], [loop EXCEPT ![i] = "busy"]}
        /\ loop' = [loop EXCEPT ![i] = "waiting"] => Empty /\ queue' = queue
    BY <1>8 DEF next_item, QueueTypeOK
  <2>3. InOrder' /\ ClosedBetweenRuns'
    BY <2>1, <2>2, LoopGoesOn
  <2>4. NoneStranded'
    BY <2>1 DEF NoneStranded, ClosedBetweenRuns
  <2>5. RevalidationsSeen'
    BY <2>1, <2>2 DEF RevalidationsSeen, Looked, QueueTypeOK
  <2>6. LanesSeen'
    <3>1. \A j \in Runs : j # i => loop'[j] # "waiting"
      BY <2>1, <2>2, OneRuns DEF Running, QueueTypeOK
    <3> QED
      BY <2>1, <2>2, <3>1 DEF LanesSeen, Empty, QueueTypeOK
  <2> QED
    BY <1>0, <2>3, <2>4, <2>5, <2>6
<1>9. ASSUME NEW i \in Runs, Handed(i) PROVE SchedInv'
  <2>1. /\ Running(i) /\ loop' = [loop EXCEPT ![i] = "top"]
        /\ UNCHANGED <<stopped, queue, wake, notifying, ready, started, state>>
    BY <1>9 DEF Handed, Running
  <2>2. InOrder' /\ ClosedBetweenRuns'
    BY <2>1, LoopGoesOn
  <2> QED
    BY <1>0, <2>1, <2>2 DEF NoneStranded, LanesSeen, RevalidationsSeen, Looked, Empty, QueueTypeOK
<1>10. ASSUME NEW i \in Runs, wait_for_work(i) PROVE SchedInv'
  <2>1. /\ Running(i) /\ loop' = [loop EXCEPT ![i] = "top"]
        /\ UNCHANGED <<stopped, queue, started, state>>
    BY <1>10 DEF wait_for_work, Running
  <2>2. InOrder' /\ ClosedBetweenRuns'
    BY <2>1, LoopGoesOn
  <2>3. \A j \in Runs : loop'[j] \notin Looked
    BY <2>1, OneRuns DEF Running, Looked, QueueTypeOK
  <2> QED
    BY <1>0, <2>1, <2>2, <2>3 DEF NoneStranded, LanesSeen, RevalidationsSeen, Looked, Empty
<1>11. ASSUME NEW i \in Runs, stop_queue(i) PROVE SchedInv'
  <2>1. Running(i) /\ loop' = [loop EXCEPT ![i] = "ended"] /\ UNCHANGED <<started, notifying, ready, wake>>
    BY <1>11 DEF stop_queue, Running
  <2>2. \A j \in Runs : ~Running(j)'
    BY <2>1, OneRuns DEF Running, QueueTypeOK
  <2>3. InOrder'
    BY <2>1, SchedulerAssumption DEF InOrder, Running, Runs, SchedulerAssumption, QueueTypeOK
  <2>4. NoneStranded'
    BY <1>11 DEF stop_queue, NoneStranded, Empty
  <2> QED
    BY <1>0, <2>2, <2>3, <2>4 DEF ClosedBetweenRuns, LanesSeen, RevalidationsSeen, Looked, Running
<1>12. CASE UNCHANGED queueVars
  BY <1>0, <1>12 DEF queueVars, InOrder, ClosedBetweenRuns, NoneStranded, LanesSeen,
     RevalidationsSeen, Empty, Running
<1> QED
  BY <1>1, <1>2, <1>3, <1>4, <1>5, <1>6, <1>7, <1>8, <1>9, <1>10, <1>11, <1>12, <1>13 DEF QueueNext, Loop

LEMMA Invariant ==
    ASSUME ~Overlap
    PROVE  QueueSpec => []SchedInv
<1>1. SchedInv /\ [QueueNext]_queueVars => SchedInv'
  BY StepInv
<1> QED
  BY <1>1, InitInv, PTL DEF QueueSpec

\* When run() is only called once the loop before it has ended, a shutdown strands no
\* request: stop_queue drains it, or submit sees the flag.
THEOREM ShutdownStrandsNone ==
    ASSUME ~Overlap
    PROVE  QueueSpec => []NoneStranded
<1>1. SchedInv => NoneStranded
  BY DEF SchedInv
<1> QED
  BY <1>1, Invariant, PTL

\* Under the same condition the queue is open as long as a run that was not shut down is
\* under way (run reopens it, stop_queue closes it last).
THEOREM QueueOpenInRun ==
    ASSUME ~Overlap
    PROVE  QueueSpec => []OpenWhileRunning
<1>1. SchedInv => OpenWhileRunning
  BY DEF SchedInv, OpenWhileRunning, ClosedBetweenRuns
<1> QED
  BY <1>1, Invariant, PTL

\* Under the same condition no loop sleeps on work it was not woken for: a permit left
\* between the look at the lanes and wait_for_work is kept.
THEOREM WakeupsAreKept ==
    ASSUME ~Overlap
    PROVE  QueueSpec => []NoLostWakeup
<1>1. SchedInv => NoLostWakeup
  BY DEF SchedInv, NoLostWakeup, LanesSeen, RevalidationsSeen, Looked
<1> QED
  BY <1>1, Invariant, PTL

-----------------------------------------------------------------------------
(* The slots: types.                                                       *)

\* The initial state of the pool (SlotPool::new) is well typed.
LEMMA InitType == Init => TypeOK
<1> SUFFICES ASSUME Init PROVE TypeOK
  OBVIOUS
<1>1. h2 \in [Origins -> BOOLEAN] /\ locked \in BOOLEAN
  BY Zenon DEF Init
<1>2. lanes \in [Lanes -> SUBSET Tickets] /\ ahead \in [Tickets -> SUBSET Tickets]
  BY DEF Init
<1>3. /\ global_free \in Int /\ in_use \in [Origins -> Int] /\ turn \in 0..14
      /\ passed \in [Lanes -> Nat]
  BY SlotAssumption DEF SlotAssumption, Init
<1>4. /\ ticket \in [Tickets -> {"idle", "waiting", "granted", "held"}]
      /\ origin \in [Tickets -> Origins]
  BY DEF Init
<1>5. QED
  BY <1>1, <1>2, <1>3, <1>4 DEF TypeOK

\* Every operation of the pool keeps the types.
LEMMA StepType == TypeOK /\ [Next]_vars => TypeOK'
<1> SUFFICES ASSUME TypeOK, [Next]_vars PROVE TypeOK'
  OBVIOUS
<1> USE DEF TypeOK, Lanes
<1>1. ASSUME NEW t \in Tickets, NEW o \in Origins, NEW l \in Lanes, enqueue(t, o, l)
      PROVE TypeOK'
  BY <1>1 DEF enqueue, start_grant
<1>2. ASSUME NEW t \in Tickets, NEW l \in Lanes, Grant(l, t)
      PROVE TypeOK'
  BY <1>2 DEF Grant, Pick, next_turn, Live
<1>3. ASSUME NEW t \in Tickets, NEW l \in Lanes, GrantUnsent(l, t)
      PROVE TypeOK'
  BY <1>3 DEF GrantUnsent, Pick, next_turn
<1>4. ASSUME NEW t \in Tickets, GiveUp(t) PROVE TypeOK'
  BY <1>4 DEF GiveUp
<1>5. ASSUME NEW t \in Tickets, wait(t) PROVE TypeOK'
  BY <1>5 DEF wait
<1>6. ASSUME NEW t \in Tickets, release(t) PROVE TypeOK'
  BY <1>6 DEF release, start_grant
<1>7. CASE GrantDone
  BY <1>7 DEF GrantDone
<1>8. ASSUME NEW o \in H2Origins, observe(o) PROVE TypeOK'
  BY <1>8, SlotAssumption DEF SlotAssumption, observe, start_grant
<1>9. CASE UNCHANGED vars
  BY <1>9 DEF vars
<1>10. QED
  BY <1>1, <1>2, <1>3, <1>4, <1>5, <1>6, <1>7, <1>8, <1>9 DEF Next

\* The variables of the pool keep their types.
THEOREM TypeCorrect == Spec => []TypeOK
BY InitType, StepType, PTL DEF Spec

-----------------------------------------------------------------------------
(* Slots are conserved, and no origin exceeds its limit.                   *)

HoldersOf(o) == {t \in Holders : origin[t] = o}

AccInv ==
    /\ TypeOK
    /\ IsFiniteSet(Holders)
    /\ SlotsConserved
    /\ OriginAccounting
    /\ WithinLimit

\* limit() is a positive natural: the slots of an origin never shrink to none.
LEMMA LimitType == ASSUME TypeOK, NEW o \in Origins PROVE limit(o) \in Nat \ {0}
BY SlotAssumption DEF SlotAssumption, limit, TypeOK

\* A step that serves nobody and gives nothing back keeps the accounts.
LEMMA SameHolders ==
    ASSUME AccInv, TypeOK', UNCHANGED <<global_free, in_use>>, Holders' = Holders,
           \A t \in Holders : origin'[t] = origin[t],
           \A o \in Origins : limit(o)' >= limit(o)
    PROVE  AccInv'
<1>1. ASSUME NEW o \in Origins
      PROVE  {t \in Holders : origin[t] = o}' = {t \in Holders : origin[t] = o}
  OBVIOUS
<1>2. OriginAccounting'
  BY <1>1 DEF OriginAccounting, AccInv
<1>3. WithinLimit'
  <2> SUFFICES ASSUME NEW o \in Origins PROVE in_use'[o] <= limit(o)'
    BY DEF WithinLimit
  <2>1. limit(o) \in Nat /\ limit(o)' \in Nat /\ in_use[o] \in Int
    BY LimitType, SlotAssumption DEF SlotAssumption, AccInv, TypeOK, limit
  <2>2. QED
    BY <2>1 DEF AccInv, WithinLimit
<1>4. QED
  BY <1>2, <1>3 DEF AccInv, SlotsConserved

\* Serving a waiter takes one global slot and one of its origin, below the limit.
LEMMA GrantAccounts ==
    ASSUME AccInv, TypeOK', NEW t \in Tickets, NEW l \in Lanes, Grant(l, t)
    PROVE  AccInv'
<1> USE DEF AccInv
<1> DEFINE p == origin[t]
<1>1. /\ t \notin Holders /\ Holders' = Holders \cup {t} /\ p \in Origins
      /\ global_free > 0 /\ global_free' = global_free - 1
      /\ in_use' = [in_use EXCEPT ![p] = @ + 1] /\ UNCHANGED <<origin, h2>>
      /\ in_use[p] < limit(p)
  BY DEF Grant, Pick, Live, Holders, TypeOK, next_waiter, Eligible, can_go
<1>2. /\ IsFiniteSet(Holders') /\ Cardinality(Holders') = Cardinality(Holders) + 1
      /\ Cardinality(Holders) \in Nat
  BY <1>1, FS_AddElement, FS_CardinalityType
<1>3. SlotsConserved'
  BY <1>1, <1>2, SlotAssumption DEF SlotAssumption, SlotsConserved, TypeOK
<1>4. ASSUME NEW o \in Origins PROVE in_use'[o] = Cardinality(HoldersOf(o)')
  <2>1. IsFiniteSet(HoldersOf(o)) /\ in_use[o] = Cardinality(HoldersOf(o))
    BY FS_Subset DEF HoldersOf, OriginAccounting
  <2>2. CASE o = p
    <3>1. HoldersOf(o)' = HoldersOf(o) \cup {t} /\ t \notin HoldersOf(o)
      BY <1>1, <2>2 DEF HoldersOf
    <3>2. Cardinality(HoldersOf(o)') = Cardinality(HoldersOf(o)) + 1
      BY <3>1, <2>1, FS_AddElement
    <3>3. QED
      BY <3>2, <2>1, <2>2, <1>1 DEF TypeOK
  <2>3. CASE o # p
    <3>1. HoldersOf(o)' = HoldersOf(o)
      BY <1>1, <2>3 DEF HoldersOf
    <3>2. QED
      BY <3>1, <2>1, <2>3, <1>1 DEF TypeOK
  <2>4. QED
    BY <2>2, <2>3
<1>5. OriginAccounting'
  BY <1>4 DEF OriginAccounting, HoldersOf
<1>6. WithinLimit'
  <2> SUFFICES ASSUME NEW o \in Origins PROVE in_use'[o] <= limit(o)'
    BY DEF WithinLimit
  <2>1. limit(o)' = limit(o) /\ limit(o) \in Nat /\ in_use[o] \in Int /\ limit(p) \in Nat
    BY <1>1, LimitType DEF limit, TypeOK
  <2>2. QED
    BY <1>1, <2>1 DEF WithinLimit, TypeOK
<1>7. QED
  BY <1>2, <1>3, <1>5, <1>6

\* Dropping slots gives back exactly what was taken.
LEMMA ReleaseAccounts ==
    ASSUME AccInv, TypeOK', NEW t \in Tickets, release(t)
    PROVE  AccInv'
<1> USE DEF AccInv
<1> DEFINE p == origin[t]
<1>1. /\ t \in Holders /\ Holders' = Holders \ {t} /\ p \in Origins
      /\ global_free' = global_free + 1
      /\ in_use' = [in_use EXCEPT ![p] = @ - 1] /\ UNCHANGED <<origin, h2>>
  BY DEF release, Holders, TypeOK
<1>2. /\ IsFiniteSet(Holders') /\ Cardinality(Holders') = Cardinality(Holders) - 1
      /\ Cardinality(Holders) \in Nat
  BY <1>1, FS_RemoveElement, FS_CardinalityType
<1>3. SlotsConserved'
  BY <1>1, <1>2, SlotAssumption DEF SlotAssumption, SlotsConserved, TypeOK
<1>4. ASSUME NEW o \in Origins PROVE in_use'[o] = Cardinality(HoldersOf(o)')
  <2>1. IsFiniteSet(HoldersOf(o)) /\ in_use[o] = Cardinality(HoldersOf(o))
    BY FS_Subset DEF HoldersOf, OriginAccounting
  <2>2. CASE o = p
    <3>1. HoldersOf(o)' = HoldersOf(o) \ {t} /\ t \in HoldersOf(o)
      BY <1>1, <2>2 DEF HoldersOf
    <3>2. Cardinality(HoldersOf(o)') = Cardinality(HoldersOf(o)) - 1
      BY <3>1, <2>1, FS_RemoveElement
    <3>3. QED
      BY <3>2, <2>1, <2>2, <1>1 DEF TypeOK
  <2>3. CASE o # p
    <3>1. HoldersOf(o)' = HoldersOf(o)
      BY <1>1, <2>3 DEF HoldersOf
    <3>2. QED
      BY <3>1, <2>1, <2>3, <1>1 DEF TypeOK
  <2>4. QED
    BY <2>2, <2>3
<1>5. OriginAccounting'
  BY <1>4 DEF OriginAccounting, HoldersOf
<1>6. WithinLimit'
  <2> SUFFICES ASSUME NEW o \in Origins PROVE in_use'[o] <= limit(o)'
    BY DEF WithinLimit
  <2>1. limit(o)' = limit(o) /\ limit(o) \in Nat /\ in_use[o] \in Int
    BY <1>1, LimitType DEF limit, TypeOK
  <2>2. QED
    BY <1>1, <2>1 DEF WithinLimit, TypeOK
<1>7. QED
  BY <1>2, <1>3, <1>5, <1>6

\* The accounts hold initially and every operation keeps them.
LEMMA AccountsInvariant == Spec => []AccInv
<1>1. Init => AccInv
  <2> SUFFICES ASSUME Init PROVE AccInv
    OBVIOUS
  <2>1. Holders = {}
    BY DEF Init, Holders
  <2>2. IsFiniteSet({}) /\ Cardinality({}) = 0
    BY FS_EmptySet
  <2>3. \A o \in Origins : HoldersOf(o) = {}
    BY <2>1 DEF HoldersOf
  <2>4. SlotsConserved /\ OriginAccounting
    BY <2>1, <2>2, <2>3, SlotAssumption
       DEF SlotAssumption, SlotsConserved, OriginAccounting, HoldersOf, Init
  <2>5. WithinLimit
    BY InitType, LimitType DEF WithinLimit, Init
  <2>6. QED
    BY <2>1, <2>2, <2>4, <2>5, InitType DEF AccInv
<1>2. AccInv /\ [Next]_vars => AccInv'
  <2> SUFFICES ASSUME AccInv, [Next]_vars PROVE AccInv'
    OBVIOUS
  <2>0. TypeOK /\ TypeOK'
    BY StepType DEF AccInv
  <2>a. ASSUME UNCHANGED h2 PROVE \A o \in Origins : limit(o)' >= limit(o)
    BY <2>a, <2>0, LimitType DEF limit
  <2>1. ASSUME NEW t \in Tickets, NEW o \in Origins, NEW l \in Lanes, enqueue(t, o, l)
        PROVE AccInv'
    <3>1. Holders' = Holders /\ \A u \in Holders : origin'[u] = origin[u]
      BY <2>0, <2>1 DEF enqueue, Holders, TypeOK
    <3>2. UNCHANGED <<global_free, in_use, h2>>
      BY <2>1 DEF enqueue
    <3>3. QED
      BY <3>1, <3>2, <2>0, <2>a, SameHolders
  <2>2. ASSUME NEW t \in Tickets, NEW l \in Lanes, Grant(l, t) PROVE AccInv'
    BY <2>0, <2>2, GrantAccounts
  <2>3. ASSUME NEW t \in Tickets, NEW l \in Lanes, GrantUnsent(l, t) PROVE AccInv'
    <3>1. UNCHANGED <<global_free, in_use, h2, ticket, origin>>
      BY <2>3 DEF GrantUnsent, Pick
    <3>2. QED
      BY <3>1, <2>0, <2>a, SameHolders DEF Holders
  <2>4. ASSUME NEW t \in Tickets, GiveUp(t) PROVE AccInv'
    <3>1. Holders' = Holders /\ UNCHANGED <<global_free, in_use, h2, origin>>
      BY <2>0, <2>4 DEF GiveUp, Live, Holders, TypeOK
    <3>2. QED
      BY <3>1, <2>0, <2>a, SameHolders
  <2>5. ASSUME NEW t \in Tickets, wait(t) PROVE AccInv'
    <3>1. Holders' = Holders /\ UNCHANGED <<global_free, in_use, h2, origin>>
      BY <2>0, <2>5 DEF wait, Holders, TypeOK
    <3>2. QED
      BY <3>1, <2>0, <2>a, SameHolders
  <2>6. ASSUME NEW t \in Tickets, release(t) PROVE AccInv'
    BY <2>0, <2>6, ReleaseAccounts
  <2>7. CASE GrantDone
    <3>1. UNCHANGED <<global_free, in_use, h2, ticket, origin>>
      BY <2>7 DEF GrantDone
    <3>2. QED
      BY <3>1, <2>0, <2>a, SameHolders DEF Holders
  <2>8. ASSUME NEW o \in H2Origins, observe(o) PROVE AccInv'
    <3>1. UNCHANGED <<global_free, in_use, ticket, origin>>
      BY <2>8 DEF observe
    <3>2. \A q \in Origins : h2[q] => h2'[q]
      BY <2>0, <2>8 DEF observe, TypeOK
    <3>3. \A q \in Origins : limit(q)' >= limit(q)
      BY <3>2, SlotAssumption DEF SlotAssumption, limit
    <3>4. QED
      BY <3>1, <3>3, <2>0, SameHolders DEF Holders
  <2>9. CASE UNCHANGED vars
    <3>1. UNCHANGED <<global_free, in_use, h2, ticket, origin>>
      BY <2>9 DEF vars
    <3>2. QED
      BY <3>1, <2>0, <2>a, SameHolders DEF Holders
  <2>10. QED
    BY <2>1, <2>2, <2>3, <2>4, <2>5, <2>6, <2>7, <2>8, <2>9 DEF Next
<1>3. QED
  BY <1>1, <1>2, PTL DEF Spec

\* No slot of the fetcher is lost or given back twice (release, grant), and an origin's
\* count is the number of fetches holding its slots, at most its limit.
THEOREM SlotsAreAccounted == Spec => []SlotsAccounted
<1>1. AccInv => SlotsAccounted
  BY DEF AccInv, SlotsAccounted
<1>2. QED
  BY <1>1, AccountsInvariant, PTL

-----------------------------------------------------------------------------
(* No waiter is lost, and no slot idles while a fetch waits for it.        *)

LineInv == TypeOK /\ LiveInLine /\ NoSlotIdles

\* A ticket that is alive stays in its lane until it is served, and the lock is
\* only let go when nobody can be served.
LEMMA LineInvariant == Spec => []LineInv
<1>1. Init => LineInv
  BY InitType DEF Init, LineInv, LiveInLine, NoSlotIdles, Live
<1>2. LineInv /\ [Next]_vars => LineInv'
  <2> SUFFICES ASSUME LineInv, [Next]_vars PROVE LineInv'
    OBVIOUS
  <2> USE DEF LineInv, LiveInLine, Live
  <2>0. TypeOK /\ TypeOK'
    BY StepType
  <2>1. ASSUME NEW t \in Tickets, NEW o \in Origins, NEW l \in Lanes, enqueue(t, o, l)
        PROVE LiveInLine' /\ NoSlotIdles'
    <3>1. NoSlotIdles'
      BY <2>1 DEF enqueue, start_grant, NoSlotIdles
    <3>2. ASSUME NEW k \in Lanes
          PROVE  lanes'[k] = {u \in lanes[k] \cup (IF k = l THEN {t} ELSE {}) : ticket'[u] = "waiting"}
      BY <2>0, <2>1 DEF enqueue, start_grant, TypeOK
    <3>3. /\ \A k \in Lanes : t \notin lanes[k]
          /\ ticket' = [ticket EXCEPT ![t] = "waiting"]
      BY <2>1 DEF enqueue
    <3>4. LiveInLine'
      BY <2>0, <3>2, <3>3 DEF TypeOK
    <3>5. QED
      BY <3>1, <3>4
  <2>2. ASSUME NEW t \in Tickets, NEW l \in Lanes, Grant(l, t)
        PROVE LiveInLine' /\ NoSlotIdles'
    BY <2>0, <2>2 DEF Grant, Pick, TypeOK, NoSlotIdles
  <2>3. ASSUME NEW t \in Tickets, NEW l \in Lanes, GrantUnsent(l, t)
        PROVE LiveInLine' /\ NoSlotIdles'
    BY <2>0, <2>3 DEF GrantUnsent, Pick, TypeOK, NoSlotIdles
  <2>4. ASSUME NEW t \in Tickets, GiveUp(t) PROVE LiveInLine' /\ NoSlotIdles'
    BY <2>0, <2>4 DEF GiveUp, TypeOK, NoSlotIdles, can_go, limit
  <2>5. ASSUME NEW t \in Tickets, wait(t) PROVE LiveInLine' /\ NoSlotIdles'
    BY <2>0, <2>5 DEF wait, TypeOK, NoSlotIdles, can_go, limit
  <2>6. ASSUME NEW t \in Tickets, release(t) PROVE LiveInLine' /\ NoSlotIdles'
    BY <2>0, <2>6 DEF release, start_grant, TypeOK, NoSlotIdles
  <2>7. ASSUME GrantDone PROVE LiveInLine' /\ NoSlotIdles'
    BY <2>0, <2>7 DEF GrantDone, Eligible, NoSlotIdles, can_go, limit
  <2>8. ASSUME NEW o \in H2Origins, observe(o) PROVE LiveInLine' /\ NoSlotIdles'
    BY <2>0, <2>8 DEF observe, start_grant, TypeOK, NoSlotIdles
  <2>9. ASSUME UNCHANGED vars PROVE LiveInLine' /\ NoSlotIdles'
    BY <2>9 DEF vars, NoSlotIdles, can_go, limit
  <2>10. QED
    BY <2>0, <2>1, <2>2, <2>3, <2>4, <2>5, <2>6, <2>7, <2>8, <2>9 DEF Next
<1>3. QED
  BY <1>1, <1>2, PTL DEF Spec

\* The pool never drops a live waiter, and never sleeps on a slot one could use.
THEOREM NoLostWaiter == Spec => [](LiveInLine /\ NoSlotIdles)
<1>1. LineInv => LiveInLine /\ NoSlotIdles
  BY DEF LineInv
<1>2. QED
  BY <1>1, LineInvariant, PTL

-----------------------------------------------------------------------------
(* A lane with a waiter that can go is served within a cycle.              *)

\* How many picks may have passed over lane l when the cycle stands at k: those
\* since the lane was last the preferred one.
Since(l, k) ==
    CASE l = High   -> IF k = 0 THEN 7 ELSE IF k <= 8 THEN 0 ELSE k - 8
      [] l = Normal -> IF k <= 8 THEN k + 3 ELSE IF k <= 12 THEN 0 ELSE k - 12
      [] l = Low    -> IF k <= 12 THEN k + 1 ELSE 0
      [] OTHER      -> k

PassedInv == TypeOK /\ \A l \in Lanes : passed[l] <= Since(l, turn)

\* The lane the cycle prefers is picked if it has a waiter that can go.
LEMMA PreferredIsPicked ==
    ASSUME TypeOK, NEW l \in Lanes, NEW t \in Tickets, next_waiter(l, t),
           Eligible(lane_order(turn)[1]) # {}
    PROVE  lane_order(turn)[1] = l
BY DEF next_waiter

\* One pick lengthens the wait of a lane it passes over by one, and never that
\* of the preferred lane.
LEMMA PickBounded ==
    ASSUME PassedInv, NEW l \in Lanes, NEW t \in Tickets, Pick(l, t)
    PROVE  \A k \in Lanes : passed'[k] <= Since(k, turn')
<1> SUFFICES ASSUME NEW k \in Lanes PROVE passed'[k] <= Since(k, turn')
  OBVIOUS
<1> USE DEF PassedInv, TypeOK, Lanes, High, Normal, Low, Idle
<1>1. turn \in 0..14 /\ turn' = (turn + 1) % 15 /\ passed[k] \in Nat
  BY DEF Pick, next_turn
<1>2. turn' = IF turn = 14 THEN 0 ELSE turn + 1
  BY <1>1
<1>3. CASE k # l /\ Eligible(k) # {}
  <2>1. lane_order(turn)[1] # k
    BY <1>3, PreferredIsPicked DEF Pick
  <2>2. passed'[k] = passed[k] + 1
    BY <1>3 DEF Pick
  <2>3. passed[k] <= Since(k, turn)
    OBVIOUS
  <2>4. Since(k, turn') = Since(k, turn) + 1
    BY <2>1, <1>1, <1>2 DEF Since, lane_order
  <2>5. Since(k, turn) \in Nat
    BY <1>1 DEF Since
  <2>6. QED
    BY <2>2, <2>3, <2>4, <2>5, <1>1
<1>4. CASE ~(k # l /\ Eligible(k) # {})
  <2>1. passed'[k] = 0
    BY <1>4 DEF Pick
  <2>2. QED
    BY <2>1, <1>1, <1>2 DEF Since
<1>5. QED
  BY <1>3, <1>4

\* Every lane is preferred once in 15 picks, so a lane with a waiter that can go
\* is passed over at most 7, 11, 13 and 14 times in a row (lane_order).
THEOREM LanesAreServed == Spec => []LaneServedWithinCycle
<1>1. Init => PassedInv
  BY InitType DEF Init, PassedInv, Since, Lanes, High, Normal, Low, Idle
<1>2. PassedInv /\ [Next]_vars => PassedInv'
  <2> SUFFICES ASSUME PassedInv, [Next]_vars PROVE PassedInv'
    OBVIOUS
  <2>0. TypeOK'
    BY StepType DEF PassedInv
  <2>1. ASSUME NEW t \in Tickets, NEW l \in Lanes, Pick(l, t) PROVE PassedInv'
    BY <2>0, <2>1, PickBounded DEF PassedInv
  <2>2. CASE UNCHANGED <<turn, passed>>
    BY <2>0, <2>2 DEF PassedInv
  <2>3. QED
    BY <2>1, <2>2 DEF Next, enqueue, Grant, GrantUnsent, GiveUp, wait, release, GrantDone,
                      observe, vars
<1>3. PassedInv => LaneServedWithinCycle
  BY DEF PassedInv, TypeOK, Since, LaneServedWithinCycle, MaxPassed, Lanes, High, Normal, Low, Idle
<1>4. QED
  BY <1>1, <1>2, <1>3, PTL DEF Spec
=============================================================================
