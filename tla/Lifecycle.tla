------------------------------ MODULE Lifecycle -----------------------------
(***************************************************************************)
(* What the observers of the requests that share a fetch see               *)
(* (net/lifecycle.rs, with accept and watch_caller of net/fetcher.rs).     *)
(* Three kinds of threads report to a request's Lifecycle: the task of the *)
(* fetch, through Shared; the run loop, which accepts requests; and the    *)
(* watcher of the request, when its caller cancels.  on_event decides and  *)
(* then emits, so it is two steps, and threads interleave between them.    *)
(***************************************************************************)
EXTENDS Integers, Sequences, FiniteSets

CONSTANTS Requests, Leader,
          MaxReports,    \* bound: the events a fetch reports before its end
          Nothing

Terminal == {"Finished", "Failed", "Cancelled"}

ASSUME LifecycleAssumption ==
    /\ Leader \in Requests /\ Nothing \notin Requests \cup Terminal /\ IsFiniteSet(Requests)
    /\ MaxReports \in Nat
    /\ {"task", "loop"} \cap Requests = {}

\* Who calls on_event: the fetch's task, the run loop, a request's watcher.
Threads == {"task", "loop"} \cup Requests

VARIABLES
    seen,        \* the events each request's observer got, in order
    ended,       \* Lifecycle::ended
    signal,      \* the requests whose ended_signal fired
    work,        \* calls of on_ref_active minus calls of on_ref_done
    watch,       \* the watcher of each request: none, watching, cancelled, gone
    joining,     \* the request the run loop is accepting
    attached,    \* Shared::attached: the requests, ...
    end,         \* ... and the fetch's end
    reports,     \* events reported so far
    pending,     \* per thread: calls of on_event still to make
    emitting,    \* per thread: the call that has decided to emit
    torn         \* the runtime went away with all its tasks

vars == <<seen, ended, signal, work, watch, joining, attached, end, reports, pending,
          emitting, torn>>

Init ==
    /\ seen = [r \in Requests |-> <<>>]
    /\ ended = [r \in Requests |-> FALSE] /\ signal = {}
    /\ work = [r \in Requests |-> 0]
    /\ watch = [r \in Requests |-> "none"]
    /\ joining = Nothing
    /\ attached = {} /\ end = Nothing
    /\ reports = 0
    /\ torn = FALSE
    /\ pending = [t \in Threads |-> {}]
    /\ emitting = [t \in Threads |-> <<>>]

Idle(t) == pending[t] = {} /\ emitting[t] = <<>>

-----------------------------------------------------------------------------
(* Lifecycle::on_event, called by thread t for request r.                  *)

decide_ends_unchecked(t, r, ev) ==
    /\ pending' = [pending EXCEPT ![t] = @ \ {<<r, ev>>}]
    /\ emitting' = [emitting EXCEPT ![t] =
                      IF ended[r] /\ ev \notin Terminal THEN <<>> ELSE <<r, ev>>]
    /\ ended' = [ended EXCEPT ![r] = @ \/ ev \in Terminal]

\* The first end is let through, by one atomic swap; any other event unless the
\* request has ended.
decide(t, r, ev) ==
    /\ pending' = [pending EXCEPT ![t] = @ \ {<<r, ev>>}]
    /\ emitting' = [emitting EXCEPT ![t] = IF ended[r] THEN <<>> ELSE <<r, ev>>]
    /\ ended' = [ended EXCEPT ![r] = @ \/ ev \in Terminal]

on_event(t) ==
    /\ emitting[t] = <<>>
    /\ \E c \in pending[t] : decide(t, c[1], c[2])
    /\ UNCHANGED <<seen, signal, work, watch, joining, attached, end, reports, torn>>

\* The observer is told; with an end, the reference's work is done and whoever waits
\* on the end hears.
emit(t) ==
    /\ emitting[t] # <<>>
    /\ LET r  == emitting[t][1]
           ev == emitting[t][2]
       IN  /\ seen' = [seen EXCEPT ![r] = Append(@, ev)]
           /\ work' = [work EXCEPT ![r] = IF ev \in Terminal THEN @ - 1 ELSE @]
           /\ signal' = IF ev \in Terminal THEN signal \cup {r} ELSE signal
    /\ emitting' = [emitting EXCEPT ![t] = <<>>]
    /\ UNCHANGED <<ended, watch, joining, attached, end, reports, pending, torn>>

-----------------------------------------------------------------------------
(* The run loop: Fetcher::accept.                                          *)

\* Lifecycle::accept, then the HSTS upgrade if there was one.  Nobody else has the
\* lifecycle yet.  A request that found the fetch in the in-flight map may be
\* accepted at any time after, the fetch's end included.
accept(r) ==
    /\ ~torn /\ joining = Nothing /\ Idle("loop")
    /\ seen[r] = <<>>
    /\ r = Leader \/ seen[Leader] # <<>>
    /\ \E upgraded \in {<<>>, <<"SecurityUpgraded">>} :
          seen' = [seen EXCEPT ![r] = <<"Accepted">> \o upgraded]
    /\ work' = [work EXCEPT ![r] = @ + 1]
    /\ joining' = r
    /\ UNCHANGED <<ended, signal, watch, attached, end, reports, pending, emitting, torn>>

attach_blind(r) ==
    /\ attached' = attached \cup {r}
    /\ UNCHANGED pending

\* Shared::new for the leader, Shared::attach for the others: one that joins a fetch
\* that has ended is given that end.
attach(r) ==
    IF end = Nothing
      THEN attached' = attached \cup {r} /\ UNCHANGED pending
      ELSE pending' = [pending EXCEPT !["loop"] = {<<r, end>>}] /\ UNCHANGED attached

Attach ==
    /\ joining # Nothing
    /\ attach(joining)
    /\ watch' = [watch EXCEPT ![joining] = "watching"]
    /\ joining' = Nothing
    /\ UNCHANGED <<seen, ended, signal, work, end, reports, emitting, torn>>

-----------------------------------------------------------------------------
(* The task of the fetch: Shared::on_event.                                *)

Reporting == ~torn /\ Idle("task") /\ end = Nothing /\ seen[Leader] # <<>> /\ joining # Leader

\* copy: the events that can go to more than one request.
Copied == {"Progress"} \cup Terminal
Recipients(ev) == IF ev \in Copied THEN attached ELSE {Leader}

\* An event for the leader alone, or progress for every request attached.
report(ev) ==
    /\ Reporting /\ reports < MaxReports
    /\ reports' = reports + 1
    /\ pending' = [pending EXCEPT !["task"] = Recipients(ev) \X {ev}]
    /\ UNCHANGED <<seen, ended, signal, work, watch, joining, attached, end, emitting, torn>>

\* The end: kept for who joins late, and handed to every request attached.
report_end(ev) ==
    /\ Reporting
    /\ end' = ev
    /\ attached' = {}
    /\ pending' = [pending EXCEPT !["task"] = Recipients(ev) \X {ev}]
    /\ UNCHANGED <<seen, ended, signal, work, watch, joining, reports, emitting, torn>>

-----------------------------------------------------------------------------
(* The watcher of a request, and the end of the runtime.                   *)

\* The caller cancels: Shared::detach, then its own end.
watch_cancel(r) ==
    /\ ~torn /\ watch[r] = "watching"
    /\ attached' = attached \ {r}
    /\ pending' = [pending EXCEPT ![r] = {<<r, "Cancelled">>}]
    /\ watch' = [watch EXCEPT ![r] = "cancelled"]
    /\ UNCHANGED <<seen, ended, signal, work, joining, end, reports, emitting, torn>>

watch_ended(r) ==
    /\ ~torn /\ watch[r] = "watching" /\ r \in signal
    /\ watch' = [watch EXCEPT ![r] = "gone"]
    /\ UNCHANGED <<seen, ended, signal, work, joining, attached, end, reports, pending,
                   emitting, torn>>

\* The host drops the runtime: its tasks go at an await, never inside on_event.
Teardown ==
    /\ ~torn /\ joining = Nothing /\ \A t \in Threads : Idle(t)
    /\ torn' = TRUE
    /\ UNCHANGED <<seen, ended, signal, work, watch, joining, attached, end, reports,
                   pending, emitting>>

\* Drop for Lifecycle: a request let go of without an end still gets one.
drop(r) ==
    /\ torn /\ seen[r] # <<>> /\ watch[r] # "gone"
    /\ watch' = [watch EXCEPT ![r] = "gone"]
    /\ seen' = [seen EXCEPT ![r] = IF ended[r] THEN @ ELSE Append(@, "Cancelled")]
    /\ work' = [work EXCEPT ![r] = IF ended[r] THEN @ ELSE @ - 1]
    /\ UNCHANGED <<ended, signal, joining, attached, end, reports, pending, emitting, torn>>

-----------------------------------------------------------------------------
Next ==
    \/ \E t \in Threads : on_event(t) \/ emit(t)
    \/ \E r \in Requests : accept(r) \/ watch_cancel(r) \/ watch_ended(r) \/ drop(r)
    \/ Attach \/ Teardown
    \/ \E ev \in {"Hop", "Progress"} : report(ev)
    \/ \E ev \in Terminal : report_end(ev)

Spec == Init /\ [][Next]_vars

\* Threads run on, and a fetch ends some day.
Fairness ==
    /\ \A t \in Threads : WF_vars(on_event(t) \/ emit(t))
    /\ \A r \in Requests : WF_vars(drop(r))
    /\ WF_vars(Attach)
    /\ WF_vars(\E ev \in Terminal : report_end(ev))

-----------------------------------------------------------------------------
(* What an observer can rely on.                                           *)

EndsSeen(r) == {n \in DOMAIN seen[r] : seen[r][n] \in Terminal}

\* Exactly one end gets through, whoever races to report it, and the reference's
\* work is outstanding from Accepted until that end: on_ref_active and on_ref_done
\* balance.
OneEnd ==
    \A r \in Requests :
        /\ Cardinality(EndsSeen(r)) <= 1
        /\ work[r] = IF seen[r] # <<>> /\ EndsSeen(r) = {} THEN 1 ELSE 0

\* A request ends as its fetch did, unless its own caller cancelled it (or the
\* runtime went away): a cancelling caller ends its own request only.
EndIsOwn ==
    \A r \in Requests : \A n \in EndsSeen(r) :
        watch[r] = "cancelled" \/ torn \/ seen[r][n] = end

\* One end, and the right one, whoever of the task, the loop and the watcher comes first
\* (Lifecycle::on_event, watch_caller).
OneOwnEnd == OneEnd /\ EndIsOwn

\* Every request accepted gets its end.
EveryRequestEnds == \A r \in Requests : seen[r] # <<>> ~> EndsSeen(r) # {}
=============================================================================
