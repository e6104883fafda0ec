----------------------------- MODULE SharedBody -----------------------------
(***************************************************************************)
(* One body fanned out to many subscribers (net/shared_body.rs).  A        *)
(* producer, the pump of from_reader or one that calls push itself (the    *)
(* tee of net/pump.rs), hands each chunk it has read to the subscribers of *)
(* the moment; a subscriber has a bounded queue and is dropped when it     *)
(* lags, unless it is lossless, in which case the pump waits for it; the   *)
(* start of the body is kept, up to a limit, for those that come late.  It *)
(* works on a snapshot of the subscribers taken under the lock, so they    *)
(* come, read and go between its steps.                                    *)
(*                                                                         *)
(* The body is the chunks 1..BodyLen, all of one size: the limits of the   *)
(* code, in bytes, are counted in chunks.                                  *)
(***************************************************************************)
EXTENDS Integers, Sequences

CONSTANTS Subs, Kind,    \* the subscribers: stream, lossless or live
          BodyLen, Queue, ReplayLimit,
          MaxSizes,      \* the values of ReaderOptions::max_size
          None

ASSUME BodyAssumption ==
    /\ Kind \in [Subs -> {"stream", "lossless", "live"}]
    /\ BodyLen \in Nat /\ Queue \in Nat \ {0} /\ ReplayLimit \in Nat /\ MaxSizes \subseteq Nat
    /\ None \notin {"eof", "error", "late"}

VARIABLES
    waits,                   \* the producer is from_reader, which uses push_wait
    max_size,
    handle,                  \* somebody holds a handle to the SharedBody
    subs,                    \* State::subs, the subscribers registered
    closed, failed,          \* State::closed, and whether State::error is set
    has_subscriber,
    keeps, replay, replay_bytes,   \* State::replay: whether it is Some, and its chunks
    stream,     \* of a subscriber: none, open (a SubStream), closed (it came after the end), dropped
    prefix, queue, lagged,   \* the fields of its stream
    got, outcome,            \* what it was given, and how its stream ended: eof, error, late
    pump,       \* waiting (for a subscriber), reading, delivering, ended
    sent,       \* chunks read from the source
    targets, to_remove       \* of the push under way

stateVars == <<handle, subs, closed, failed, has_subscriber, keeps, replay, replay_bytes>>
streamVars == <<stream, prefix, got, outcome>>
pumpVars == <<pump, sent, targets, to_remove, waits, max_size>>
vars == <<stateVars, streamVars, queue, lagged, pumpVars>>

Init ==
    /\ \/ waits = TRUE /\ max_size \in MaxSizes
       \/ waits = FALSE /\ max_size = None
    /\ handle = TRUE /\ subs = {} /\ closed = FALSE /\ failed = FALSE
    /\ has_subscriber = FALSE
    /\ keeps = TRUE /\ replay = <<>> /\ replay_bytes = 0
    /\ stream = [s \in Subs |-> "none"]
    /\ prefix = [s \in Subs |-> <<>>] /\ queue = [s \in Subs |-> <<>>]
    /\ lagged = [s \in Subs |-> FALSE]
    /\ got = [s \in Subs |-> <<>>] /\ outcome = [s \in Subs |-> None]
    /\ pump = (IF waits THEN "waiting" ELSE "reading") /\ sent = 0 /\ targets = {} /\ to_remove = {}

-----------------------------------------------------------------------------
(* Subscribers.                                                            *)

\* subscribe: the replay and the registration are taken under one lock.
subscribe(s) ==
    /\ handle /\ stream[s] = "none"
    /\ IF Kind[s] # "live" /\ ~keeps
         THEN /\ stream' = [stream EXCEPT ![s] = "closed"]
              /\ outcome' = [outcome EXCEPT ![s] = "late"]
              /\ UNCHANGED <<prefix, subs, has_subscriber>>
         ELSE /\ prefix' = [prefix EXCEPT ![s] = IF Kind[s] = "live" THEN <<>> ELSE replay]
              /\ stream' = [stream EXCEPT ![s] = IF closed THEN "closed" ELSE "open"]
              /\ subs' = IF closed THEN subs ELSE subs \cup {s}
              /\ has_subscriber' = (has_subscriber \/ ~closed)
              /\ UNCHANGED outcome
    /\ UNCHANGED <<handle, closed, failed, keeps, replay, replay_bytes, got, queue, lagged, pumpVars>>

\* The senders of s's queue are the registered one and that of a push under way.
QueueClosed(s) == s \notin subs /\ s \notin targets

\* What the stream ends with once its queue is closed and drained.
EndOfQueue(s) == IF lagged[s] \/ failed THEN "error" ELSE "eof"

poll_next(s) ==
    /\ stream[s] \in {"open", "closed"} /\ outcome[s] = None
    /\ \/ /\ prefix[s] # <<>>
          /\ got' = [got EXCEPT ![s] = Append(@, Head(prefix[s]))]
          /\ prefix' = [prefix EXCEPT ![s] = Tail(@)]
          /\ UNCHANGED <<queue, outcome>>
       \/ /\ prefix[s] = <<>> /\ queue[s] # <<>>
          /\ got' = [got EXCEPT ![s] = Append(@, Head(queue[s]))]
          /\ queue' = [queue EXCEPT ![s] = Tail(@)]
          /\ UNCHANGED <<prefix, outcome>>
       \/ /\ prefix[s] = <<>> /\ queue[s] = <<>> /\ QueueClosed(s)
          /\ outcome' = [outcome EXCEPT ![s] = EndOfQueue(s)]
          /\ UNCHANGED <<got, prefix, queue>>
    /\ UNCHANGED <<stateVars, stream, lagged, pumpVars>>

\* Drop for SubStream: it deregisters itself, and its queue closes.
drop_stream(s) ==
    /\ stream[s] \in {"open", "closed"}
    /\ stream' = [stream EXCEPT ![s] = "dropped"]
    /\ subs' = subs \ {s}
    /\ prefix' = [prefix EXCEPT ![s] = <<>>] /\ queue' = [queue EXCEPT ![s] = <<>>]
    /\ UNCHANGED <<handle, closed, failed, has_subscriber, keeps, replay, replay_bytes, got,
                   outcome, lagged, pumpVars>>

DropHandle ==
    /\ handle /\ handle' = FALSE
    /\ UNCHANGED <<subs, closed, failed, has_subscriber, keeps, replay, replay_bytes, streamVars,
                   queue, lagged, pumpVars>>

-----------------------------------------------------------------------------
(* The end of the body.                                                    *)

\* error and finish: the senders of every queue are dropped.
Ended(bad) ==
    /\ closed' = TRUE /\ failed' = bad
    /\ subs' = {} /\ targets' = {} /\ to_remove' = {}
    /\ pump' = "ended"
    /\ UNCHANGED <<handle, has_subscriber, keeps, replay, replay_bytes, streamVars, queue, lagged, sent, waits, max_size>>

Abandoned_never == FALSE

\* Every handle and every SubStream is gone: State was dropped, nobody can read the
\* body any more.  A push_wait under way holds a handle of its own, and so does a
\* producer that calls push.
Abandoned == waits /\ ~handle /\ (\A s \in Subs : stream[s] # "open") /\ pump # "delivering"

\* The pump notices, and lets go of the reader.
stop_abandoned ==
    /\ pump \in {"waiting", "reading"} /\ Abandoned
    /\ pump' = "ended"
    /\ UNCHANGED <<stateVars, streamVars, queue, lagged, sent, targets, to_remove, waits, max_size>>

\* Cancelled, timed out, or failed to read: while waiting for a subscriber, during a
\* read, or (cancelled or past the deadline) in the middle of a push_wait, which is
\* dropped where it stands.
error ==
    /\ pump \in {"waiting", "reading"} \/ (pump = "delivering" /\ waits)
    /\ ~Abandoned
    /\ Ended(TRUE)

-----------------------------------------------------------------------------
(* The pump.                                                               *)

first_subscriber ==
    /\ pump = "waiting" /\ has_subscriber
    /\ pump' = "reading"
    /\ UNCHANGED <<stateVars, streamVars, queue, lagged, sent, targets, to_remove, waits, max_size>>

\* Keep chunk n for later subscribers while the body fits in the replay limit; once
\* it did not, never again.
record(n) ==
    IF replay_bytes + 1 <= ReplayLimit
      THEN /\ replay' = IF keeps THEN Append(replay, n) ELSE replay
           /\ replay_bytes' = IF keeps THEN replay_bytes + 1 ELSE replay_bytes
           /\ UNCHANGED keeps
      ELSE /\ keeps' = FALSE /\ replay' = <<>> /\ replay_bytes' = 0

\* A read that brought a chunk within the size limit, and the part of push under the
\* lock: the subscribers of this moment get it.
read ==
    /\ pump = "reading" /\ ~Abandoned
    /\ sent < BodyLen /\ (waits => sent < max_size)
    /\ sent' = sent + 1
    /\ record(sent + 1)
    /\ targets' = subs /\ to_remove' = {}
    /\ pump' = "delivering"
    /\ UNCHANGED <<handle, subs, closed, failed, has_subscriber, streamVars, queue, lagged, waits, max_size>>

\* At the size limit one more byte is asked for: data is an error.
probe ==
    /\ pump = "reading" /\ ~Abandoned
    /\ waits /\ sent < BodyLen /\ sent = max_size
    /\ Ended(TRUE)

\* The end of the source, also where it is exactly at the limit.
finish ==
    /\ pump = "reading" /\ ~Abandoned
    /\ sent = BodyLen
    /\ Ended(FALSE)

WaitedFor(s) == waits /\ Kind[s] = "lossless"

Delivered(s) == queue' = [queue EXCEPT ![s] = Append(@, sent)] /\ targets' = targets \ {s}

deliverUnchanged == <<stateVars, streamVars, pump, sent, waits, max_size>>

try_deliver_silent(s) ==
    /\ pump = "delivering" /\ s \in targets /\ ~WaitedFor(s)
    /\ IF stream[s] # "dropped" /\ Len(queue[s]) < Queue
         THEN Delivered(s) /\ UNCHANGED <<lagged, to_remove>>
         ELSE /\ to_remove' = to_remove \cup {s}
              /\ targets' = targets \ {s}
              /\ UNCHANGED <<queue, lagged>>
    /\ UNCHANGED deliverUnchanged

\* A full queue drops the subscriber, which is told; a closed one just goes.
try_deliver(s) ==
    /\ pump = "delivering" /\ s \in targets /\ ~WaitedFor(s)
    /\ IF stream[s] # "dropped" /\ Len(queue[s]) < Queue
         THEN Delivered(s) /\ UNCHANGED <<lagged, to_remove>>
         ELSE /\ lagged' = [lagged EXCEPT ![s] = @ \/ stream[s] # "dropped"]
              /\ to_remove' = to_remove \cup {s}
              /\ targets' = targets \ {s}
              /\ UNCHANGED queue
    /\ UNCHANGED deliverUnchanged

\* The lossless subscribers come last; each is waited for until it has room or its
\* stream is dropped.
send(s) ==
    /\ pump = "delivering" /\ s \in targets /\ WaitedFor(s)
    /\ \A u \in targets : WaitedFor(u)
    /\ \/ stream[s] = "dropped" /\ to_remove' = to_remove \cup {s}
          /\ targets' = targets \ {s} /\ UNCHANGED queue
       \/ stream[s] # "dropped" /\ Len(queue[s]) < Queue
          /\ Delivered(s) /\ UNCHANGED to_remove
    /\ UNCHANGED <<deliverUnchanged, lagged>>

\* The end of push and push_wait.
remove ==
    /\ pump = "delivering" /\ targets = {}
    /\ subs' = subs \ to_remove
    /\ to_remove' = {}
    /\ pump' = "reading"
    /\ UNCHANGED <<handle, closed, failed, has_subscriber, keeps, replay, replay_bytes, streamVars,
                   queue, lagged, sent, targets, waits, max_size>>

-----------------------------------------------------------------------------
Reader == read \/ probe \/ finish \/ error

Deliver == remove \/ \E s \in Subs : try_deliver(s) \/ send(s)

Next ==
    \/ \E s \in Subs : subscribe(s) \/ poll_next(s) \/ drop_stream(s)
    \/ DropHandle \/ first_subscriber \/ stop_abandoned \/ Reader \/ Deliver

Spec == Init /\ [][Next]_vars

\* The pump runs on by itself where it waits for nobody.
PumpFairness == WF_vars(stop_abandoned) /\ WF_vars(first_subscriber) /\ WF_vars(Deliver)

\* The source gives data, ends or times out, and those that hold a stream read it.
ReadFairness == WF_vars(Reader) /\ \A s \in Subs : WF_vars(poll_next(s))

-----------------------------------------------------------------------------
(* What a subscriber can rely on.                                          *)

IsRun(q) == \A n \in 1..(Len(q) - 1) : q[n + 1] = q[n] + 1

\* A clean end means the whole body: who fell behind, came late, or reads a body that
\* failed or was too large is told by an error, never by an end of stream.
CleanEndIsWhole ==
    \A s \in Subs : outcome[s] = "eof" /\ Kind[s] # "live" => Len(got[s]) = BodyLen

\* What a subscriber gets, and what is still queued for it, is the body in order, each
\* chunk once, from its start (a live one: from where it came in).
InOrder ==
    \A s \in Subs :
        /\ IsRun(got[s] \o prefix[s] \o queue[s])
        /\ Kind[s] # "live" /\ got[s] # <<>> => got[s][1] = 1

\* A lossless subscriber of a waiting producer is never dropped for lagging: it ends
\* with an error only where the body failed.
LosslessKept ==
    \A s \in Subs : WaitedFor(s) /\ stream[s] = "open" /\ ~closed => s \in subs /\ ~lagged[s]

\* A subscriber is turned away only once more than the replay limit was pushed, so
\* never the first one of from_reader (which waits for it).
LateOnlyPastLimit ==
    \A s \in Subs : outcome[s] = "late" =>
        /\ sent > ReplayLimit
        /\ waits => \E u \in Subs \ {s} : stream[u] \in {"open", "dropped"}

\* Who subscribes gets the body: whole where it ends cleanly, in order and each chunk once,
\* is never dropped by a producer that promised to wait, and is turned away only where the
\* beginning is gone (subscribe, push, push_wait).
BodyDelivered == CleanEndIsWhole /\ InOrder /\ LosslessKept /\ LateOnlyPastLimit

Unreadable == waits /\ ~handle /\ \A s \in Subs : stream[s] # "open"

\* Once nobody can read the body, the pump of from_reader stops and lets the connection's
\* slots go, even when the source stalls and has no timeout; and when the source goes on and
\* streams are read, who holds a stream comes to its end or drops it (from_reader, finish).
StreamsEnd ==
    /\ Unreadable ~> pump = "ended"
    /\ ReadFairness =>
          \A s \in Subs : stream[s] = "open" ~> (outcome[s] # None \/ stream[s] = "dropped")
=============================================================================
