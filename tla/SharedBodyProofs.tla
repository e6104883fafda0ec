-------------------------- MODULE SharedBodyProofs --------------------------
(***************************************************************************)
(* Proofs about SharedBody and Pump: for any number of subscribers of any  *)
(* kind, any length of the body and any limits, each of them gets the body *)
(* in order and a clean end only with all of it, and the file of the tee   *)
(* gets its name only when it holds the whole body.                        *)
(*                                                                         *)
(* The heart of the invariant is Placed: what a subscriber has got, what   *)
(* is left of its replay and what is queued for it follow on one another,  *)
(* and reach up to the last chunk read, or to the one before it while the  *)
(* push still has to hand the last one over.                               *)
(***************************************************************************)
EXTENDS Pump, TLAPS

Reads == {"open", "closed"}

BodyTypeOK ==
    /\ waits \in BOOLEAN /\ max_size \in MaxSizes \cup {None}
    /\ handle \in BOOLEAN /\ subs \subseteq Subs
    /\ closed \in BOOLEAN /\ failed \in BOOLEAN /\ has_subscriber \in BOOLEAN
    /\ keeps \in BOOLEAN /\ replay \in Seq(Nat) /\ replay_bytes \in Nat
    /\ stream \in [Subs -> {"none", "open", "closed", "dropped"}]
    /\ prefix \in [Subs -> Seq(Nat)] /\ queue \in [Subs -> Seq(Nat)]
    /\ lagged \in [Subs -> BOOLEAN]
    /\ got \in [Subs -> Seq(Nat)] /\ outcome \in [Subs -> {None, "eof", "error", "late"}]
    /\ pump \in {"waiting", "reading", "delivering", "ended"} /\ sent \in Nat
    /\ targets \subseteq Subs /\ to_remove \subseteq Subs

\* q is the chunks after chunk b, one after the other.
Run(q, b) == \A n \in 1..Len(q) : q[n] = b + n

\* The replay is the body so far, as long as that fits the limit.
ReplayIsBody ==
    IF keeps THEN Run(replay, 0) /\ Len(replay) = sent /\ replay_bytes = sent /\ sent <= ReplayLimit
    ELSE replay = <<>> /\ sent > ReplayLimit

\* The chunks s has got or will get, when b came before it, and the last of them.
Follows(s, b) ==
    /\ Run(got[s], b)
    /\ Run(prefix[s], b + Len(got[s]))
    /\ Run(queue[s], b + Len(got[s]) + Len(prefix[s]))
Last(s, b) == b + Len(got[s]) + Len(prefix[s]) + Len(queue[s])

Placed(s, b) ==
    /\ Follows(s, b) /\ (Kind[s] # "live" => b = 0)
    /\ stream[s] \in Reads /\ outcome[s] # "late" =>
          /\ s \in targets => Last(s, b) = sent - 1
          /\ s \notin targets /\ ~lagged[s] /\ ~failed => Last(s, b) = sent

AllPlaced == \A s \in Subs : \E b \in Nat : Placed(s, b)

\* Who is registered, and who is a target of the push under way.
Registered ==
    /\ \A s \in subs : stream[s] = "open" /\ outcome[s] # "late" /\ (lagged[s] => s \in to_remove)
    /\ \A s \in targets : (s \in subs \/ stream[s] = "dropped") /\ s \notin to_remove
    /\ \A s \in to_remove : lagged[s] \/ stream[s] = "dropped"
    /\ pump # "delivering" => targets = {} /\ to_remove = {}
    /\ closed => subs = {} /\ pump = "ended"
    /\ failed => closed
    /\ closed /\ ~failed => sent = BodyLen

\* A stream that is open is registered, unless it lags; a closed one came after the end, or
\* too late.
Unregistered ==
    \A s \in Subs :
        /\ stream[s] = "open" /\ ~closed /\ s \notin subs => lagged[s]
        /\ stream[s] = "closed" => closed \/ outcome[s] = "late"
        /\ stream[s] = "none" => got[s] = <<>> /\ outcome[s] = None /\ ~lagged[s]
        /\ stream[s] \in {"none", "dropped"} => prefix[s] = <<>> /\ queue[s] = <<>>
        /\ outcome[s] = "late" => stream[s] \in {"closed", "dropped"}
        /\ lagged[s] => ~WaitedFor(s)

\* from_reader starts to read with its first subscriber.
Awaited ==
    /\ waits /\ (pump \in {"reading", "delivering"} \/ sent > 0) => has_subscriber
    /\ has_subscriber => \E u \in Subs : stream[u] \in {"open", "dropped"}

BodyInv ==
    /\ BodyTypeOK /\ ReplayIsBody /\ AllPlaced /\ Registered /\ Unregistered /\ Awaited
    /\ CleanEndIsWhole /\ LateOnlyPastLimit

-----------------------------------------------------------------------------
(* Chunks in order.                                                        *)

LEMMA RunAppend ==
    ASSUME NEW q \in Seq(Nat), NEW b \in Nat, Run(q, b), NEW c \in Nat, c = b + Len(q) + 1
    PROVE  Run(Append(q, c), b) /\ Len(Append(q, c)) = Len(q) + 1 /\ Append(q, c) \in Seq(Nat)
<1>1. Append(q, c) \in Seq(Nat) /\ Len(Append(q, c)) = Len(q) + 1 /\ Len(q) \in Nat
  OBVIOUS
<1>2. \A n \in 1..(Len(q) + 1) : Append(q, c)[n] = b + n
  BY <1>1 DEF Run
<1> QED
  BY <1>1, <1>2 DEF Run

LEMMA RunTail ==
    ASSUME NEW q \in Seq(Nat), q # <<>>, NEW b \in Nat, Run(q, b)
    PROVE  /\ Head(q) = b + 1 /\ Head(q) \in Nat
           /\ Tail(q) \in Seq(Nat) /\ Len(Tail(q)) = Len(q) - 1 /\ Run(Tail(q), b + 1)
<1>1. Len(q) \in Nat /\ Len(q) # 0
  OBVIOUS
<1>2. Tail(q) \in Seq(Nat) /\ Len(Tail(q)) = Len(q) - 1 /\ Head(q) = q[1]
  BY <1>1
<1>3. \A n \in 1..(Len(q) - 1) : Tail(q)[n] = q[n + 1]
  BY <1>1
<1> QED
  BY <1>1, <1>2, <1>3 DEF Run

LEMMA RunConcat ==
    ASSUME NEW p \in Seq(Nat), NEW q \in Seq(Nat), NEW b \in Nat, Run(p, b), Run(q, b + Len(p))
    PROVE  Run(p \o q, b) /\ p \o q \in Seq(Nat) /\ Len(p \o q) = Len(p) + Len(q)
<1>1. p \o q \in Seq(Nat) /\ Len(p \o q) = Len(p) + Len(q) /\ Len(p) \in Nat /\ Len(q) \in Nat
  OBVIOUS
<1>2. \A n \in 1..(Len(p) + Len(q)) : (p \o q)[n] = IF n <= Len(p) THEN p[n] ELSE q[n - Len(p)]
  BY <1>1
<1> QED
  BY <1>1, <1>2 DEF Run

LEMMA RunEmpty == ASSUME NEW b \in Nat PROVE Run(<<>>, b) /\ Len(<<>>) = 0
  BY DEF Run

-----------------------------------------------------------------------------
(* The types, step by step.                                                *)

LEMMA InitBody == Init => BodyInv
<1> SUFFICES ASSUME Init PROVE BodyInv
  OBVIOUS
<1> USE BodyAssumption DEF BodyAssumption
<1>1. /\ waits \in BOOLEAN /\ handle \in BOOLEAN /\ closed \in BOOLEAN /\ failed \in BOOLEAN
      /\ has_subscriber \in BOOLEAN /\ keeps \in BOOLEAN /\ lagged \in [Subs -> BOOLEAN]
  BY Zenon DEF Init
<1>2. replay \in Seq(Nat) /\ Len(<<>>) = 0
  BY DEF Init
<1>3. prefix \in [Subs -> Seq(Nat)] /\ queue \in [Subs -> Seq(Nat)] /\ got \in [Subs -> Seq(Nat)]
  BY DEF Init
<1>4. BodyTypeOK
  BY <1>1, <1>2, <1>3 DEF Init, BodyTypeOK
<1>5. ReplayIsBody
  BY <1>2, RunEmpty DEF Init, ReplayIsBody
<1>6. ASSUME NEW s \in Subs PROVE Placed(s, 0)
  <2>1. got[s] = <<>> /\ prefix[s] = <<>> /\ queue[s] = <<>> /\ stream[s] = "none"
    BY DEF Init
  <2>2. Follows(s, 0)
    BY <1>2, <2>1, RunEmpty DEF Follows
  <2> QED
    BY <2>1, <2>2 DEF Placed, Reads
<1>7. AllPlaced
  BY <1>6 DEF AllPlaced
<1>8. Registered /\ Unregistered /\ Awaited
  BY DEF Init, Registered, Unregistered, Awaited
<1>9. CleanEndIsWhole /\ LateOnlyPastLimit
  BY DEF Init, CleanEndIsWhole, LateOnlyPastLimit
<1> QED
  BY <1>4, <1>5, <1>7, <1>8, <1>9 DEF BodyInv

LEMMA StepBodyType == BodyTypeOK /\ [Next]_vars => BodyTypeOK'
<1> SUFFICES ASSUME BodyTypeOK, [Next]_vars PROVE BodyTypeOK'
  OBVIOUS
<1> USE BodyAssumption DEF BodyAssumption, BodyTypeOK, stateVars, streamVars, pumpVars
<1>1. ASSUME NEW s \in Subs, subscribe(s) PROVE BodyTypeOK'
  <2>1. has_subscriber' \in BOOLEAN
    BY <1>1, Zenon DEF subscribe
  <2>2. stream' \in [Subs -> {"none", "open", "closed", "dropped"}]
    BY <1>1 DEF subscribe
  <2>3. <<>> \in Seq(Nat)
    OBVIOUS
  <2>4. outcome' \in [Subs -> {None, "eof", "error", "late"}]
    BY <1>1 DEF subscribe
  <2>5. subs' \subseteq Subs
    BY <1>1 DEF subscribe
  <2>6. prefix' \in [Subs -> Seq(Nat)]
    <3>1. (IF Kind[s] = "live" THEN <<>> ELSE replay) \in Seq(Nat)
      BY <2>3
    <3>2. PICK p \in Seq(Nat) : p = IF Kind[s] = "live" THEN <<>> ELSE replay
      BY <3>1, Zenon
    <3>3. prefix' = [prefix EXCEPT ![s] = p] \/ prefix' = prefix
      BY <1>1, <3>2, Zenon DEF subscribe
    <3> QED
      BY <3>3
  <2> QED
    BY <1>1, <2>1, <2>2, <2>4, <2>5, <2>6 DEF subscribe
<1>2. ASSUME NEW s \in Subs, poll_next(s) PROVE BodyTypeOK'
  <2>1. \A q \in Seq(Nat) : q # <<>> => Head(q) \in Nat /\ Tail(q) \in Seq(Nat)
    OBVIOUS
  <2>2. prefix[s] # <<>> => Append(got[s], Head(prefix[s])) \in Seq(Nat) /\ Tail(prefix[s]) \in Seq(Nat)
    BY <2>1
  <2>3. queue[s] # <<>> => Append(got[s], Head(queue[s])) \in Seq(Nat) /\ Tail(queue[s]) \in Seq(Nat)
    BY <2>1
  <2>4. EndOfQueue(s) \in {"error", "eof"}
    BY DEF EndOfQueue
  <2>5. got' \in [Subs -> Seq(Nat)] /\ prefix' \in [Subs -> Seq(Nat)] /\ queue' \in [Subs -> Seq(Nat)]
    <3>1. CASE prefix[s] # <<>>
      <4>1. PICK g \in Seq(Nat), t \in Seq(Nat) : g = Append(got[s], Head(prefix[s])) /\ t = Tail(prefix[s])
        BY <2>2, <3>1
      <4>2. got' = [got EXCEPT ![s] = g] /\ prefix' = [prefix EXCEPT ![s] = t] /\ queue' = queue
        BY <1>2, <3>1, <4>1 DEF poll_next
      <4> QED
        BY <4>2
    <3>2. CASE prefix[s] = <<>> /\ queue[s] # <<>>
      <4>1. PICK g \in Seq(Nat), t \in Seq(Nat) : g = Append(got[s], Head(queue[s])) /\ t = Tail(queue[s])
        BY <2>3, <3>2
      <4>2. got' = [got EXCEPT ![s] = g] /\ queue' = [queue EXCEPT ![s] = t] /\ prefix' = prefix
        BY <1>2, <3>2, <4>1 DEF poll_next
      <4> QED
        BY <4>2
    <3>3. CASE prefix[s] = <<>> /\ queue[s] = <<>>
      <4>1. got' = got /\ prefix' = prefix /\ queue' = queue
        BY <1>2, <3>3 DEF poll_next
      <4> QED
        BY <4>1
    <3> QED
      BY <3>1, <3>2, <3>3
  <2>6. outcome' \in [Subs -> {None, "eof", "error", "late"}]
    BY <1>2, <2>4 DEF poll_next
  <2> QED
    BY <1>2, <2>5, <2>6 DEF poll_next
<1>3. ASSUME NEW s \in Subs, drop_stream(s) PROVE BodyTypeOK'
  <2>1. <<>> \in Seq(Nat)
    OBVIOUS
  <2> QED
    BY <1>3, <2>1 DEF drop_stream
<1>4. CASE DropHandle
  <2>1. handle' \in BOOLEAN
    BY <1>4, Zenon DEF DropHandle
  <2> QED
    BY <1>4, <2>1 DEF DropHandle
<1>5. CASE first_subscriber \/ stop_abandoned
  BY <1>5 DEF first_subscriber, stop_abandoned
<1>6. CASE read
  <2>1. sent + 1 \in Nat /\ Append(replay, sent + 1) \in Seq(Nat) /\ <<>> \in Seq(Nat)
    OBVIOUS
  <2>2. keeps' \in BOOLEAN
    BY <1>6, Zenon DEF read, record
  <2>3. replay' \in Seq(Nat)
    BY <1>6, <2>1 DEF read, record
  <2>4. replay_bytes' \in Nat
    BY <1>6, <2>1 DEF read, record
  <2> QED
    BY <1>6, <2>1, <2>2, <2>3, <2>4 DEF read
<1>7. ASSUME NEW bad \in BOOLEAN, Ended(bad) PROVE BodyTypeOK'
  <2>1. closed' \in BOOLEAN /\ failed' \in BOOLEAN
    BY <1>7, Zenon DEF Ended
  <2> QED
    BY <1>7, <2>1 DEF Ended
<1>8. CASE probe \/ finish \/ error
  <2>1. \E bad \in BOOLEAN : Ended(bad)
    BY <1>8, Zenon DEF probe, finish, error
  <2> QED
    BY <1>7, <2>1
<1>9. ASSUME NEW s \in Subs, try_deliver(s) PROVE BodyTypeOK'
  <2>1. Append(queue[s], sent) \in Seq(Nat)
    OBVIOUS
  <2>2. lagged' \in [Subs -> BOOLEAN]
    <3>1. (lagged[s] \/ stream[s] # "dropped") \in BOOLEAN
      BY Zenon
    <3> QED
      BY <1>9, <3>1 DEF try_deliver, Delivered
  <2>3. queue' \in [Subs -> Seq(Nat)] /\ targets' \subseteq Subs /\ to_remove' \subseteq Subs
    BY <1>9, <2>1 DEF try_deliver, Delivered
  <2> QED
    BY <1>9, <2>2, <2>3 DEF try_deliver, deliverUnchanged
<1>10. ASSUME NEW s \in Subs, send(s) PROVE BodyTypeOK'
  <2>1. PICK q \in Seq(Nat) : q = Append(queue[s], sent)
    <3>1. Append(queue[s], sent) \in Seq(Nat)
      OBVIOUS
    <3> QED
      BY <3>1, Zenon
  <2>2. queue' \in [Subs -> Seq(Nat)] /\ targets' \subseteq Subs /\ to_remove' \subseteq Subs
    <3>1. queue' = [queue EXCEPT ![s] = q] \/ queue' = queue
      BY <1>10, <2>1 DEF send, Delivered
    <3>2. targets' \subseteq targets /\ to_remove' \subseteq to_remove \cup {s}
      BY <1>10 DEF send, Delivered
    <3>3. queue' \in [Subs -> Seq(Nat)]
      BY <3>1
    <3> QED
      BY <3>2, <3>3
  <2> QED
    BY <1>10, <2>2 DEF send, deliverUnchanged
<1>11. CASE remove
  BY <1>11 DEF remove
<1>12. CASE UNCHANGED vars
  BY <1>12 DEF vars
<1> QED
  BY <1>1, <1>2, <1>3, <1>4, <1>5, <1>6, <1>8, <1>9, <1>10, <1>11, <1>12 DEF Next, Reader, Deliver

-----------------------------------------------------------------------------
(* Each step keeps the invariant.                                          *)

\* A subscriber whose stream the step leaves alone.
LEMMA PlacedKept ==
    ASSUME NEW s \in Subs, NEW b \in Nat, Placed(s, b),
           got'[s] = got[s], prefix'[s] = prefix[s], queue'[s] = queue[s],
           stream'[s] \in Reads /\ outcome'[s] # "late" =>
              /\ stream[s] \in Reads /\ outcome[s] # "late" /\ sent' = sent
              /\ s \in targets' => s \in targets
              /\ s \notin targets' /\ ~lagged'[s] /\ ~failed' =>
                    s \notin targets /\ ~lagged[s] /\ ~failed
    PROVE  Placed(s, b)'
<1>1. Follows(s, b)' /\ Last(s, b)' = Last(s, b)
  BY DEF Placed, Follows, Last, Run
<1>2. Kind[s] # "live" => b = 0
  BY DEF Placed
<1>3. stream'[s] \in Reads /\ outcome'[s] # "late" =>
        /\ s \in targets' => Last(s, b)' = sent' - 1
        /\ s \notin targets' /\ ~lagged'[s] /\ ~failed' => Last(s, b)' = sent'
  BY <1>1 DEF Placed
<1> QED
  BY <1>1, <1>2, <1>3 DEF Placed

\* Steps that touch neither the body so far nor the streams.
LEMMA StepAside ==
    ASSUME BodyInv, BodyTypeOK', DropHandle \/ first_subscriber \/ stop_abandoned
    PROVE  BodyInv'
<1>1. /\ UNCHANGED <<subs, closed, failed, has_subscriber, keeps, replay, replay_bytes, stream, prefix,
                     queue, lagged, got, outcome, sent, targets, to_remove, waits>>
      /\ \/ pump' = pump
         \/ pump = "waiting" /\ pump' = "reading" /\ has_subscriber
         \/ pump \in {"waiting", "reading"} /\ pump' = "ended"
  BY DEF DropHandle, first_subscriber, stop_abandoned, stateVars, streamVars, pumpVars
<1>2. AllPlaced'
  BY <1>1, PlacedKept DEF BodyInv, AllPlaced
<1>3. ReplayIsBody'
  BY <1>1 DEF BodyInv, ReplayIsBody, Run
<1>4. Registered'
  BY <1>1 DEF BodyInv, Registered
<1>5. Unregistered'
  BY <1>1 DEF BodyInv, Unregistered, WaitedFor
<1>6. Awaited'
  BY <1>1 DEF BodyInv, Awaited
<1>7. CleanEndIsWhole' /\ LateOnlyPastLimit'
  BY <1>1 DEF BodyInv, CleanEndIsWhole, LateOnlyPastLimit
<1> QED
  BY <1>2, <1>3, <1>4, <1>5, <1>6, <1>7 DEF BodyInv

LEMMA StepSubscribe ==
    ASSUME BodyInv, BodyTypeOK', NEW s \in Subs, subscribe(s)
    PROVE  BodyInv'
<1> USE BodyAssumption DEF BodyAssumption
<1> BodyTypeOK /\ ReplayIsBody /\ AllPlaced /\ Registered /\ Unregistered /\ Awaited
    /\ CleanEndIsWhole /\ LateOnlyPastLimit
  BY DEF BodyInv
<1>1. /\ stream[s] = "none" /\ got[s] = <<>> /\ prefix[s] = <<>> /\ queue[s] = <<>> /\ outcome[s] = None
      /\ ~lagged[s] /\ s \notin subs /\ s \notin targets /\ s \notin to_remove
  BY DEF subscribe, Unregistered, Registered
<1>2. /\ UNCHANGED <<handle, closed, failed, keeps, replay, replay_bytes, got, queue, lagged, pump, sent,
                     targets, to_remove, waits>>
      /\ \A u \in Subs : u # s => stream'[u] = stream[u] /\ prefix'[u] = prefix[u] /\ outcome'[u] = outcome[u]
  BY DEF subscribe, pumpVars, BodyTypeOK
<1>3. \/ /\ Kind[s] # "live" /\ ~keeps /\ stream'[s] = "closed" /\ outcome'[s] = "late"
         /\ prefix'[s] = <<>> /\ UNCHANGED <<subs, has_subscriber>>
      \/ /\ Kind[s] = "live" \/ keeps
         /\ prefix'[s] = IF Kind[s] = "live" THEN <<>> ELSE replay
         /\ stream'[s] = IF closed THEN "closed" ELSE "open"
         /\ subs' = IF closed THEN subs ELSE subs \cup {s}
         /\ has_subscriber' = (has_subscriber \/ ~closed)
         /\ outcome'[s] = None
  BY <1>1 DEF subscribe, BodyTypeOK
<1>4. ReplayIsBody'
  BY <1>2 DEF ReplayIsBody, Run
<1>5. AllPlaced'
  <2>1. \A u \in Subs : u # s => \E b \in Nat : Placed(u, b)'
    BY <1>2, PlacedKept DEF AllPlaced
  <2>2. \E b \in Nat : Placed(s, b)'
    <3>1. CASE prefix'[s] = <<>>
      <4> DEFINE b == IF Kind[s] = "live" THEN sent ELSE 0
      <4>1. b \in Nat /\ b' = b
        BY <1>2 DEF BodyTypeOK
      <4>2. got'[s] = <<>> /\ queue'[s] = <<>> /\ Len(<<>>) = 0
        BY <1>1, <1>2
      <4>3. Follows(s, b)'
        BY <3>1, <4>1, <4>2, RunEmpty DEF Follows
      <4>4. Last(s, b)' = b
        BY <3>1, <4>1, <4>2 DEF Last
      <4>5. Kind[s] # "live" /\ outcome'[s] # "late" => sent = 0
        BY <1>3, <3>1, <4>2 DEF ReplayIsBody
      <4>6. outcome'[s] # "late" => Last(s, b)' = sent'
        BY <1>2, <4>4, <4>5
      <4>7. Placed(s, b)'
        BY <1>1, <1>2, <4>1, <4>3, <4>6 DEF Placed
      <4> QED
        BY <4>1, <4>7
    <3>2. CASE prefix'[s] # <<>>
      <4>1. prefix'[s] = replay /\ Run(replay, 0) /\ Len(replay) = sent
        BY <1>3, <3>2 DEF ReplayIsBody
      <4>2. got'[s] = <<>> /\ queue'[s] = <<>> /\ Len(<<>>) = 0 /\ sent \in Nat
        BY <1>1, <1>2 DEF BodyTypeOK
      <4>3. Follows(s, 0)'
        BY <4>1, <4>2, RunEmpty DEF Follows
      <4>4. Last(s, 0)' = sent'
        BY <1>2, <4>1, <4>2 DEF Last
      <4>5. Placed(s, 0)'
        BY <1>1, <1>2, <4>3, <4>4 DEF Placed
      <4> QED
        BY <4>5
    <3> QED
      BY <3>1, <3>2
  <2> QED
    BY <2>1, <2>2 DEF AllPlaced
<1>6. Registered'
  <2>0. \/ subs' = subs
        \/ subs' = subs \cup {s} /\ stream'[s] = "open" /\ outcome'[s] = None
    BY <1>3
  <2>1. \A u \in subs' : u \in Subs /\ (u \in subs \/ (u = s /\ stream'[s] = "open" /\ outcome'[s] # "late"))
    <3>1. subs \subseteq Subs /\ None # "late"
      BY DEF BodyTypeOK
    <3> QED BY <2>0, <3>1
  <2>2. \A u \in subs' : stream'[u] = "open" /\ outcome'[u] # "late" /\ (lagged'[u] => u \in to_remove')
    BY <1>1, <1>2, <2>1 DEF Registered
  <2>3. subs \subseteq subs' /\ (closed => subs' = subs)
    BY <1>3
  <2> QED
    BY <1>1, <1>2, <2>2, <2>3 DEF Registered, BodyTypeOK
<1>7. Unregistered'
  <2>1. ASSUME NEW u \in Subs, u # s
        PROVE  /\ stream'[u] = "open" /\ ~closed' /\ u \notin subs' => lagged'[u]
               /\ stream'[u] = "closed" => closed' \/ outcome'[u] = "late"
               /\ stream'[u] = "none" => got'[u] = <<>> /\ outcome'[u] = None /\ ~lagged'[u]
               /\ stream'[u] \in {"none", "dropped"} => prefix'[u] = <<>> /\ queue'[u] = <<>>
               /\ outcome'[u] = "late" => stream'[u] \in {"closed", "dropped"}
               /\ lagged'[u] => ~WaitedFor(u)'
    BY <1>2, <1>3, <2>1 DEF Unregistered, WaitedFor
  <2>2. /\ stream'[s] = "open" /\ ~closed' /\ s \notin subs' => lagged'[s]
        /\ stream'[s] = "closed" => closed' \/ outcome'[s] = "late"
        /\ stream'[s] \notin {"none", "dropped"}
        /\ outcome'[s] = "late" => stream'[s] \in {"closed", "dropped"}
        /\ ~lagged'[s]
    BY <1>1, <1>2, <1>3
  <2> QED
    BY <2>1, <2>2 DEF Unregistered
<1>8. Awaited'
  <2>1. has_subscriber' => \E u \in Subs : stream'[u] \in {"open", "dropped"}
    BY <1>1, <1>2, <1>3 DEF Awaited
  <2>2. waits /\ (pump \in {"reading", "delivering"} \/ sent > 0) => has_subscriber'
    BY <1>3 DEF Awaited
  <2> QED
    BY <1>2, <2>1, <2>2 DEF Awaited
<1>9. CleanEndIsWhole'
  BY <1>2, <1>3 DEF CleanEndIsWhole
<1>10. LateOnlyPastLimit'
  <2>1. ASSUME NEW u \in Subs, u # s, outcome'[u] = "late"
        PROVE  sent' > ReplayLimit /\ (waits' => \E w \in Subs \ {u} : stream'[w] \in {"open", "dropped"})
    BY <1>1, <1>2, <2>1 DEF LateOnlyPastLimit
  <2>2. ASSUME outcome'[s] = "late"
        PROVE  sent' > ReplayLimit /\ (waits' => \E w \in Subs \ {s} : stream'[w] \in {"open", "dropped"})
    <3>1. ~keeps
      BY <1>3, <2>2
    <3>2. sent > ReplayLimit /\ sent > 0
      BY <3>1 DEF ReplayIsBody, BodyTypeOK
    <3>3. waits => \E w \in Subs : stream[w] \in {"open", "dropped"}
      BY <3>2 DEF Awaited
    <3> QED
      BY <1>1, <1>2, <3>2, <3>3
  <2> QED
    BY <2>1, <2>2 DEF LateOnlyPastLimit
<1> QED
  BY <1>4, <1>5, <1>6, <1>7, <1>8, <1>9, <1>10 DEF BodyInv

LEMMA StepPoll ==
    ASSUME BodyInv, BodyTypeOK', NEW s \in Subs, poll_next(s)
    PROVE  BodyInv'
<1> USE BodyAssumption DEF BodyAssumption
<1> BodyTypeOK /\ ReplayIsBody /\ AllPlaced /\ Registered /\ Unregistered /\ Awaited
    /\ CleanEndIsWhole /\ LateOnlyPastLimit
  BY DEF BodyInv
<1>1. /\ stream[s] \in Reads /\ outcome[s] = None
      /\ UNCHANGED <<subs, closed, failed, has_subscriber, keeps, replay, replay_bytes, stream, lagged, pump,
                     sent, targets, to_remove, waits>>
      /\ \A u \in Subs : u # s => /\ got'[u] = got[u] /\ prefix'[u] = prefix[u] /\ queue'[u] = queue[u]
                                  /\ outcome'[u] = outcome[u]
  BY DEF poll_next, stateVars, pumpVars, BodyTypeOK, Reads
<1>2. \/ /\ prefix[s] # <<>>
         /\ got'[s] = Append(got[s], Head(prefix[s])) /\ prefix'[s] = Tail(prefix[s])
         /\ queue'[s] = queue[s] /\ outcome'[s] = None
      \/ /\ prefix[s] = <<>> /\ queue[s] # <<>>
         /\ got'[s] = Append(got[s], Head(queue[s])) /\ queue'[s] = Tail(queue[s])
         /\ prefix'[s] = prefix[s] /\ outcome'[s] = None
      \/ /\ prefix[s] = <<>> /\ queue[s] = <<>> /\ QueueClosed(s)
         /\ got'[s] = got[s] /\ prefix'[s] = prefix[s] /\ queue'[s] = queue[s]
         /\ outcome'[s] = EndOfQueue(s)
  <2>1. DOMAIN got = Subs /\ DOMAIN prefix = Subs /\ DOMAIN queue = Subs /\ DOMAIN outcome = Subs
    BY DEF BodyTypeOK
  <2>2. CASE prefix[s] # <<>>
    <3>1. /\ got' = [got EXCEPT ![s] = Append(got[s], Head(prefix[s]))]
          /\ prefix' = [prefix EXCEPT ![s] = Tail(prefix[s])]
          /\ queue' = queue /\ outcome' = outcome
      BY <2>2, Zenon DEF poll_next
    <3> QED
      BY <1>1, <2>1, <2>2, <3>1
  <2>3. CASE prefix[s] = <<>> /\ queue[s] # <<>>
    <3>1. /\ got' = [got EXCEPT ![s] = Append(got[s], Head(queue[s]))]
          /\ queue' = [queue EXCEPT ![s] = Tail(queue[s])]
          /\ prefix' = prefix /\ outcome' = outcome
      BY <2>3, Zenon DEF poll_next
    <3> QED
      BY <1>1, <2>1, <2>3, <3>1
  <2>4. CASE prefix[s] = <<>> /\ queue[s] = <<>>
    <3>1. QueueClosed(s) /\ outcome' = [outcome EXCEPT ![s] = EndOfQueue(s)]
          /\ got' = got /\ prefix' = prefix /\ queue' = queue
      BY <2>4, Zenon DEF poll_next
    <3> QED
      BY <1>1, <2>1, <2>4, <3>1
  <2> QED
    BY <2>2, <2>3, <2>4
<1>3. outcome'[s] # "late"
  BY <1>2 DEF EndOfQueue
<1>4. PICK b \in Nat : Placed(s, b)
  BY DEF AllPlaced
<1>5. got[s] \in Seq(Nat) /\ prefix[s] \in Seq(Nat) /\ queue[s] \in Seq(Nat)
  BY DEF BodyTypeOK
<1>6. Follows(s, b)' /\ Last(s, b)' = Last(s, b)
  <2>0. PICK g \in Nat, p \in Nat, l \in Nat : g = Len(got[s]) /\ p = Len(prefix[s]) /\ l = Len(queue[s])
    <3>1. Len(got[s]) \in Nat /\ Len(prefix[s]) \in Nat /\ Len(queue[s]) \in Nat
      BY <1>5
    <3> QED
      BY <3>1, Zenon
  <2>9. Run(got[s], b) /\ Run(prefix[s], b + g) /\ Run(queue[s], b + g + p)
    BY <1>4, <2>0 DEF Placed, Follows
  <2>1. CASE prefix[s] # <<>>
    <3>1. /\ got'[s] = Append(got[s], Head(prefix[s])) /\ prefix'[s] = Tail(prefix[s]) /\ queue'[s] = queue[s]
      BY <1>2, <2>1
    <3>2. b + g \in Nat
      OBVIOUS
    <3>3. /\ Head(prefix[s]) = b + g + 1 /\ Head(prefix[s]) \in Nat
          /\ Len(Tail(prefix[s])) = p - 1 /\ Run(Tail(prefix[s]), b + g + 1)
      BY <1>5, <2>0, <2>9, <2>1, <3>2, RunTail
    <3>4. Run(got'[s], b) /\ Len(got'[s]) = g + 1
      <4>1. PICK c \in Nat : c = b + Len(got[s]) + 1 /\ got'[s] = Append(got[s], c)
        BY <2>0, <3>1, <3>3
      <4>2. Run(Append(got[s], c), b) /\ Len(Append(got[s], c)) = Len(got[s]) + 1
        BY <1>5, <2>9, <4>1, RunAppend
      <4> QED
        BY <2>0, <4>1, <4>2
    <3>5. Run(prefix'[s], b + (g + 1)) /\ Len(prefix'[s]) = p - 1
      <4>1. b + g + 1 = b + (g + 1)
        OBVIOUS
      <4> QED
        BY <3>1, <3>3, <4>1
    <3>6. Run(queue'[s], b + (g + 1) + (p - 1)) /\ Len(queue'[s]) = l
      <4>1. b + g + p = b + (g + 1) + (p - 1)
        OBVIOUS
      <4> QED
        BY <2>0, <2>9, <3>1, <4>1
    <3> QED
      BY <2>0, <3>4, <3>5, <3>6 DEF Follows, Last
  <2>2. CASE prefix[s] = <<>> /\ queue[s] # <<>>
    <3>1. /\ got'[s] = Append(got[s], Head(queue[s])) /\ queue'[s] = Tail(queue[s]) /\ prefix'[s] = <<>>
      BY <1>2, <2>2
    <3>2. p = 0 /\ b + g \in Nat /\ b + (g + 1) \in Nat /\ b + g + p = b + g
      BY <2>0, <2>2, RunEmpty
    <3>3. /\ Head(queue[s]) = b + g + 1 /\ Head(queue[s]) \in Nat
          /\ Len(Tail(queue[s])) = l - 1 /\ Run(Tail(queue[s]), b + g + 1)
      BY <1>5, <2>0, <2>9, <2>2, <3>2, RunTail
    <3>4. Run(got'[s], b) /\ Len(got'[s]) = g + 1
      <4>1. PICK c \in Nat : c = b + Len(got[s]) + 1 /\ got'[s] = Append(got[s], c)
        BY <2>0, <3>1, <3>3
      <4>2. Run(Append(got[s], c), b) /\ Len(Append(got[s], c)) = Len(got[s]) + 1
        BY <1>5, <2>9, <4>1, RunAppend
      <4> QED
        BY <2>0, <4>1, <4>2
    <3>5. Run(prefix'[s], b + (g + 1)) /\ Len(prefix'[s]) = 0
      BY <3>1, <3>2, RunEmpty
    <3>6. Run(queue'[s], b + (g + 1) + 0) /\ Len(queue'[s]) = l - 1
      <4>1. b + g + 1 = b + (g + 1) + 0
        OBVIOUS
      <4> QED
        BY <3>1, <3>3, <4>1
    <3>7. Last(s, b)' = b + (g + 1) + 0 + (l - 1) /\ Last(s, b) = b + g + 0 + l
      BY <2>0, <3>2, <3>4, <3>5, <3>6 DEF Last
    <3>8. Follows(s, b)'
      BY <3>4, <3>5, <3>6 DEF Follows
    <3> QED
      BY <3>7, <3>8
  <2>3. CASE prefix[s] = <<>> /\ queue[s] = <<>>
    <3>1. got'[s] = got[s] /\ prefix'[s] = prefix[s] /\ queue'[s] = queue[s]
      BY <1>2, <2>3
    <3> QED
      BY <1>4, <3>1 DEF Placed, Follows, Last
  <2> QED
    BY <2>1, <2>2, <2>3
<1>7. AllPlaced'
  <2>1. \A u \in Subs : u # s => \E c \in Nat : Placed(u, c)'
    BY <1>1, PlacedKept DEF AllPlaced
  <2>2. Placed(s, b)'
    BY <1>1, <1>4, <1>6 DEF Placed
  <2> QED
    BY <2>1, <2>2 DEF AllPlaced
<1>8. ReplayIsBody'
  BY <1>1 DEF ReplayIsBody, Run
<1>9. Registered'
  BY <1>1, <1>3 DEF Registered, BodyTypeOK
<1>10. Unregistered'
  <2>1. \A u \in Subs : outcome'[u] = "late" <=> outcome[u] = "late"
    BY <1>1, <1>3
  <2>2. stream[s] \notin {"none", "dropped"}
    BY <1>1 DEF Reads
  <2> QED
    BY <1>1, <2>1, <2>2 DEF Unregistered, WaitedFor
<1>11. Awaited'
  BY <1>1 DEF Awaited
<1>12. LateOnlyPastLimit'
  BY <1>1, <1>3 DEF LateOnlyPastLimit
<1>13. CleanEndIsWhole'
  <2>1. ASSUME outcome'[s] = "eof", Kind[s] # "live" PROVE Len(got'[s]) = BodyLen
    <3>1. /\ prefix[s] = <<>> /\ queue[s] = <<>> /\ s \notin subs /\ s \notin targets
          /\ got'[s] = got[s] /\ ~lagged[s] /\ ~failed
      BY <1>2, <2>1 DEF QueueClosed, EndOfQueue
    <3>2. closed
      BY <1>1, <3>1 DEF Unregistered, Reads
    <3>3. sent = BodyLen
      BY <3>1, <3>2 DEF Registered
    <3>4. b = 0 /\ Last(s, b) = sent
      BY <1>1, <1>4, <2>1, <3>1 DEF Placed
    <3>5. Len(<<>>) = 0 /\ Len(got[s]) \in Nat
      BY <1>5
    <3> QED
      BY <3>1, <3>3, <3>4, <3>5 DEF Last
  <2> QED
    BY <1>1, <2>1 DEF CleanEndIsWhole
<1> QED
  BY <1>7, <1>8, <1>9, <1>10, <1>11, <1>12, <1>13 DEF BodyInv

LEMMA StepDropStream ==
    ASSUME BodyInv, BodyTypeOK', NEW s \in Subs, drop_stream(s)
    PROVE  BodyInv'
<1> USE BodyAssumption DEF BodyAssumption
<1> BodyTypeOK /\ ReplayIsBody /\ AllPlaced /\ Registered /\ Unregistered /\ Awaited
    /\ CleanEndIsWhole /\ LateOnlyPastLimit
  BY DEF BodyInv
<1>1. /\ stream'[s] = "dropped" /\ subs' = subs \ {s} /\ prefix'[s] = <<>> /\ queue'[s] = <<>>
      /\ UNCHANGED <<closed, failed, has_subscriber, keeps, replay, replay_bytes, got, outcome, lagged, pump,
                     sent, targets, to_remove, waits>>
      /\ \A u \in Subs : u # s => stream'[u] = stream[u] /\ prefix'[u] = prefix[u] /\ queue'[u] = queue[u]
      /\ stream[s] # "none"
  BY DEF drop_stream, pumpVars, BodyTypeOK
<1>2. ReplayIsBody'
  BY <1>1 DEF ReplayIsBody, Run
<1>3. AllPlaced'
  <2>1. \A u \in Subs : u # s => \E c \in Nat : Placed(u, c)'
    BY <1>1, PlacedKept DEF AllPlaced
  <2>2. PICK b \in Nat : Placed(s, b)
    BY DEF AllPlaced
  <2>3. b + Len(got[s]) \in Nat /\ b + Len(got[s]) + Len(<<>>) \in Nat
    BY DEF BodyTypeOK
  <2>4. Run(got[s], b) /\ Run(<<>>, b + Len(got[s])) /\ Run(<<>>, b + Len(got[s]) + Len(<<>>))
    BY <2>2, <2>3, RunEmpty DEF Placed, Follows
  <2>5. Follows(s, b)'
    BY <1>1, <2>4 DEF Follows
  <2>6. Placed(s, b)'
    BY <1>1, <2>2, <2>5 DEF Placed, Reads
  <2> QED
    BY <2>1, <2>6 DEF AllPlaced
<1>4. Registered'
  BY <1>1 DEF Registered, BodyTypeOK
<1>5. Unregistered'
  BY <1>1 DEF Unregistered, WaitedFor
<1>6. Awaited'
  BY <1>1 DEF Awaited
<1>7. CleanEndIsWhole'
  BY <1>1 DEF CleanEndIsWhole
<1>8. LateOnlyPastLimit'
  BY <1>1 DEF LateOnlyPastLimit
<1> QED
  BY <1>2, <1>3, <1>4, <1>5, <1>6, <1>7, <1>8 DEF BodyInv

LEMMA StepRead ==
    ASSUME BodyInv, BodyTypeOK', read
    PROVE  BodyInv'
<1> USE BodyAssumption DEF BodyAssumption
<1> BodyTypeOK /\ ReplayIsBody /\ AllPlaced /\ Registered /\ Unregistered /\ Awaited
    /\ CleanEndIsWhole /\ LateOnlyPastLimit
  BY DEF BodyInv
<1>1. /\ pump = "reading" /\ pump' = "delivering" /\ sent' = sent + 1
      /\ targets' = subs /\ to_remove' = {} /\ record(sent + 1)
      /\ UNCHANGED <<subs, closed, failed, has_subscriber, stream, prefix, got, outcome, queue, lagged, waits>>
  BY DEF read, streamVars
<1>2. targets = {} /\ to_remove = {} /\ ~closed /\ ~failed
  BY <1>1 DEF Registered
<1>3. ReplayIsBody'
  <2>1. CASE keeps /\ replay_bytes + 1 <= ReplayLimit
    <3>1. /\ replay' = Append(replay, sent + 1) /\ replay_bytes' = sent + 1 /\ keeps' /\ sent + 1 <= ReplayLimit
          /\ Run(replay, 0) /\ Len(replay) = sent /\ replay \in Seq(Nat) /\ sent + 1 \in Nat
      BY <1>1, <2>1 DEF record, ReplayIsBody, BodyTypeOK
    <3>2. Run(Append(replay, sent + 1), 0) /\ Len(Append(replay, sent + 1)) = sent + 1
      BY <3>1, RunAppend
    <3> QED
      BY <1>1, <3>1, <3>2 DEF ReplayIsBody, Run
  <2>2. CASE ~keeps \/ ~(replay_bytes + 1 <= ReplayLimit)
    <3>1. replay' = <<>> /\ ~keeps' /\ sent + 1 > ReplayLimit
      BY <1>1, <2>2 DEF record, ReplayIsBody, BodyTypeOK
    <3> QED
      BY <1>1, <3>1 DEF ReplayIsBody
  <2> QED
    BY <2>1, <2>2
<1>4. AllPlaced'
  <2> SUFFICES ASSUME NEW s \in Subs, NEW b \in Nat, Placed(s, b) PROVE Placed(s, b)'
    BY DEF AllPlaced
  <2>1. Follows(s, b)' /\ Last(s, b)' = Last(s, b)
    BY <1>1 DEF Placed, Follows, Last, Run
  <2>2. ASSUME stream[s] \in Reads, outcome[s] # "late", s \in subs PROVE Last(s, b) = sent
    BY <1>2, <2>2 DEF Placed, Registered
  <2>3. ASSUME stream[s] \in Reads, outcome[s] # "late", s \notin subs PROVE lagged[s]
    BY <1>2, <2>3 DEF Unregistered, Reads
  <2>4. sent = sent' - 1
    BY <1>1 DEF BodyTypeOK
  <2> QED
    BY <1>1, <2>1, <2>2, <2>3, <2>4 DEF Placed
<1>5. Registered'
  BY <1>1, <1>2 DEF Registered
<1>6. Unregistered'
  BY <1>1 DEF Unregistered, WaitedFor
<1>7. Awaited'
  BY <1>1 DEF Awaited
<1>8. CleanEndIsWhole'
  BY <1>1 DEF CleanEndIsWhole
<1>9. LateOnlyPastLimit'
  BY <1>1 DEF LateOnlyPastLimit, BodyTypeOK
<1> QED
  BY <1>3, <1>4, <1>5, <1>6, <1>7, <1>8, <1>9 DEF BodyInv

LEMMA StepEnd ==
    ASSUME BodyInv, BodyTypeOK', probe \/ finish \/ error
    PROVE  BodyInv'
<1> USE BodyAssumption DEF BodyAssumption
<1> BodyTypeOK /\ ReplayIsBody /\ AllPlaced /\ Registered /\ Unregistered /\ Awaited
    /\ CleanEndIsWhole /\ LateOnlyPastLimit
  BY DEF BodyInv
<1>1. /\ pump # "ended"
      /\ Ended(TRUE) \/ (Ended(FALSE) /\ sent = BodyLen /\ pump = "reading")
  BY DEF probe, finish, error
<1>2. /\ closed' /\ subs' = {} /\ targets' = {} /\ to_remove' = {} /\ pump' = "ended"
      /\ UNCHANGED <<has_subscriber, keeps, replay, replay_bytes, stream, prefix, got, outcome, queue, lagged,
                     sent, waits>>
      /\ failed' \/ (~failed' /\ sent = BodyLen /\ pump = "reading")
  <2>1. ASSUME NEW bad, Ended(bad)
        PROVE  /\ closed' = TRUE /\ failed' = bad
               /\ subs' = {} /\ targets' = {} /\ to_remove' = {} /\ pump' = "ended"
               /\ UNCHANGED <<has_subscriber, keeps, replay, replay_bytes, stream, prefix, got, outcome, queue,
                              lagged, sent, waits>>
    BY <2>1 DEF Ended, streamVars
  <2>2. CASE Ended(TRUE)
    <3>1. closed' /\ failed'
      BY <2>2, Zenon DEF Ended
    <3> QED
      BY <2>1, <2>2, <3>1
  <2>3. CASE Ended(FALSE) /\ sent = BodyLen /\ pump = "reading"
    <3>1. closed' /\ ~failed'
      BY <2>3, Zenon DEF Ended
    <3> QED
      BY <2>1, <2>3, <3>1
  <2> QED
    BY <1>1, <2>2, <2>3
<1>3. ~closed /\ ~failed
  BY <1>1 DEF Registered
<1>4. ReplayIsBody'
  BY <1>2 DEF ReplayIsBody, Run
<1>5. AllPlaced'
  <2> SUFFICES ASSUME NEW s \in Subs, NEW b \in Nat, Placed(s, b) PROVE Placed(s, b)'
    BY DEF AllPlaced
  <2>1. ~failed' => targets = {}
    BY <1>2 DEF Registered
  <2> QED
    BY <1>2, <1>3, <2>1, PlacedKept
<1>6. Registered'
  BY <1>2 DEF Registered
<1>7. Unregistered'
  BY <1>2 DEF Unregistered, WaitedFor
<1>8. Awaited'
  BY <1>2 DEF Awaited
<1>9. CleanEndIsWhole' /\ LateOnlyPastLimit'
  BY <1>2 DEF CleanEndIsWhole, LateOnlyPastLimit
<1> QED
  BY <1>4, <1>5, <1>6, <1>7, <1>8, <1>9 DEF BodyInv

LEMMA StepDeliver ==
    ASSUME BodyInv, BodyTypeOK', NEW s \in Subs, try_deliver(s) \/ send(s)
    PROVE  BodyInv'
<1> USE BodyAssumption DEF BodyAssumption
<1> BodyTypeOK /\ ReplayIsBody /\ AllPlaced /\ Registered /\ Unregistered /\ Awaited
    /\ CleanEndIsWhole /\ LateOnlyPastLimit
  BY DEF BodyInv
<1>1. /\ pump = "delivering" /\ s \in targets /\ targets' = targets \ {s}
      /\ UNCHANGED <<subs, closed, failed, has_subscriber, keeps, replay, replay_bytes, stream, prefix, got,
                     outcome, pump, sent, waits>>
      /\ \A u \in Subs : u # s => queue'[u] = queue[u] /\ lagged'[u] = lagged[u]
  <2>1. /\ pump = "delivering" /\ s \in targets /\ targets' = targets \ {s}
        /\ UNCHANGED deliverUnchanged
        /\ queue' = [queue EXCEPT ![s] = Append(queue[s], sent)] \/ queue' = queue
        /\ lagged' = [lagged EXCEPT ![s] = lagged[s] \/ stream[s] # "dropped"] \/ lagged' = lagged
    BY Zenon DEF try_deliver, send, Delivered
  <2>2. DOMAIN queue = Subs /\ DOMAIN lagged = Subs
    BY DEF BodyTypeOK
  <2>3. \A u \in Subs : u # s => queue'[u] = queue[u]
    BY <2>1, <2>2
  <2>4. \A u \in Subs : u # s => lagged'[u] = lagged[u]
    BY <2>1, <2>2
  <2> QED
    BY <2>1, <2>3, <2>4 DEF deliverUnchanged, stateVars, streamVars
<1>2. \/ /\ stream[s] # "dropped" /\ queue'[s] = Append(queue[s], sent)
         /\ UNCHANGED <<lagged, to_remove>>
      \/ /\ queue'[s] = queue[s] /\ to_remove' = to_remove \cup {s}
         /\ lagged'[s] \/ stream[s] = "dropped"
         /\ lagged'[s] => lagged[s] \/ ~WaitedFor(s)
         /\ lagged[s] => lagged'[s]
  <2>1. CASE try_deliver(s)
    BY <2>1 DEF try_deliver, Delivered, BodyTypeOK
  <2>2. CASE send(s)
    BY <2>2 DEF send, Delivered, BodyTypeOK
  <2> QED
    BY <2>1, <2>2
<1>3. ~closed /\ ~failed /\ (s \in subs \/ stream[s] = "dropped") /\ s \notin to_remove
  BY <1>1 DEF Registered
<1>4. ~lagged[s] \/ stream[s] = "dropped"
  BY <1>3 DEF Registered
<1>5. ReplayIsBody'
  BY <1>1 DEF ReplayIsBody, Run
<1>6. AllPlaced'
  <2>1. \A u \in Subs : u # s => \E c \in Nat : Placed(u, c)'
    BY <1>1, PlacedKept DEF AllPlaced
  <2>2. PICK b \in Nat : Placed(s, b)
    BY DEF AllPlaced
  <2>3. CASE queue'[s] = queue[s]
    <3>1. stream[s] = "dropped" \/ lagged'[s]
      <4>1. queue[s] # Append(queue[s], sent)
        <5>1. queue[s] \in Seq(Nat) /\ Len(Append(queue[s], sent)) = Len(queue[s]) + 1 /\ Len(queue[s]) \in Nat
          BY DEF BodyTypeOK
        <5> QED
          BY <5>1
      <4> QED
        BY <1>2, <2>3, <4>1
    <3>2. Placed(s, b)'
      BY <1>1, <2>2, <2>3, <3>1, PlacedKept DEF Reads
    <3> QED
      BY <2>1, <3>2 DEF AllPlaced
  <2>4. CASE queue'[s] # queue[s]
    <3>1. stream[s] = "open" /\ outcome[s] # "late" /\ queue'[s] = Append(queue[s], sent)
      BY <1>2, <1>3, <2>4 DEF Registered
    <3>2. PICK n \in Nat : n = b + Len(got[s]) + Len(prefix[s])
      BY DEF BodyTypeOK
    <3>3. queue[s] \in Seq(Nat) /\ Len(queue[s]) \in Nat /\ sent \in Nat /\ Run(queue[s], n) /\ n + Len(queue[s]) = sent - 1
      <4>1. Last(s, b) = sent - 1
        BY <1>1, <2>2, <3>1 DEF Placed, Reads
      <4> QED
        BY <2>2, <3>2, <4>1 DEF Placed, Follows, Last, BodyTypeOK
    <3>4. sent = n + Len(queue[s]) + 1
      BY <3>3
    <3>5. Run(queue'[s], n) /\ Len(queue'[s]) = Len(queue[s]) + 1
      BY <3>1, <3>3, <3>4, RunAppend
    <3>6. Follows(s, b)'
      BY <1>1, <2>2, <3>2, <3>5 DEF Placed, Follows
    <3>7. Last(s, b)' = sent'
      <4>1. PICK g \in Nat, p \in Nat, k \in Nat : g = Len(got[s]) /\ p = Len(prefix[s]) /\ k = Len(queue[s])
        <5>1. Len(got[s]) \in Nat /\ Len(prefix[s]) \in Nat /\ Len(queue[s]) \in Nat
          BY DEF BodyTypeOK
        <5> QED
          BY <5>1, Zenon
      <4>2. got'[s] = got[s] /\ prefix'[s] = prefix[s] /\ sent' = sent
        BY <1>1
      <4>3. Last(s, b)' = b + g + p + (k + 1)
        BY <3>5, <4>1, <4>2 DEF Last
      <4>4. b + g + p = n /\ n + k = sent - 1
        BY <3>2, <3>3, <4>1
      <4>5. n \in Nat /\ sent \in Nat
        BY <3>3 DEF BodyTypeOK
      <4>6. b + g + p + (k + 1) = sent
        BY <4>4, <4>5
      <4> QED
        BY <4>2, <4>3, <4>6, Zenon
    <3>8. Placed(s, b)'
      BY <1>1, <2>2, <3>6, <3>7 DEF Placed
    <3> QED
      BY <2>1, <3>8 DEF AllPlaced
  <2> QED
    BY <2>3, <2>4
<1>7. Registered'
  <2>1. \A u \in subs : lagged'[u] => u \in to_remove'
    BY <1>1, <1>2, <1>4 DEF Registered, BodyTypeOK
  <2>2. \A u \in targets' : (u \in subs \/ stream[u] = "dropped") /\ u \notin to_remove'
    BY <1>1, <1>2 DEF Registered
  <2>3. \A u \in to_remove' : lagged'[u] \/ stream[u] = "dropped"
    <3>1. \A u \in to_remove : lagged[u] \/ stream[u] = "dropped"
      BY DEF Registered
    <3>2. to_remove \subseteq Subs
      BY DEF BodyTypeOK
    <3>3. \A u \in to_remove : lagged'[u] \/ stream[u] = "dropped"
      BY <1>1, <1>3, <3>1, <3>2
    <3> QED
      BY <1>2, <3>3
  <2> QED
    BY <1>1, <1>3, <2>1, <2>2, <2>3 DEF Registered
<1>8. Unregistered'
  <2>0. stream[s] \in {"open", "dropped"}
    BY <1>3 DEF Registered
  <2>1. \A u \in Subs : lagged[u] => lagged'[u]
    BY <1>1, <1>2
  <2>2. \A u \in Subs : stream[u] = "none" => ~lagged'[u]
    BY <1>1, <2>0 DEF Unregistered
  <2>3. \A u \in Subs : lagged'[u] => ~WaitedFor(u)
    <3>1. \A u \in Subs : lagged[u] => ~WaitedFor(u)
      BY DEF Unregistered
    <3> QED
      BY <1>1, <1>2, <3>1
  <2>4. \A u \in Subs : stream[u] \in {"none", "dropped"} => queue'[u] = <<>>
    BY <1>1, <1>2, <2>0 DEF Unregistered
  <2> QED
    BY <1>1, <2>1, <2>2, <2>3, <2>4 DEF Unregistered, WaitedFor
<1>9. Awaited'
  BY <1>1 DEF Awaited
<1>10. CleanEndIsWhole' /\ LateOnlyPastLimit'
  BY <1>1 DEF CleanEndIsWhole, LateOnlyPastLimit
<1> QED
  BY <1>5, <1>6, <1>7, <1>8, <1>9, <1>10 DEF BodyInv

LEMMA StepRemove ==
    ASSUME BodyInv, BodyTypeOK', remove
    PROVE  BodyInv'
<1> BodyTypeOK /\ ReplayIsBody /\ AllPlaced /\ Registered /\ Unregistered /\ Awaited
    /\ CleanEndIsWhole /\ LateOnlyPastLimit
  BY DEF BodyInv
<1>1. /\ pump = "delivering" /\ pump' = "reading" /\ subs' = subs \ to_remove /\ to_remove' = {} /\ targets = {}
      /\ UNCHANGED <<closed, failed, has_subscriber, keeps, replay, replay_bytes, stream, prefix, got,
                     outcome, queue, lagged, sent, targets, waits>>
  BY DEF remove, streamVars
<1>2. ReplayIsBody'
  BY <1>1 DEF ReplayIsBody, Run
<1>3. AllPlaced'
  BY <1>1, PlacedKept DEF AllPlaced
<1>4. Registered'
  BY <1>1 DEF Registered
<1>5. Unregistered'
  BY <1>1 DEF Unregistered, Registered, WaitedFor
<1>6. Awaited'
  BY <1>1 DEF Awaited
<1>7. CleanEndIsWhole' /\ LateOnlyPastLimit'
  BY <1>1 DEF CleanEndIsWhole, LateOnlyPastLimit
<1> QED
  BY <1>2, <1>3, <1>4, <1>5, <1>6, <1>7 DEF BodyInv

LEMMA StepBody == BodyInv /\ [Next]_vars => BodyInv'
<1> SUFFICES ASSUME BodyInv, [Next]_vars PROVE BodyInv'
  OBVIOUS
<1>0. BodyTypeOK'
  BY StepBodyType DEF BodyInv
<1>1. ASSUME NEW s \in Subs, subscribe(s) PROVE BodyInv'
  BY <1>0, <1>1, StepSubscribe
<1>2. ASSUME NEW s \in Subs, poll_next(s) PROVE BodyInv'
  BY <1>0, <1>2, StepPoll
<1>3. ASSUME NEW s \in Subs, drop_stream(s) PROVE BodyInv'
  BY <1>0, <1>3, StepDropStream
<1>4. CASE DropHandle \/ first_subscriber \/ stop_abandoned
  BY <1>0, <1>4, StepAside
<1>5. CASE read
  BY <1>0, <1>5, StepRead
<1>6. CASE probe \/ finish \/ error
  BY <1>0, <1>6, StepEnd
<1>7. ASSUME NEW s \in Subs, try_deliver(s) \/ send(s) PROVE BodyInv'
  BY <1>0, <1>7, StepDeliver
<1>8. CASE remove
  BY <1>0, <1>8, StepRemove
<1>9. CASE UNCHANGED vars
  <2>1. UNCHANGED <<stateVars, streamVars, queue, lagged, pumpVars>>
    BY <1>9 DEF vars
  <2>2. AllPlaced'
    BY <2>1, PlacedKept DEF BodyInv, AllPlaced, stateVars, streamVars, pumpVars
  <2> QED
    BY <1>0, <2>1, <2>2 DEF stateVars, streamVars, pumpVars, BodyInv, ReplayIsBody, Run, Registered,
       Unregistered, WaitedFor, Awaited, CleanEndIsWhole, LateOnlyPastLimit
<1> QED
  BY <1>1, <1>2, <1>3, <1>4, <1>5, <1>6, <1>7, <1>8, <1>9 DEF Next, Reader, Deliver

-----------------------------------------------------------------------------
(* What the subscribers can rely on.                                       *)

LEMMA InvGivesBody == ASSUME BodyInv PROVE BodyDelivered
<1>1. InOrder
  <2> SUFFICES ASSUME NEW s \in Subs
               PROVE  /\ IsRun(got[s] \o prefix[s] \o queue[s])
                      /\ Kind[s] # "live" /\ got[s] # <<>> => got[s][1] = 1
    BY DEF InOrder
  <2>1. PICK b \in Nat : Placed(s, b)
    BY DEF BodyInv, AllPlaced
  <2>2. got[s] \in Seq(Nat) /\ prefix[s] \in Seq(Nat) /\ queue[s] \in Seq(Nat)
    BY DEF BodyInv, BodyTypeOK
  <2>3. PICK p \in Seq(Nat) : p = got[s] \o prefix[s] /\ Run(p, b) /\ Len(p) = Len(got[s]) + Len(prefix[s])
    BY <2>1, <2>2, RunConcat DEF Placed, Follows
  <2>4. b + Len(p) = b + Len(got[s]) + Len(prefix[s])
    <3>1. PICK g \in Nat, k \in Nat : g = Len(got[s]) /\ k = Len(prefix[s])
      <4>1. Len(got[s]) \in Nat /\ Len(prefix[s]) \in Nat
        BY <2>2
      <4> QED
        BY <4>1, Zenon
    <3>2. Len(p) = g + k
      BY <2>3, <3>1
    <3>3. b + (g + k) = b + g + k
      OBVIOUS
    <3> QED
      BY <3>1, <3>2, <3>3
  <2>5. PICK q \in Seq(Nat) : q = p \o queue[s] /\ Run(q, b)
    <3>1. Run(queue[s], b + Len(p))
      BY <2>1, <2>4 DEF Placed, Follows
    <3>2. Run(p \o queue[s], b) /\ p \o queue[s] \in Seq(Nat)
      BY <2>2, <2>3, <3>1, RunConcat
    <3> QED
      BY <3>2, Zenon
  <2>6. IsRun(q)
    <3>1. Len(q) \in Nat
      BY <2>5
    <3>2. ASSUME NEW n \in 1..(Len(q) - 1) PROVE q[n + 1] = q[n] + 1
      <4>1. n \in 1..Len(q) /\ n + 1 \in 1..Len(q)
        BY <3>1
      <4>2. q[n] = b + n /\ q[n + 1] = b + (n + 1)
        BY <2>5, <4>1 DEF Run
      <4> QED
        BY <4>1, <4>2
    <3> QED
      BY <3>2 DEF IsRun
  <2>7. ASSUME Kind[s] # "live", got[s] # <<>> PROVE got[s][1] = 1
    <3>1. Len(got[s]) \in Nat /\ Len(got[s]) # 0 /\ b = 0
      BY <2>1, <2>2, <2>7 DEF Placed
    <3> QED
      BY <2>1, <3>1 DEF Placed, Follows, Run
  <2> QED
    BY <2>3, <2>5, <2>6, <2>7
<1>2. LosslessKept
  BY DEF BodyInv, Unregistered, LosslessKept
<1> QED
  BY <1>1, <1>2 DEF BodyInv, BodyDelivered

\* Whatever subscribers come, read and go while from_reader, or a producer that pushes, hands
\* the body out: each gets it in order from its start, a clean end only with all of it, a
\* lossless one is never dropped by a producer that waits, and who is turned away came after
\* more than the replay limit.
THEOREM SubscribersGetBody == Spec => []BodyDelivered
<1>1. BodyInv => BodyDelivered
  BY InvGivesBody
<1> QED
  BY InitBody, StepBody, <1>1, PTL DEF Spec

-----------------------------------------------------------------------------
(* The tee and its file.                                                   *)

TeeTypeOK ==
    /\ shared \in BOOLEAN /\ file_dest \in BOOLEAN /\ file_error \in BOOLEAN
    /\ file \in {"none", "temp", "renamed", "gone"}
    /\ written \in Nat /\ filed \in Nat /\ sent \in Nat
    /\ tee \in {"setup", "peek", "loop", "flushed", "ended", "done"}

\* Where the body is while the tee is at its several steps.
TeeAt ==
    /\ waits => tee = "setup"
    /\ tee \in {"setup", "peek"} /\ ~waits => sent = 0 /\ pump = "reading"
    /\ tee = "peek" => filed = 1
    /\ tee = "loop" => pump \in {"reading", "delivering"} /\ filed <= sent /\ sent <= filed + 1
    /\ tee = "flushed" => pump = "reading" /\ filed = sent /\ sent = BodyLen
    /\ tee = "ended" => closed

\* Whether there is a file, and what it holds: what was filed, until a write fails.
FileAt ==
    /\ tee = "setup" => file = "none" /\ ~file_error
    /\ tee \in {"peek", "loop", "flushed", "ended"} =>
          /\ file \in {"none", "temp"} /\ (file = "temp" => file_dest)
          /\ file_dest /\ ~file_error => file = "temp"
    /\ tee \in {"peek", "loop", "flushed"} /\ file = "temp" /\ ~file_error => written = filed
    /\ tee = "ended" /\ ~failed /\ file = "temp" /\ ~file_error => written = BodyLen
    /\ file = "renamed" => tee = "done"

TeeInv == TeeTypeOK /\ TeeAt /\ FileAt /\ FileIsWhole

LEMMA InitTee == PumpInit => TeeInv
<1> SUFFICES ASSUME PumpInit PROVE TeeInv
  OBVIOUS
<1>1. file_error \in BOOLEAN /\ ~file_error
  BY Zenon DEF PumpInit
<1>2. sent = 0 /\ (~waits => pump = "reading")
  BY DEF PumpInit, Init
<1>3. TeeTypeOK
  BY <1>1, <1>2 DEF PumpInit, TeeTypeOK
<1> QED
  BY <1>1, <1>2, <1>3 DEF PumpInit, TeeInv, TeeAt, FileAt, FileIsWhole

\* What happens beside the tee: the subscribers, the push, and the whole of from_reader.
LEMMA BesideTee ==
    ASSUME TeeInv, UNCHANGED teeVars,
           \/ \E s \in Subs : subscribe(s) \/ poll_next(s) \/ drop_stream(s)
           \/ DropHandle \/ Deliver
           \/ waits /\ (first_subscriber \/ stop_abandoned \/ Reader)
    PROVE  TeeInv'
<1> USE DEF teeVars, targetVars, fileVars
<1>1. CASE \/ \E s \in Subs : subscribe(s) \/ poll_next(s) \/ drop_stream(s)
           \/ DropHandle
  <2>1. UNCHANGED <<waits, sent, pump, closed, failed>>
    BY <1>1 DEF subscribe, poll_next, drop_stream, DropHandle, stateVars, pumpVars
  <2> QED
    BY <2>1 DEF TeeInv, TeeTypeOK, TeeAt, FileAt, FileIsWhole
<1>2. CASE Deliver
  <2>1. UNCHANGED <<waits, sent, closed, failed>> /\ pump = "delivering" /\ pump' \in {"reading", "delivering"}
    BY <1>2 DEF Deliver, remove, try_deliver, send, deliverUnchanged, stateVars, pumpVars
  <2> QED
    BY <2>1 DEF TeeInv, TeeTypeOK, TeeAt, FileAt, FileIsWhole
<1>3. CASE waits /\ (first_subscriber \/ stop_abandoned \/ Reader)
  <2>1. tee = "setup" /\ file = "none"
    BY <1>3 DEF TeeInv, TeeAt, FileAt
  <2>2. waits' = waits /\ (sent' = sent \/ sent' = sent + 1)
    <3>1. first_subscriber \/ stop_abandoned \/ read => waits' = waits /\ (sent' = sent \/ sent' = sent + 1)
      BY DEF first_subscriber, stop_abandoned, read
    <3>2. probe \/ finish \/ error => waits' = waits /\ sent' = sent
      BY Zenon DEF probe, finish, error, Ended
    <3> QED
      BY <1>3, <3>1, <3>2 DEF Reader
  <2> QED
    BY <1>3, <2>1, <2>2 DEF TeeInv, TeeTypeOK, TeeAt, FileAt, FileIsWhole
<1> QED
  BY <1>1, <1>2, <1>3

LEMMA StepTee == TeeInv /\ [PumpNext]_allVars => TeeInv'
<1> SUFFICES ASSUME TeeInv, [PumpNext]_allVars PROVE TeeInv'
  OBVIOUS
<1> TeeTypeOK /\ TeeAt /\ FileAt /\ FileIsWhole
  BY DEF TeeInv
<1> USE DEF targetVars, fileVars
<1>1. CASE UNCHANGED teeVars /\ ( \/ \E s \in Subs : subscribe(s) \/ poll_next(s) \/ drop_stream(s)
                                  \/ DropHandle \/ Deliver
                                  \/ waits /\ (first_subscriber \/ stop_abandoned \/ Reader))
  BY <1>1, BesideTee
<1>2. CASE setup
  <2>1. UNCHANGED <<waits, sent, pump, closed, failed>>
    BY <1>2 DEF setup, vars, stateVars, pumpVars
  <2>2. file_error' \in BOOLEAN
    BY <1>2 DEF setup, TeeTypeOK
  <2> QED
    BY <1>2, <2>1, <2>2 DEF setup, TeeInv, TeeTypeOK, TeeAt, FileAt, FileIsWhole
<1>3. CASE push_peek
  BY <1>3 DEF push_peek, read, TeeInv, TeeTypeOK, TeeAt, FileAt, FileIsWhole
<1>4. CASE write_to_file
  <2>1. UNCHANGED <<waits, sent, pump, closed, failed>>
    BY <1>4 DEF write_to_file, vars, stateVars, pumpVars
  <2>2. file_error' \in BOOLEAN
    BY <1>4 DEF write_to_file, TeeTypeOK
  <2> QED
    BY <1>4, <2>1, <2>2 DEF write_to_file, TeeInv, TeeTypeOK, TeeAt, FileAt, FileIsWhole
<1>5. CASE pump_finish
  <2>1. closed' /\ ~failed' /\ UNCHANGED <<waits, sent>> /\ sent = BodyLen
    BY <1>5, Zenon DEF pump_finish, finish, Ended
  <2> QED
    BY <1>5, <2>1 DEF pump_finish, TeeInv, TeeTypeOK, TeeAt, FileAt, FileIsWhole
<1>6. CASE settle
  <2>1. UNCHANGED <<waits, sent, pump, closed, failed>>
    BY <1>6 DEF settle, vars, stateVars, pumpVars
  <2> QED
    <3>1. TeeTypeOK'
      BY <1>6, <2>1 DEF settle, Removed, TeeTypeOK
    <3>2. TeeAt' /\ FileAt'
      BY <1>6, <2>1 DEF settle, TeeAt, FileAt
    <3>3. file' = "renamed" => written = BodyLen /\ closed /\ ~failed /\ result' = "path"
      BY <1>6 DEF settle, Removed, TeeAt, FileAt
    <3>4. file' # "temp" /\ (result' = "path" => file' = "renamed")
      BY <1>6 DEF settle, Removed, TeeAt, FileAt
    <3>5. written' = written
      BY <1>6 DEF settle
    <3>6. (result' = "path") = (file' = "renamed")
      BY <3>3, <3>4
    <3>7. FileIsWhole'
      BY <2>1, <3>3, <3>4, <3>5, <3>6 DEF FileIsWhole
    <3> QED
      BY <3>1, <3>2, <3>7 DEF TeeInv
<1>7. CASE pump_read
  BY <1>7 DEF pump_read, Looping, teeVars, read, TeeInv, TeeTypeOK, TeeAt, FileAt, FileIsWhole
<1>8. CASE flush
  <2>1. UNCHANGED <<waits, sent, pump, closed, failed>>
    BY <1>8 DEF flush, vars, stateVars, pumpVars
  <2>2. file_error' \in BOOLEAN
    BY <1>8 DEF flush, TeeTypeOK
  <2> QED
    BY <1>8, <2>1, <2>2 DEF flush, Looping, TeeInv, TeeTypeOK, TeeAt, FileAt, FileIsWhole
<1>9. CASE pump_error
  <2>1. closed' /\ failed' /\ UNCHANGED <<waits, sent>>
    BY <1>9, Zenon DEF pump_error, error, Ended
  <2> QED
    BY <1>9, <2>1 DEF pump_error, Looping, TeeInv, TeeTypeOK, TeeAt, FileAt, FileIsWhole
<1>10. CASE UNCHANGED allVars
  BY <1>10 DEF allVars, teeVars, vars, stateVars, pumpVars, TeeInv, TeeTypeOK, TeeAt, FileAt, FileIsWhole
<1> QED
  BY <1>1, <1>2, <1>3, <1>4, <1>5, <1>6, <1>7, <1>8, <1>9, <1>10 DEF PumpNext, TeeStep

\* With the tee as its producer the body is a SharedBody still: what the tee does beside
\* pushing to it, its file above all, the subscribers cannot see.
LEMMA TeeIsProducer == [PumpNext]_allVars => [Next]_vars
<1>1. read \/ finish \/ error => Next
  BY DEF Next, Reader
<1>2. setup \/ write_to_file \/ settle \/ flush \/ UNCHANGED allVars => UNCHANGED vars
  BY DEF setup, write_to_file, settle, flush, allVars
<1>3. push_peek \/ pump_read \/ pump_finish \/ pump_error => read \/ finish \/ error
  BY DEF push_peek, pump_read, pump_finish, pump_error
<1> QED
  BY <1>1, <1>2, <1>3 DEF PumpNext, TeeStep, Next

\* The tee of spawn_pump implements a producer of the shared body, so those that read along
\* while a body is written to a file are promised the same as those of from_reader.
THEOREM TeeKeepsPromise == PumpSpec => Spec /\ []BodyDelivered
<1>1. PumpInit => Init
  BY DEF PumpInit
<1>2. PumpSpec => Spec
  BY <1>1, TeeIsProducer, PTL DEF PumpSpec, Spec
<1> QED
  BY <1>2, SubscribersGetBody, PTL

\* Whatever fails and wherever (the file cannot be made, a write, the flush or the rename
\* fails, the transfer is cancelled or breaks off): the destination's name is given only to a
\* file that holds the whole of a body that ended cleanly, the task says which it was, and it
\* leaves no temporary file behind.
THEOREM NamedFileIsWhole == PumpSpec => []FileIsWhole
<1>1. TeeInv => FileIsWhole
  BY DEF TeeInv
<1> QED
  BY InitTee, StepTee, <1>1, PTL DEF PumpSpec
=============================================================================
