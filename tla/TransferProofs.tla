--------------------------- MODULE TransferProofs ---------------------------
(***************************************************************************)
(* Proofs about Transfer: for any body, peek window, limits, ceilings and  *)
(* number of retries, a body is never passed off as whole, and what the    *)
(* observer is told is true.                                               *)
(*                                                                         *)
(* The attempt's end is either with the observer (Closed, in the last      *)
(* attempt) or held by the AttemptView; Open is an attempt without an end. *)
(* ReaderOK ties the counters of the reader to what the client gave: every *)
(* byte is handed on, pending or put back in front, and the collector and  *)
(* the capture have seen exactly those.                                    *)
(***************************************************************************)
EXTENDS Transfer, TLAPS

Names == Ends \cup {"Started", "Progress", "BodyPreview", "Retrying"}

EventType == [is: Names, bytes: Nat, cut: BOOLEAN]

ToldType ==
    [held: {Ev(x) : x \in Ends} \cup {None}, last: BOOLEAN, ends: Seq(Ends), tail: Seq(Names),
     shown: Nat, back: BOOLEAN, preview: PreviewType \cup {None}]

SrcType == [got: Nat, over: BOOLEAN]

Tails == {<<>>, <<"BodyPreview">>}

Open(t) == t.held = None /\ t.ends = <<>> /\ t.tail = <<>>

\* The attempt has reported x, its end.
Closed(t, x) ==
    /\ x \in Ends
    /\ t.last => t.held = None /\ t.ends = <<x>> /\ t.tail \in Tails
    /\ ~t.last => t.held = Ev(x) /\ t.ends = <<>> /\ t.tail = <<>>

PreviewTrue(v, p, s) ==
    v # None => ~v.again /\ (~v.cut => v.bytes = (IF p.cached THEN p.len ELSE s.got))

\* A reader, the response and what came of it, the excess of the peek, and what was told.
ReaderOK(r, p, s, ex, t) ==
    /\ r \in ReaderType /\ p \in Responses
    /\ s.got <= p.len /\ r.received + r.pending + ex = s.got
    /\ r.expected_length # None => r.expected_length = p.len \/ s.got = p.len
    /\ r.cache # None => r.cache = r.received /\ r.cache <= max_entry_bytes
    /\ r.capture # None /\ ~r.capture.truncated => r.capture.taken = s.got - ex
    /\ r.capture # None /\ ~r.capture.reported => t.preview = None /\ t.tail = <<>>
    /\ r.emitted = {} => Open(t) /\ (~p.cached => t.preview = None)
    /\ t.shown <= r.received

WithinMax(n) == req.max_bytes # None => n <= req.max_bytes

\* x is an end that fits the outcome.
EndOK(x) ==
    /\ x = "Finished" => src.got = resp.len
    /\ outcome = "ok" /\ ~req.streaming =>
          x = "Finished" /\ (~resp.cached => WithinMax(resp.len))
    /\ x = "Failed" => outcome # "ok" \/ req.streaming

Reads == ReaderOK(reader, resp, src, excess, told)

Fresh ==
    /\ reader = None /\ src = NoBody /\ peek = 0 /\ excess = 0
    /\ Open(told) /\ told.preview = None /\ told.shown = 0

Peeks ==
    /\ reader = None /\ resp \in Responses /\ ~resp.cached
    /\ peek < PEEK_MAX /\ excess = 0 /\ src.got = peek /\ src.got <= resp.len
    /\ Open(told) /\ told.preview = None /\ told.shown <= peek

Buffers == Reads /\ reader.emitted = {} /\ ~req.streaming /\ (~resp.cached => WithinMax(reader.received))

Judged ==
    /\ reader = None => \E x \in Ends : Closed(told, x) /\ EndOK(x)
    /\ reader # None => Reads /\ reader.emitted = {} /\ req.streaming

Handed ==
    /\ Reads /\ req.streaming /\ told.last
    /\ reader.emitted # {} => \E x \in Ends : Closed(told, x) /\ (x = "Finished" => src.got = resp.len)

Waits == Open(told) /\ reader = None /\ req.max_retries # None

Ended == \E x \in Ends : told.ends = <<x>> /\ told.tail \in Tails /\ EndOK(x)

ByPhase ==
    /\ phase = "asking" => Fresh
    /\ phase = "peeking" => Peeks
    /\ phase = "body" => Buffers
    /\ phase = "judged" => Judged
    /\ phase = "handed" => Handed
    /\ phase = "waiting" => Waits
    /\ phase = "done" => Ended

Phases == {"asking", "peeking", "body", "judged", "handed", "waiting", "done"}

Typed ==
    /\ req \in Requests /\ cancelled \in BOOLEAN /\ phase \in Phases
    /\ src \in SrcType /\ peek \in Nat /\ excess \in Nat /\ told \in ToldType

Views == phase \notin {"handed", "done"} => (told.last <=> req.max_retries = None)

TellsTrue == ~told.back /\ told.shown <= src.got /\ PreviewTrue(told.preview, resp, src)

TransferInv == Typed /\ Views /\ TellsTrue /\ StoredIsWhole /\ ByPhase

-----------------------------------------------------------------------------
(* The events of a step.                                                   *)

Steps(t, es, f) == f = [n \in 0..Len(es) |-> IF n = 0 THEN t ELSE on_event(f[n - 1], es[n])]

LEMMA SaidIs == ASSUME NEW t, NEW es PROVE Said(t, es) = (CHOOSE f : Steps(t, es, f))[Len(es)]
  BY DEF Said, Steps

\* A step reports three events at most.
LEMMA SaidFew ==
    ASSUME NEW t, NEW es
    PROVE  /\ Len(es) = 0 => Said(t, es) = t
           /\ Len(es) = 1 => Said(t, es) = on_event(t, es[1])
           /\ Len(es) = 2 => Said(t, es) = on_event(on_event(t, es[1]), es[2])
           /\ Len(es) = 3 => Said(t, es) = on_event(on_event(on_event(t, es[1]), es[2]), es[3])
<1>1. PICK a : a = on_event(t, es[1])
  OBVIOUS
<1>2. PICK b : b = on_event(a, es[2])
  OBVIOUS
<1>3. PICK c : c = on_event(b, es[3])
  OBVIOUS
<1>4. PICK f : f = [n \in 0..Len(es) |-> IF n = 0 THEN t ELSE IF n = 1 THEN a ELSE IF n = 2 THEN b ELSE c]
  OBVIOUS
<1>5. ASSUME Len(es) \in 0..3 PROVE Steps(t, es, f)
  <2>1. ASSUME NEW n \in 0..Len(es) PROVE f[n] = IF n = 0 THEN t ELSE on_event(f[n - 1], es[n])
    <3>1. PICK k \in {0, 1, 2, 3} : k = Len(es)
      BY <1>5
    <3>2. n \in {0, 1, 2, 3} /\ n \in 0..k /\ (n # 0 => n - 1 \in 0..k)
      BY <3>1
    <3> QED
      BY <1>1, <1>2, <1>3, <1>4, <3>1, <3>2
  <2> QED
    BY <1>4, <2>1 DEF Steps
<1>6. PICK g : g = CHOOSE h : Steps(t, es, h)
  OBVIOUS
<1>7. ASSUME Len(es) \in 0..3
      PROVE  /\ g[0] = t
             /\ Len(es) >= 1 => g[1] = on_event(g[0], es[1])
             /\ Len(es) >= 2 => g[2] = on_event(g[1], es[2])
             /\ Len(es) >= 3 => g[3] = on_event(g[2], es[3])
  <2>1. Steps(t, es, g)
    BY <1>5, <1>6, <1>7
  <2> QED
    BY <1>7, <2>1 DEF Steps
<1>8. Said(t, es) = g[Len(es)]
  BY <1>6, SaidIs
<1>9. ASSUME Len(es) = 0 PROVE Said(t, es) = t
  BY <1>7, <1>8, <1>9
<1>10. ASSUME Len(es) = 1 PROVE Said(t, es) = a
  BY <1>1, <1>7, <1>8, <1>10
<1>11. ASSUME Len(es) = 2 PROVE Said(t, es) = b
  BY <1>1, <1>2, <1>7, <1>8, <1>11
<1>12. ASSUME Len(es) = 3 PROVE Said(t, es) = c
  BY <1>1, <1>2, <1>3, <1>7, <1>8, <1>12
<1> QED
  BY <1>1, <1>2, <1>3, <1>9, <1>10, <1>11, <1>12

\* At most one event.
Short(es) == es \in Seq(EventType) /\ Len(es) <= 1

LEMMA ShortSeqs == ASSUME NEW e \in EventType PROVE Short(<<>>) /\ Short(<<e>>) /\ Len(<<e>>) = 1 /\ <<e>>[1] = e
  BY DEF Short

LEMMA SaidOne == ASSUME NEW t, NEW e \in EventType PROVE Said(t, <<e>>) = on_event(t, e)
  BY SaidFew

LEMMA SaidNone == ASSUME NEW t PROVE Said(t, <<>>) = t
  BY SaidFew

LEMMA ShortLen == ASSUME NEW x, Short(x) PROVE x \in Seq(EventType) /\ (Len(x) = 0 \/ Len(x) = 1)
<1>1. PICK k \in Nat : k = Len(x) /\ k <= 1
  BY DEF Short
<1>2. k = 0 \/ k = 1
  BY <1>1
<1> QED
  BY <1>1, <1>2 DEF Short

\* What a short sequence in front does to the events behind it.
LEMMA Joined ==
    ASSUME NEW x, NEW w, Short(x), w \in Seq(EventType)
    PROVE  /\ x \o w \in Seq(EventType)
           /\ Len(x) = 0 => x \o w = w
           /\ Len(x) = 1 => /\ Len(x \o w) = 1 + Len(w) /\ (x \o w)[1] = x[1]
                            /\ \A n \in 1..Len(w) : (x \o w)[n + 1] = w[n]
<1>1. x \in Seq(EventType)
  BY DEF Short
<1>2. x \o w \in Seq(EventType) /\ Len(x \o w) = Len(x) + Len(w) /\ Len(w) \in Nat
  BY <1>1
<1>3. ASSUME Len(x) = 0 PROVE x \o w = w
  BY <1>1, <1>2, <1>3
<1>4. ASSUME Len(x) = 1
      PROVE  Len(x \o w) = 1 + Len(w) /\ (x \o w)[1] = x[1]
  BY <1>1, <1>2, <1>4
<1>5. ASSUME Len(x) = 1, NEW n \in 1..Len(w) PROVE (x \o w)[n + 1] = w[n]
  <2>1. (x \o w)[n + 1] = w[n + 1 - Len(x)]
    BY <1>1, <1>2, <1>5
  <2> QED
    BY <1>2, <1>5, <2>1
<1> QED
  BY <1>2, <1>3, <1>4, <1>5

LEMMA SaidTwo ==
    ASSUME NEW t, NEW x, NEW y, Short(x), Short(y)
    PROVE  Said(t, x \o y) = Said(Said(t, x), y)
<1>1. y \in Seq(EventType) /\ (Len(x) = 0 \/ Len(x) = 1) /\ (Len(y) = 0 \/ Len(y) = 1)
  BY ShortLen
<1>2. CASE Len(x) = 0
  BY <1>1, <1>2, Joined, SaidFew
<1>3. CASE Len(x) = 1
  <2>0. PICK z : z = x \o y
    OBVIOUS
  <2>1. z = x \o y /\ Len(z) = 1 + Len(y) /\ z[1] = x[1] /\ \A n \in 1..Len(y) : z[n + 1] = y[n]
    BY <1>1, <1>3, <2>0, Joined
  <2>2. Said(t, x) = on_event(t, x[1])
    BY <1>3, SaidFew
  <2>3. CASE Len(y) = 0
    <3>1. Said(t, z) = on_event(t, z[1])
      BY <2>1, <2>3, SaidFew
    <3> QED
      BY <2>1, <2>2, <2>3, <3>1, SaidFew
  <2>4. CASE Len(y) = 1
    <3>1. z[2] = y[1] /\ Len(z) = 2
      BY <2>1, <2>4
    <3>2. Said(t, z) = on_event(on_event(t, z[1]), z[2])
      BY <3>1, SaidFew
    <3> QED
      BY <2>1, <2>2, <2>4, <3>1, <3>2, SaidFew
  <2> QED
    BY <1>1, <2>3, <2>4
<1> QED
  BY <1>1, <1>2, <1>3

LEMMA SaidThree ==
    ASSUME NEW t, NEW x, NEW y, NEW z, Short(x), Short(y), Short(z)
    PROVE  Said(t, x \o (y \o z)) = Said(Said(Said(t, x), y), z)
<1>1. /\ y \in Seq(EventType) /\ z \in Seq(EventType)
      /\ (Len(x) = 0 \/ Len(x) = 1) /\ (Len(y) = 0 \/ Len(y) = 1) /\ (Len(z) = 0 \/ Len(z) = 1)
  BY ShortLen
<1>2. PICK w : w = y \o z
  OBVIOUS
<1>3. w \in Seq(EventType) /\ \A u : Said(u, w) = Said(Said(u, y), z)
  BY <1>1, <1>2, Joined, SaidTwo
<1>4. CASE Len(x) = 0
  BY <1>2, <1>3, <1>4, Joined, SaidFew
<1>5. CASE Len(x) = 1
  <2>0. PICK v : v = x \o w
    OBVIOUS
  <2>1. v = x \o w /\ Len(v) = 1 + Len(w) /\ v[1] = x[1] /\ \A n \in 1..Len(w) : v[n + 1] = w[n]
    BY <1>3, <1>5, <2>0, Joined
  <2>2. PICK u : u = on_event(t, x[1]) /\ Said(t, x) = u
    BY <1>5, SaidFew
  <2>3. Len(w) = 0 \/ Len(w) = 1 \/ Len(w) = 2
    <3>1. CASE Len(y) = 0
      BY <1>1, <1>2, <3>1, Joined
    <3>2. CASE Len(y) = 1
      BY <1>1, <1>2, <3>2, Joined
    <3> QED
      BY <1>1, <3>1, <3>2
  <2>4. Said(t, v) = Said(u, w)
    <3>1. CASE Len(w) = 0
      BY <2>1, <2>2, <3>1, SaidFew
    <3>2. CASE Len(w) = 1
      <4>1. Len(v) = 2 /\ v[2] = w[1]
        BY <2>1, <3>2
      <4>2. Said(t, v) = on_event(on_event(t, v[1]), v[2]) /\ Said(u, w) = on_event(u, w[1])
        BY <3>2, <4>1, SaidFew
      <4> QED
        BY <2>1, <2>2, <4>1, <4>2
    <3>3. CASE Len(w) = 2
      <4>1. Len(v) = 3 /\ v[2] = w[1] /\ v[3] = w[2]
        BY <2>1, <3>3
      <4>2. Said(t, v) = on_event(on_event(on_event(t, v[1]), v[2]), v[3])
        BY <4>1, SaidFew
      <4>3. Said(u, w) = on_event(on_event(u, w[1]), w[2])
        BY <3>3, SaidFew
      <4> QED
        BY <2>1, <2>2, <4>1, <4>2, <4>3
    <3> QED
      BY <2>3, <3>1, <3>2, <3>3
  <2> QED
    BY <1>2, <1>3, <2>1, <2>2, <2>4
<1> QED
  BY <1>1, <1>4, <1>5

-----------------------------------------------------------------------------
(* What one event does to what was told.                                   *)

\* What neither an end nor a preview touches.
Alike(t, u) == u.last = t.last /\ u.shown = t.shown /\ u.back = t.back

LEMMA EventTypes ==
    /\ \A x \in Names : Ev(x) \in EventType /\ Ev(x).is = x
    /\ \A n \in Nat : Progress(n) \in EventType
    /\ \A n \in Nat : \A c \in BOOLEAN : BodyPreview(n, c) \in EventType
<1>1. ASSUME NEW x \in Names PROVE Ev(x) \in EventType /\ Ev(x).is = x
  BY DEF Ev, EventType
<1>2. ASSUME NEW n \in Nat PROVE Progress(n) \in EventType
  BY DEF Progress, EventType, Names
<1>3. ASSUME NEW n \in Nat, NEW c \in BOOLEAN PROVE BodyPreview(n, c) \in EventType
  BY DEF BodyPreview, EventType, Names
<1> QED
  BY <1>1, <1>2, <1>3

LEMMA EndTypes == ASSUME NEW x \in Ends PROVE x \in Names /\ Ev(x) \in EventType /\ Ev(x).is = x /\ Ev(x) # None
<1>1. x \in Names
  BY DEF Names
<1>2. Ev(x) # None
  BY NoneAssumption
<1> QED
  BY <1>1, <1>2, EventTypes

LEMMA HeardEnd ==
    ASSUME NEW t \in ToldType, Open(t), NEW x \in Ends
    PROVE  LET u == Heard(t, Ev(x))
           IN  u \in ToldType /\ u.held = None /\ u.ends = <<x>> /\ u.tail = <<>> /\ Alike(t, u) /\ u.preview = t.preview
<1>1. x \in Names /\ Ev(x).is = x /\ is_terminal(Ev(x)) /\ t.ends = <<>> /\ t.tail = <<>> /\ t.held = None
  BY EndTypes DEF is_terminal, Open
<1>2. Append(<<>>, x) = <<x>> /\ <<x>> \in Seq(Ends) /\ <<>> \in Seq(Names)
  OBVIOUS
<1>3. PICK u : u = [t EXCEPT !.tail = <<>>, !.ends = <<x>>]
  OBVIOUS
<1>4. PICK e : e = Ev(x)
  OBVIOUS
<1>5. e.is = x /\ is_terminal(e) /\ e.is \notin {"Started", "Progress", "BodyPreview"}
  BY <1>1, <1>4 DEF Ends
<1>6. Heard(t, e) = u
  BY <1>1, <1>2, <1>3, <1>5 DEF Heard
<1>7. u \in ToldType /\ u.ends = <<x>> /\ u.tail = <<>> /\ u.held = None /\ Alike(t, u) /\ u.preview = t.preview
  BY <1>1, <1>2, <1>3 DEF ToldType, Alike
<1> QED
  BY <1>4, <1>6, <1>7

LEMMA Ending ==
    ASSUME NEW t \in ToldType, Open(t), NEW x \in Ends
    PROVE  LET u == on_event(t, Ev(x))
           IN  u \in ToldType /\ Closed(u, x) /\ u.tail = <<>> /\ Alike(t, u) /\ u.preview = t.preview
<1>1. x \in Names /\ Ev(x).is = x /\ is_terminal(Ev(x)) /\ t.ends = <<>> /\ t.tail = <<>> /\ t.held = None
  BY EndTypes DEF is_terminal, Open
<1>2. CASE t.last
  <2>1. on_event(t, Ev(x)) = Heard(t, Ev(x))
    BY <1>2 DEF on_event
  <2>2. PICK u \in ToldType : u = on_event(t, Ev(x))
                              /\ u.ends = <<x>> /\ u.tail = <<>> /\ u.held = None /\ Alike(t, u) /\ u.preview = t.preview
    BY <2>1, HeardEnd
  <2>3. Closed(u, x)
    BY <1>2, <2>2 DEF Closed, Tails, Alike
  <2> QED
    BY <2>2, <2>3
<1>3. CASE ~t.last
  <2>1. PICK u : u = [t EXCEPT !.held = Ev(x)]
    OBVIOUS
  <2>2. on_event(t, Ev(x)) = u
    BY <1>1, <1>3, <2>1 DEF on_event
  <2>3. u \in ToldType /\ u.held = Ev(x) /\ u.ends = <<>> /\ u.tail = <<>> /\ ~u.last /\ Alike(t, u) /\ u.preview = t.preview
    BY <1>1, <1>3, <2>1 DEF ToldType, Alike
  <2> QED
    BY <1>3, <2>2, <2>3 DEF Closed
<1> QED
  BY <1>2, <1>3

LEMMA Previewed ==
    ASSUME NEW t \in ToldType, t.preview = None, t.tail = <<>>, NEW n \in Nat, NEW c \in BOOLEAN
    PROVE  LET u == on_event(t, BodyPreview(n, c))
           IN  /\ u \in ToldType /\ Alike(t, u) /\ u.preview = [bytes |-> n, cut |-> c, again |-> FALSE]
               /\ Open(t) => Open(u)
               /\ \A x : Closed(t, x) => Closed(u, x)
<1>1. PICK e : e = BodyPreview(n, c)
  OBVIOUS
<1>2. e.is = "BodyPreview" /\ e.bytes = n /\ e.cut = c /\ ~is_terminal(e)
  BY <1>1 DEF BodyPreview, is_terminal, Ends
<1>3. PICK a : a = IF t.ends = <<>> THEN <<>> ELSE <<"BodyPreview">>
  OBVIOUS
<1>4. PICK v : v = [bytes |-> n, cut |-> c, again |-> FALSE]
  OBVIOUS
<1>5. PICK u : u = [t EXCEPT !.tail = a, !.preview = v]
  OBVIOUS
<1>6. on_event(t, e) = u
  <2>1. Append(<<>>, "BodyPreview") = <<"BodyPreview">>
    OBVIOUS
  <2>2. a = IF t.ends = <<>> THEN t.tail ELSE Append(t.tail, e.is)
    BY <1>2, <1>3, <2>1
  <2>3. v = [bytes |-> e.bytes, cut |-> e.cut, again |-> t.preview # None]
    BY <1>2, <1>4
  <2>4. Heard(t, e) = u
    BY <1>2, <1>5, <2>2, <2>3 DEF Heard
  <2> QED
    BY <1>2, <2>4 DEF on_event
<1>7. v \in PreviewType /\ a \in Seq(Names)
  <2>1. v \in PreviewType
    BY <1>4 DEF PreviewType
  <2>2. <<>> \in Seq(Names) /\ <<"BodyPreview">> \in Seq(Names)
    BY DEF Names
  <2> QED
    BY <1>3, <2>1, <2>2
<1>8. /\ u \in ToldType /\ Alike(t, u) /\ u.preview = v /\ u.tail = a
      /\ u.held = t.held /\ u.ends = t.ends
  BY <1>5, <1>7 DEF ToldType, Alike
<1>9. Open(t) => Open(u)
  BY <1>3, <1>8 DEF Open
<1>10. ASSUME NEW x, Closed(t, x) PROVE Closed(u, x)
  BY <1>3, <1>8, <1>10 DEF Closed, Alike, Tails
<1> QED
  BY <1>1, <1>4, <1>6, <1>8, <1>9, <1>10

LEMMA Counted ==
    ASSUME NEW t \in ToldType, Open(t), ~t.back, NEW n \in Nat, n > t.shown
    PROVE  LET u == on_event(t, Progress(n))
           IN  u \in ToldType /\ Open(u) /\ ~u.back /\ u.shown = n /\ u.last = t.last /\ u.preview = t.preview
<1>1. PICK e : e = Progress(n)
  OBVIOUS
<1>2. e.is = "Progress" /\ e.bytes = n /\ ~is_terminal(e)
  BY <1>1 DEF Progress, is_terminal, Ends
<1>3. t.shown \in Nat /\ t.ends = <<>> /\ t.tail = <<>> /\ t.held = None
  BY DEF ToldType, Open
<1>4. ~(n <= t.shown)
  BY <1>3
<1>5. PICK u : u = [t EXCEPT !.tail = t.tail, !.shown = n, !.back = FALSE]
  OBVIOUS
<1>6. on_event(t, e) = u
  BY <1>2, <1>3, <1>4, <1>5 DEF on_event, Heard, ToldType
<1>7. /\ u \in ToldType /\ u.back = FALSE /\ u.shown = n /\ u.last = t.last /\ u.preview = t.preview
      /\ u.tail = t.tail /\ u.held = t.held /\ u.ends = t.ends
  BY <1>5 DEF ToldType
<1> QED
  BY <1>1, <1>3, <1>6, <1>7 DEF Open

\* AttemptView::release passes on what was held.
LEMMA Released ==
    ASSUME NEW t \in ToldType, NEW x, Closed(t, x)
    PROVE  LET u == release(t)
           IN  /\ u \in ToldType /\ u.last /\ Closed(u, x)
               /\ u.shown = t.shown /\ u.back = t.back /\ u.preview = t.preview
<1>1. PICK o : o = [t EXCEPT !.last = TRUE, !.held = None]
  OBVIOUS
<1>2. /\ o \in ToldType /\ o.last = TRUE /\ o.held = None /\ o.ends = t.ends /\ o.tail = t.tail
      /\ o.shown = t.shown /\ o.back = t.back /\ o.preview = t.preview
  BY <1>1 DEF ToldType
<1>3. x \in Ends /\ x \in Names /\ Ev(x) # None /\ Ev(x).is = x
  BY EndTypes DEF Closed
<1>4. CASE t.last
  <2>1. release(t) = o
    BY <1>1, <1>4 DEF release, Closed
  <2> QED
    BY <1>2, <1>4, <2>1 DEF Closed
<1>5. CASE ~t.last
  <2>1. t.held = Ev(x) /\ t.ends = <<>> /\ t.tail = <<>>
    BY <1>5 DEF Closed
  <2>2. release(t) = Heard(o, Ev(x))
    BY <1>1, <1>3, <2>1 DEF release
  <2>3. on_event(o, Ev(x)) = Heard(o, Ev(x))
    BY <1>2 DEF on_event
  <2>4. Open(o)
    BY <1>2, <2>1 DEF Open
  <2> QED
    BY <1>2, <1>3, <2>2, <2>3, <2>4, Ending DEF Alike
<1> QED
  BY <1>4, <1>5

\* An attempt without an end has nothing to release.
LEMMA ReleasedOpen ==
    ASSUME NEW t \in ToldType, Open(t)
    PROVE  LET u == release(t)
           IN  /\ u \in ToldType /\ u.last /\ Open(u)
               /\ u.shown = t.shown /\ u.back = t.back /\ u.preview = t.preview
<1>1. PICK o : o = [t EXCEPT !.last = TRUE, !.held = None]
  OBVIOUS
<1>2. /\ o \in ToldType /\ o.last = TRUE /\ o.held = None /\ o.ends = t.ends /\ o.tail = t.tail
      /\ o.shown = t.shown /\ o.back = t.back /\ o.preview = t.preview
  BY <1>1 DEF ToldType
<1>3. release(t) = o
  BY <1>1 DEF release, Open
<1> QED
  BY <1>2, <1>3 DEF Open

\* A new view starts an attempt.
LEMMA Starting ==
    ASSUME NEW t \in ToldType, t.ends = <<>>, t.tail = <<>>, ~t.back
    PROVE  LET u == Said(new_view(t), <<Ev("Started")>>)
           IN  /\ u \in ToldType /\ Open(u) /\ u.preview = None /\ u.shown = 0 /\ ~u.back
               /\ u.last <=> req.max_retries = None
<1>1. PICK l \in BOOLEAN : l = (req.max_retries = None)
  OBVIOUS
<1>2. PICK v : v = [t EXCEPT !.held = None, !.last = l]
  OBVIOUS
<1>3. /\ v \in ToldType /\ v.held = None /\ v.last = l /\ v.ends = <<>> /\ v.tail = <<>> /\ v.back = t.back
  BY <1>1, <1>2 DEF ToldType
<1>4. new_view(t) = v
  BY <1>1, <1>2 DEF new_view
<1>5. PICK e : e = Ev("Started")
  OBVIOUS
<1>6. e \in EventType /\ e.is = "Started" /\ ~is_terminal(e)
  BY <1>5 DEF Ev, EventType, is_terminal, Ends, Names
<1>7. PICK u : u = [v EXCEPT !.tail = <<>>, !.shown = 0, !.preview = None]
  OBVIOUS
<1>8. Said(v, <<e>>) = u
  BY <1>3, <1>6, <1>7, SaidOne DEF on_event, Heard
<1>9. /\ u \in ToldType /\ u.held = None /\ u.last = l /\ u.ends = <<>> /\ u.tail = <<>> /\ u.back = t.back
      /\ u.shown = 0 /\ u.preview = None
  BY <1>3, <1>7 DEF ToldType
<1> QED
  BY <1>1, <1>4, <1>5, <1>8, <1>9 DEF Open

LEMMA Retrying ==
    ASSUME NEW t \in ToldType, t.ends = <<>>, t.tail = <<>>
    PROVE  LET u == Heard([t EXCEPT !.held = None], Ev("Retrying"))
           IN  u \in ToldType /\ Open(u) /\ Alike(t, u) /\ u.preview = t.preview
<1>1. PICK v : v = [t EXCEPT !.held = None]
  OBVIOUS
<1>2. /\ v \in ToldType /\ v.held = None /\ v.ends = <<>> /\ v.tail = <<>>
      /\ v.last = t.last /\ v.shown = t.shown /\ v.back = t.back /\ v.preview = t.preview
  BY <1>1 DEF ToldType
<1>3. PICK e : e = Ev("Retrying")
  OBVIOUS
<1>4. e.is = "Retrying" /\ ~is_terminal(e)
  BY <1>3 DEF Ev, is_terminal, Ends
<1>5. Heard(v, e) = [v EXCEPT !.tail = v.tail]
  BY <1>2, <1>4 DEF Heard
<1>6. [v EXCEPT !.tail = v.tail] = v
  BY <1>2 DEF ToldType
<1> QED
  BY <1>1, <1>2, <1>3, <1>5, <1>6 DEF Open, Alike

-----------------------------------------------------------------------------
(* The capture of a body, and the end of its reader.                       *)

\* What the preview of c may be reported to.
Unseen(c, t) == c # None /\ ~c.reported => t.preview = None /\ t.tail = <<>>

LEMMA Reporting ==
    ASSUME NEW t \in ToldType, NEW c \in CaptureType \cup {None}, Unseen(c, t)
    PROVE  LET u == Said(t, report(c))
           IN  /\ Short(report(c)) /\ u \in ToldType /\ Alike(t, u)
               /\ Open(t) => Open(u)
               /\ \A x : Closed(t, x) => Closed(u, x)
               /\ \/ u = t /\ (c = None \/ c.reported)
                  \/ c # None /\ u.preview = [bytes |-> c.taken, cut |-> c.truncated, again |-> FALSE]
<1>1. CASE c = None \/ c.reported
  <2>1. report(c) = <<>>
    BY <1>1 DEF report
  <2> QED
    BY <1>1, <2>1, SaidNone, ShortSeqs DEF Alike, Short
<1>2. CASE ~(c = None \/ c.reported)
  <2>1. c \in CaptureType /\ c.taken \in Nat /\ c.truncated \in BOOLEAN
    BY <1>2 DEF CaptureType
  <2>2. PICK e \in EventType : e = BodyPreview(c.taken, c.truncated)
    BY <2>1, EventTypes
  <2>3. report(c) = <<e>>
    BY <1>2, <2>2 DEF report
  <2>4. Short(report(c)) /\ Said(t, report(c)) = on_event(t, e)
    BY <2>3, ShortSeqs, SaidOne
  <2>5. t.preview = None /\ t.tail = <<>>
    BY <1>2 DEF Unseen
  <2> QED
    BY <1>2, <2>1, <2>2, <2>4, <2>5, Previewed
<1> QED
  BY <1>1, <1>2

\* A dropped capture says that its body is partial.
LEMMA DropReports ==
    ASSUME NEW t \in ToldType, NEW c \in CaptureType \cup {None}, Unseen(c, t)
    PROVE  LET u == Said(t, capture_drop(c))
           IN  /\ Short(capture_drop(c)) /\ u \in ToldType /\ Alike(t, u)
               /\ \A x : Closed(t, x) => Closed(u, x)
               /\ u = t \/ (~u.preview.again /\ u.preview.cut)
               /\ c = None \/ c.reported => capture_drop(c) = <<>>
<1>1. PICK d : d = IF c = None THEN None ELSE [c EXCEPT !.truncated = TRUE]
  OBVIOUS
<1>2. ASSUME c # None PROVE d \in CaptureType /\ d.reported = c.reported /\ d.truncated = TRUE /\ d # None
  <2>1. c \in CaptureType
    BY <1>2
  <2>2. d = [c EXCEPT !.truncated = TRUE]
    BY <1>1, <1>2
  <2>3. d \in CaptureType /\ d.reported = c.reported /\ d.truncated = TRUE
    BY <2>1, <2>2 DEF CaptureType
  <2> QED
    BY <2>3, NoneAssumption
<1>3. d \in CaptureType \cup {None} /\ Unseen(d, t) /\ (c = None <=> d = None)
  BY <1>1, <1>2 DEF Unseen
<1>4. capture_drop(c) = report(d)
  BY <1>1 DEF capture_drop
<1>5. c = None \/ c.reported => capture_drop(c) = <<>>
  BY <1>1, <1>2, <1>4 DEF report
<1>6. PICK u : u = Said(t, report(d))
  OBVIOUS
<1>7. /\ Short(report(d)) /\ u \in ToldType /\ Alike(t, u) /\ \A x : Closed(t, x) => Closed(u, x)
      /\ u = t \/ (d # None /\ u.preview = [bytes |-> d.taken, cut |-> d.truncated, again |-> FALSE])
  BY <1>3, <1>6, Reporting
<1>8. u = t \/ (~u.preview.again /\ u.preview.cut)
  <2>1. CASE d # None /\ u.preview = [bytes |-> d.taken, cut |-> d.truncated, again |-> FALSE]
    <3>1. d.truncated = TRUE
      BY <1>2, <1>3, <2>1
    <3>2. u.preview.cut = d.truncated /\ u.preview.again = FALSE
      BY <2>1
    <3> QED
      BY <3>1, <3>2
  <2> QED
    BY <1>7, <2>1
<1> QED
  BY <1>4, <1>5, <1>6, <1>7, <1>8

\* What the drop of a reader that did not end reports: an end, Finished only of a whole
\* body, and a preview only with the mark of a partial one.
LEMMA ReaderDropped ==
    ASSUME NEW t \in ToldType, NEW r, NEW p, NEW s \in SrcType, NEW ex \in Nat, NEW before,
           ReaderOK(r, p, s, ex, before), r.emitted = {},
           Open(t), Unseen(r.capture, t), PreviewTrue(t.preview, p, s)
    PROVE  LET u == Said(t, drop_reader(r))
           IN  /\ u \in ToldType /\ Alike(t, u) /\ PreviewTrue(u.preview, p, s)
               /\ \E x \in Ends \ {"Failed"} : Closed(u, x) /\ (x = "Finished" => s.got = p.len)
<1>1. /\ r \in ReaderType /\ p \in Responses
      /\ s.got <= p.len /\ r.received + r.pending + ex = s.got
      /\ r.expected_length # None => r.expected_length = p.len \/ s.got = p.len
  BY DEF ReaderOK
<1>2. PICK x \in {"Finished", "Cancelled"} : x = IF Complete(r) THEN "Finished" ELSE "Cancelled"
  OBVIOUS
<1>3. x = "Finished" => s.got = p.len
  <2>1. /\ r.received \in Nat /\ r.pending \in Nat /\ s.got \in Nat /\ p.len \in Nat
        /\ r.expected_length # None => r.expected_length \in Nat
    BY <1>1, TransferAssumption DEF ReaderType, SrcType, Responses
  <2> QED
    BY <1>1, <1>2, <2>1 DEF Complete
<1>4. x \in Ends \ {"Failed"} /\ Ev(x) \in EventType
  BY <1>2, EndTypes DEF Ends
<1>5. drop_reader(r) = <<Ev(x)>> \o capture_drop(r.capture)
  BY <1>2 DEF drop_reader
<1>6. PICK v : v = on_event(t, Ev(x))
  OBVIOUS
<1>7. v \in ToldType /\ Closed(v, x) /\ v.tail = <<>> /\ Alike(t, v) /\ v.preview = t.preview
  BY <1>1, <1>4, <1>6, Ending
<1>8. r.capture \in CaptureType \cup {None} /\ Unseen(r.capture, v)
  BY <1>1, <1>7 DEF ReaderType, Unseen
<1>9. PICK u : u = Said(v, capture_drop(r.capture))
  OBVIOUS
<1>10. /\ Short(capture_drop(r.capture)) /\ u \in ToldType /\ Alike(v, u) /\ Closed(u, x)
       /\ u = v \/ (~u.preview.again /\ u.preview.cut)
  BY <1>7, <1>8, <1>9, DropReports
<1>11. Short(<<Ev(x)>>) /\ Said(t, <<Ev(x)>>) = v
  BY <1>4, <1>6, ShortSeqs, SaidOne
<1>12. Said(t, drop_reader(r)) = u
  BY <1>5, <1>9, <1>10, <1>11, SaidTwo
<1>13. PreviewTrue(u.preview, p, s)
  BY <1>7, <1>10 DEF PreviewTrue
<1>14. Alike(t, u)
  BY <1>7, <1>10 DEF Alike
<1> QED
  BY <1>3, <1>4, <1>5, <1>10, <1>12, <1>13, <1>14

\* The drop of a reader follows what was reported before it.
LEMMA SaidThenDropped ==
    ASSUME NEW t, NEW es, Short(es), NEW r, r.capture \in CaptureType \cup {None}
    PROVE  Said(t, es \o drop_reader(r)) = Said(Said(t, es), drop_reader(r))
<1>1. PICK y : y = IF r.emitted # {} THEN <<>> ELSE <<Ev(IF Complete(r) THEN "Finished" ELSE "Cancelled")>>
  OBVIOUS
<1>2. PICK z : z = capture_drop(r.capture)
  OBVIOUS
<1>3. drop_reader(r) = y \o z
  BY <1>1, <1>2 DEF drop_reader
<1>4. Short(y)
  <2>1. "Finished" \in Ends /\ "Cancelled" \in Ends
    BY DEF Ends
  <2>2. Ev("Finished") \in EventType /\ Ev("Cancelled") \in EventType
    BY <2>1, EndTypes
  <2> QED
    BY <1>1, <2>2, ShortSeqs
<1>5. Short(z)
  <2>1. PICK d \in CaptureType \cup {None} : d = IF r.capture = None THEN None ELSE [r.capture EXCEPT !.truncated = TRUE]
    BY DEF CaptureType
  <2>2. z = report(d)
    BY <1>2, <2>1 DEF capture_drop
  <2>3. CASE d = None \/ d.reported
    BY <2>2, <2>3 DEF report, Short
  <2>4. CASE ~(d = None \/ d.reported)
    <3>1. d.taken \in Nat /\ d.truncated \in BOOLEAN
      BY <2>4 DEF CaptureType
    <3> QED
      BY <2>2, <2>4, <3>1, EventTypes, ShortSeqs DEF report
  <2> QED
    BY <2>3, <2>4
<1>6. Said(t, es \o (y \o z)) = Said(Said(Said(t, es), y), z)
  BY <1>4, <1>5, SaidThree
<1>7. Said(Said(t, es), y \o z) = Said(Said(Said(t, es), y), z)
  BY <1>4, <1>5, SaidTwo
<1> QED
  BY <1>3, <1>6, <1>7

\* A reader that has ended and reported its preview goes silently.
LEMMA SilentDrop ==
    ASSUME NEW r, r.emitted # {}, r.capture = None \/ r.capture.reported, r.capture \in CaptureType \cup {None}
    PROVE  drop_reader(r) = <<>>
<1>1. capture_drop(r.capture) = <<>>
  BY DEF capture_drop, report, CaptureType
<1> QED
  BY <1>1 DEF drop_reader

-----------------------------------------------------------------------------
(* The steps of a fetch.                                                   *)

Settled == Typed /\ Views /\ TellsTrue /\ StoredIsWhole

LEMMA Landing ==
    ASSUME Settled',
           \/ phase' = "asking" /\ Fresh'
           \/ phase' = "peeking" /\ Peeks'
           \/ phase' = "body" /\ Buffers'
           \/ phase' = "judged" /\ Judged'
           \/ phase' = "handed" /\ Handed'
           \/ phase' = "waiting" /\ Waits'
           \/ phase' = "done" /\ Ended'
    PROVE  TransferInv'
  BY DEF TransferInv, Settled, ByPhase

LEMMA Begins == Init => TransferInv
<1> SUFFICES ASSUME Init PROVE TransferInv
  OBVIOUS
<1>1. Untold \in ToldType /\ Untold.ends = <<>> /\ Untold.tail = <<>> /\ ~Untold.back
  <2>1. <<>> \in Seq(Ends) /\ <<>> \in Seq(Names)
    OBVIOUS
  <2> QED
    BY <2>1 DEF Untold, ToldType
<1>2. /\ told \in ToldType /\ Open(told) /\ told.preview = None /\ told.shown = 0 /\ ~told.back
      /\ told.last <=> req.max_retries = None
  BY <1>1, Starting DEF Init
<1>3. src = NoBody /\ src \in SrcType /\ src.got = 0
  BY DEF Init, NoBody, SrcType
<1>4. Typed /\ Views /\ StoredIsWhole
  BY <1>2, <1>3 DEF Init, Typed, Views, StoredIsWhole, Phases
<1>5. TellsTrue
  BY <1>2, <1>3 DEF TellsTrue, PreviewTrue
<1>6. Fresh
  BY <1>2, <1>3 DEF Fresh, Init
<1> QED
  BY <1>4, <1>5, <1>6 DEF TransferInv, ByPhase, Init

LEMMA CancelKeeps == ASSUME TransferInv, Cancel PROVE TransferInv'
<1>1. /\ cancelled' \in BOOLEAN
      /\ UNCHANGED <<req, retries, phase, resp, src, peek, excess, reader, outcome, stored, told>>
  BY DEF Cancel
<1>2. Typed' /\ Views' /\ TellsTrue' /\ StoredIsWhole'
  BY <1>1 DEF TransferInv, Typed, Views, TellsTrue, StoredIsWhole
<1>3. ByPhase'
  BY <1>1 DEF TransferInv, ByPhase, Fresh, Peeks, Buffers, Judged, Handed, Waits, Ended, Reads, EndOK, WithinMax
<1> QED
  BY <1>2, <1>3 DEF TransferInv

\* The attempt is over: u is told, with the end x.
LEMMA OverKeeps ==
    ASSUME TransferInv, phase \notin {"handed", "done"},
           NEW u \in ToldType, told' = u, NEW x \in Ends, Closed(u, x), EndOK(x)',
           u.last = told.last, ~u.back, u.shown <= src'.got, PreviewTrue(u.preview, resp', src'),
           phase' = "judged", reader' = None, UNCHANGED <<req, cancelled>>,
           src' \in SrcType, peek' \in Nat, excess' \in Nat, StoredIsWhole'
    PROVE  TransferInv'
<1>1. Typed' /\ Views' /\ TellsTrue'
  BY DEF TransferInv, Typed, Views, TellsTrue, Phases
<1>2. Judged'
  BY DEF Judged
<1> QED
  BY <1>1, <1>2, Landing DEF Settled

\* An attempt that fails or is cancelled before there is a reader.
LEMMA FailsKeeps ==
    ASSUME TransferInv, Open(told), phase \notin {"handed", "done"}, NEW x \in {"Failed", "Cancelled"},
           NEW o \in Errors, Over(o, <<Ev(x)>>), UNCHANGED stored
    PROVE  TransferInv'
<1>1. x \in Ends /\ told \in ToldType /\ Ev(x) \in EventType
  BY EndTypes DEF Ends, TransferInv, Typed
<1>2. PICK u : u = on_event(told, Ev(x))
  OBVIOUS
<1>3. u \in ToldType /\ Closed(u, x) /\ Alike(told, u) /\ u.preview = told.preview
  BY <1>1, <1>2, Ending
<1>4. told' = u
  BY <1>1, <1>2, SaidOne DEF Over
<1>5. /\ phase' = "judged" /\ reader' = None /\ outcome' = o
      /\ UNCHANGED <<req, cancelled, retries, resp, src, peek, excess, stored>>
  BY DEF Over
<1>6. EndOK(x)'
  BY <1>5 DEF EndOK, Errors
<1>7. ~u.back /\ u.shown <= src'.got /\ PreviewTrue(u.preview, resp', src')
  BY <1>3, <1>5 DEF TransferInv, TellsTrue, Alike
<1>8. src' \in SrcType /\ peek' \in Nat /\ excess' \in Nat /\ StoredIsWhole'
  BY <1>5 DEF TransferInv, Typed, StoredIsWhole
<1> QED
  BY <1>1, <1>3, <1>4, <1>5, <1>6, <1>7, <1>8, OverKeeps DEF Alike

LEMMA ChainFailsKeeps == ASSUME TransferInv, ChainFails PROVE TransferInv'
<1>1. phase = "asking" /\ Open(told) /\ UNCHANGED stored
  BY DEF ChainFails, TransferInv, ByPhase, Fresh
<1>2. PICK e \in Errors : Over(e, IF e = "cancelled" THEN <<Ev("Cancelled")>> ELSE failed(e))
  BY DEF ChainFails
<1>3. \E x \in {"Failed", "Cancelled"} : Over(e, <<Ev(x)>>)
  BY <1>2 DEF failed
<1> QED
  BY <1>1, <1>2, <1>3, FailsKeeps

LEMMA PeekFailsKeeps == ASSUME TransferInv, peek_fails PROVE TransferInv'
<1>1. phase = "peeking" /\ Open(told) /\ UNCHANGED stored
  BY DEF peek_fails, TransferInv, ByPhase, Peeks
<1>2. \E e \in Errors : \E x \in {"Failed", "Cancelled"} : Over(e, <<Ev(x)>>)
  <2>1. CASE \E e \in Errors \ {"cancelled"} : Over(e, failed(e))
    BY <2>1 DEF failed
  <2>2. CASE Over("cancelled", <<Ev("Cancelled")>>)
    BY <2>2 DEF Errors
  <2> QED
    BY <2>1, <2>2 DEF peek_fails
<1> QED
  BY <1>1, <1>2, FailsKeeps

LEMMA NetworkTopKeeps == ASSUME TransferInv, NEW r \in Responses, network_top(r) PROVE TransferInv'
<1>1. /\ phase = "asking" /\ ~r.cached /\ resp' = r
      /\ UNCHANGED <<req, cancelled, retries, src, peek, excess, reader, stored>>
  BY DEF network_top
<1>2. /\ reader = None /\ src = NoBody /\ peek = 0 /\ excess = 0
      /\ Open(told) /\ told.preview = None /\ told.shown = 0 /\ src.got = 0
  BY <1>1 DEF TransferInv, ByPhase, Fresh, NoBody
<1>3. src' \in SrcType /\ peek' \in Nat /\ excess' \in Nat /\ StoredIsWhole' /\ told \in ToldType /\ ~told.back
  BY <1>1 DEF TransferInv, Typed, StoredIsWhole, TellsTrue
<1>4. CASE phase' = "judged" /\ outcome' = "refused" /\ told' = Said(told, failed("refused"))
  <2>1. "Failed" \in Ends /\ failed("refused") = <<Ev("Failed")>>
    BY DEF Ends, failed
  <2>2. PICK u : u = on_event(told, Ev("Failed"))
    OBVIOUS
  <2>3. u \in ToldType /\ Closed(u, "Failed") /\ Alike(told, u) /\ u.preview = told.preview
    BY <1>2, <1>3, <2>1, <2>2, Ending
  <2>4. told' = u
    BY <1>4, <2>1, <2>2, EndTypes, SaidOne
  <2>5. EndOK("Failed")'
    BY <1>4 DEF EndOK
  <2>6. ~u.back /\ u.shown <= src'.got /\ PreviewTrue(u.preview, resp', src')
    BY <1>1, <1>2, <1>3, <2>3 DEF Alike, PreviewTrue
  <2>7. reader' = None /\ u.last = told.last
    BY <1>1, <1>2, <2>3 DEF Alike
  <2> QED
    BY <1>1, <1>3, <1>4, <2>1, <2>3, <2>4, <2>5, <2>6, <2>7, OverKeeps
<1>5. CASE phase' = "peeking" /\ UNCHANGED <<outcome, told>>
  <2>1. Peeks'
    <3>1. r.len \in Nat /\ PEEK_MAX > 0
      BY TransferAssumption DEF Responses
    <3> QED
      BY <1>1, <1>2, <1>5, <3>1 DEF Peeks
  <2>2. Typed' /\ Views' /\ TellsTrue'
    BY <1>1, <1>2, <1>3, <1>5 DEF TransferInv, Typed, Views, TellsTrue, PreviewTrue, Phases
  <2> QED
    BY <1>3, <1>5, <2>1, <2>2, Landing DEF Settled
<1> QED
  BY <1>4, <1>5 DEF network_top

LEMMA Compared ==
    ASSUME NEW a \in Nat, NEW b \in Nat
    PROVE  \E c \in BOOLEAN : c = (a < b) /\ (~c => b <= a)
<1>1. (a < b) = TRUE \/ (a < b) = FALSE
  OBVIOUS
<1>2. PICK c \in BOOLEAN : c = (a < b)
  BY <1>1, Zenon
<1>3. ASSUME ~c PROVE ~(a < b)
  BY <1>2, <1>3, Zenon
<1>4. ~c => b <= a
  BY <1>3
<1> QED
  BY <1>2, <1>4, Zenon

\* The reader r is there, u was told.
LEMMA TopKeeps ==
    ASSUME TransferInv, phase \in {"asking", "peeking"}, NEW u \in ToldType, told' = u, NEW r, reader' = r,
           phase' = (IF req.streaming THEN "judged" ELSE "body"),
           ReaderOK(r, resp', src', excess', u), r.emitted = {}, ~resp'.cached => WithinMax(r.received),
           u.last = told.last, ~u.back, u.shown <= src'.got, PreviewTrue(u.preview, resp', src'),
           UNCHANGED <<req, cancelled, stored>>, src' \in SrcType, peek' \in Nat, excess' \in Nat
    PROVE  TransferInv'
<1>1. Typed'
  BY DEF TransferInv, Typed, Phases
<1>2. Views' /\ TellsTrue' /\ StoredIsWhole'
  BY DEF TransferInv, Views, TellsTrue, StoredIsWhole
<1>3. Reads' /\ reader' # None
  BY NoneAssumption DEF Reads, ReaderOK
<1>4. CASE req.streaming
  BY <1>1, <1>2, <1>3, <1>4, Landing DEF Settled, Judged
<1>5. CASE ~req.streaming
  BY <1>1, <1>2, <1>3, <1>5, Landing DEF Settled, Buffers, WithinMax
<1> QED
  BY <1>4, <1>5

LEMMA CachedTopKeeps == ASSUME TransferInv, NEW r \in Responses, cached_top(r) PROVE TransferInv'
<1>1. PICK n : n = smaller(r.len, PEEK_MAX)
  OBVIOUS
<1>2. PICK es : es = IF req.capture = None THEN <<>>
                     ELSE <<BodyPreview(smaller(r.len, req.capture), req.capture < r.len)>>
  OBVIOUS
<1>3. PICK d : d = NewReader(r.len, n, None, None)
  OBVIOUS
<1>4. /\ phase = "asking" /\ r.cached /\ resp' = r /\ peek' = n /\ src' = [got |-> n, over |-> FALSE]
      /\ TopDone(d, es) /\ UNCHANGED <<req, cancelled, retries, excess, stored>>
  BY <1>1, <1>2, <1>3 DEF cached_top
<1>5. /\ r.len \in Nat /\ n \in Nat /\ n <= r.len
      /\ req.capture # None => req.capture \in Nat
  BY <1>1, TransferAssumption DEF Responses, smaller, TransferInv, Typed, RequestType
<1>6. /\ reader = None /\ excess = 0 /\ told \in ToldType /\ ~told.back
      /\ Open(told) /\ told.preview = None /\ told.shown = 0
  BY <1>4 DEF TransferInv, ByPhase, Fresh, Typed, TellsTrue
<1>7. src' \in SrcType /\ src'.got = n /\ peek' \in Nat /\ excess' = 0
  BY <1>4, <1>5, <1>6 DEF SrcType
<1>8. PICK u : u = Said(told, es)
  OBVIOUS
<1>9. /\ u \in ToldType /\ Open(u) /\ Alike(told, u) /\ PreviewTrue(u.preview, resp', src')
  <2>1. CASE req.capture = None
    BY <1>2, <1>6, <1>8, <2>1, SaidNone DEF Alike, PreviewTrue
  <2>2. CASE req.capture # None
    <3>1. PICK b : b = smaller(r.len, req.capture)
      OBVIOUS
    <3>2. PICK c \in BOOLEAN : c = (req.capture < r.len) /\ (~c => r.len <= req.capture)
      BY <1>5, <2>2, Compared
    <3>3. b \in Nat /\ (~c => b = r.len)
      <4>1. b \in Nat /\ (r.len <= req.capture => b = r.len)
        BY <1>5, <2>2, <3>1 DEF smaller
      <4> QED
        BY <3>2, <4>1, Zenon
    <3>4. es = <<BodyPreview(b, c)>>
      BY <1>2, <2>2, <3>1, <3>2
    <3>5. u = on_event(told, BodyPreview(b, c))
      BY <1>8, <3>3, <3>4, EventTypes, SaidOne
    <3>6. told.tail = <<>>
      BY <1>6 DEF Open
    <3>7. u \in ToldType /\ Alike(told, u) /\ u.preview = [bytes |-> b, cut |-> c, again |-> FALSE] /\ Open(u)
      BY <1>6, <3>3, <3>5, <3>6, Previewed
    <3>8. ~u.preview.again /\ u.preview.cut = c /\ u.preview.bytes = b
      BY <3>7
    <3> QED
      BY <1>4, <3>3, <3>7, <3>8 DEF PreviewTrue
  <2> QED
    BY <2>1, <2>2
<1>10. /\ d.received = n /\ d.expected_length = r.len /\ d.emitted = {} /\ d.pending = 0
       /\ d.capture = None /\ d.cache = None
  BY <1>3 DEF NewReader
<1>11. d \in ReaderType
  BY <1>3, <1>5 DEF NewReader, ReaderType
<1>12. ReaderOK(d, resp', src', excess', u)
  BY <1>4, <1>5, <1>6, <1>7, <1>9, <1>10, <1>11 DEF ReaderOK, Alike
<1>13. u.last = told.last /\ ~u.back /\ u.shown <= src'.got
  BY <1>5, <1>6, <1>7, <1>9 DEF Alike
<1>14. told' = u /\ reader' = d /\ phase' = (IF req.streaming THEN "judged" ELSE "body")
  BY <1>4, <1>8 DEF TopDone
<1>15. ~resp'.cached => WithinMax(d.received)
  BY <1>4
<1>16. UNCHANGED <<req, cancelled, stored>> /\ excess' \in Nat /\ phase \in {"asking", "peeking"}
  BY <1>4, <1>7
<1> QED
  BY <1>7, <1>9, <1>10, <1>12, <1>13, <1>14, <1>15, <1>16, TopKeeps

\* The reader that follows a peek of p bytes, with ex more put back.
LEMMA PeekReader ==
    ASSUME NEW q \in Responses, NEW s \in SrcType, NEW p \in Nat, NEW ex \in Nat, NEW limit \in Nat \cup {None},
           NEW t \in ToldType, Open(t), t.preview = None, t.shown <= p,
           s.got = p + ex, s.got <= q.len, NEW expected \in Nat \cup {None},
           expected # None => expected = q.len \/ s.got = q.len
    PROVE  LET r == NewReader(expected, p, capture_new(limit, p), collector(q, p))
           IN  ReaderOK(r, q, s, ex, t) /\ r.emitted = {} /\ r.received = p
<1>1. PICK c : c = capture_new(limit, p)
  OBVIOUS
<1>2. c \in CaptureType \cup {None} /\ (c # None /\ ~c.truncated => c.taken = p)
  <2>1. CASE limit = None
    BY <1>1, <2>1 DEF capture_new
  <2>2. CASE limit # None
    <3>1. PICK k \in Nat : k = smaller(p, limit) /\ k <= p /\ k <= limit
      BY <2>2 DEF smaller
    <3>2. limit - k \in Nat
      BY <2>2, <3>1
    <3>3. PICK cut \in BOOLEAN : cut = (k < p) /\ (~cut => p <= k)
      BY <3>1, Compared
    <3>4. c = [taken |-> k, remaining |-> limit - k, truncated |-> cut, reported |-> FALSE]
      BY <1>1, <2>2, <3>1, <3>3 DEF capture_new
    <3>5. c \in CaptureType /\ c.truncated = cut /\ c.taken = k
      BY <3>2, <3>4 DEF CaptureType
    <3>6. p <= k => k = p
      BY <3>1
    <3>7. ~c.truncated => c.taken = p
      BY <3>3, <3>5, <3>6, Zenon
    <3> QED
      BY <3>5, <3>7
  <2> QED
    BY <2>1, <2>2
<1>3. PICK w : w = collector(q, p)
  OBVIOUS
<1>4. w = None \/ (w = p /\ w <= max_entry_bytes)
  BY <1>3, TransferAssumption DEF collector, enforce_limit
<1>5. PICK r : r = NewReader(expected, p, c, w)
  OBVIOUS
<1>6. /\ r.received = p /\ r.expected_length = expected /\ r.emitted = {} /\ r.pending = 0
      /\ r.capture = c /\ r.cache = w
  BY <1>5 DEF NewReader
<1>7. r \in ReaderType
  BY <1>2, <1>4, <1>5 DEF NewReader, ReaderType
<1>8. s.got \in Nat /\ t.shown \in Nat /\ t.tail = <<>>
  BY DEF SrcType, ToldType, Open
<1>9. ReaderOK(r, q, s, ex, t)
  <2>1. r.received + r.pending + ex = s.got
    BY <1>6, <1>8
  <2>2. r.capture # None /\ ~r.capture.truncated => r.capture.taken = s.got - ex
    BY <1>2, <1>6, <1>8
  <2> QED
    BY <1>4, <1>6, <1>7, <1>8, <2>1, <2>2 DEF ReaderOK
<1> QED
  BY <1>1, <1>3, <1>5, <1>6, <1>9

LEMMA LimitKept == ASSUME TransferInv, NEW n \in Nat, ~TooLong(n) PROVE WithinMax(n)
<1>1. req.max_bytes # None => req.max_bytes \in Nat
  BY TransferAssumption DEF TransferInv, Typed, RequestType
<1> QED
  BY <1>1 DEF TooLong, WithinMax

\* The peek is over: p bytes, excess' more put back, u was told.
LEMMA PeekDoneKeeps ==
    ASSUME TransferInv, phase = "peeking", NEW p \in Nat, NEW ended, NEW es, Short(es), PeekDone(p, ended, es),
           NEW u \in ToldType, u = Said(told, es), Open(u), u.preview = None, u.shown <= p, ~u.back, u.last = told.last,
           src' \in SrcType, peek' \in Nat, excess' \in Nat, src'.got = p + excess', src'.got <= resp.len,
           NEW expected \in Nat \cup {None}, expected = expected_length(resp, ended, p),
           expected # None => expected = resp.len \/ src'.got = resp.len,
           UNCHANGED <<req, cancelled, resp, stored>>
    PROVE  TransferInv'
<1>1. resp \in Responses /\ ~resp.cached /\ reader = None /\ resp' = resp
  BY DEF TransferInv, ByPhase, Peeks
<1>2. u.shown <= src'.got /\ PreviewTrue(u.preview, resp', src')
  <2>1. u.shown \in Nat
    BY DEF ToldType
  <2> QED
    BY <2>1 DEF PreviewTrue
<1>3. StoredIsWhole'
  BY DEF TransferInv, StoredIsWhole
<1>4. CASE TooLong(p)
  <2>1. phase' = "judged" /\ outcome' = "refused" /\ reader' = None /\ told' = Said(told, es \o failed("refused"))
    BY <1>1, <1>4 DEF PeekDone
  <2>2. "Failed" \in Ends /\ failed("refused") = <<Ev("Failed")>>
    BY DEF Ends, failed
  <2>3. Ev("Failed") \in EventType /\ Short(<<Ev("Failed")>>)
    BY <2>2, EndTypes, ShortSeqs
  <2>4. PICK v : v = on_event(u, Ev("Failed"))
    OBVIOUS
  <2>5. told' = v
    BY <2>1, <2>2, <2>3, <2>4, SaidTwo, SaidOne
  <2>6. v \in ToldType /\ Closed(v, "Failed") /\ Alike(u, v) /\ v.preview = u.preview
    BY <2>2, <2>4, Ending
  <2>7. EndOK("Failed")'
    BY <2>1 DEF EndOK
  <2>8. v.last = told.last /\ ~v.back /\ v.shown <= src'.got /\ PreviewTrue(v.preview, resp', src')
    BY <1>2, <2>6 DEF Alike
  <2> QED
    BY <1>3, <2>1, <2>2, <2>5, <2>6, <2>7, <2>8, OverKeeps
<1>5. CASE ~TooLong(p)
  <2>1. PICK r : r = NewReader(expected, p, capture_new(req.capture, p), collector(resp, p))
    OBVIOUS
  <2>2. TopDone(r, es)
    BY <1>5, <2>1 DEF PeekDone
  <2>3. req.capture \in Nat \cup {None}
    BY TransferAssumption DEF TransferInv, Typed, RequestType
  <2>4. ReaderOK(r, resp', src', excess', u) /\ r.emitted = {} /\ r.received = p
    <3>1. PICK limit \in Nat \cup {None} : limit = req.capture
      BY <2>3
    <3>2. PICK q \in Responses : q = resp
      BY <1>1
    <3>3. PICK s \in SrcType : s = src'
      OBVIOUS
    <3>4. PICK ex \in Nat : ex = excess'
      OBVIOUS
    <3>5. s.got = p + ex /\ s.got <= q.len /\ (expected # None => expected = q.len \/ s.got = q.len)
      BY <3>2, <3>3, <3>4
    <3>6. r = NewReader(expected, p, capture_new(limit, p), collector(q, p))
      BY <2>1, <3>1, <3>2
    <3>7. ReaderOK(r, q, s, ex, u) /\ r.emitted = {} /\ r.received = p
      BY <3>5, <3>6, PeekReader, SMTT(30)
    <3> QED
      BY <1>1, <3>2, <3>3, <3>4, <3>7
  <2>5. told' = u /\ reader' = r /\ phase' = (IF req.streaming THEN "judged" ELSE "body")
    BY <2>2 DEF TopDone
  <2>6. WithinMax(r.received)
    BY <1>5, <2>4, LimitKept
  <2> QED
    BY <1>2, <2>4, <2>5, <2>6, TopKeeps
<1> QED
  BY <1>4, <1>5

LEMMA PeekChunkKeeps == ASSUME TransferInv, NEW n \in 1..MaxBody, peek_chunk(n) PROVE TransferInv'
<1>1. phase = "peeking" /\ n <= resp.len - src.got /\ UNCHANGED <<req, cancelled, retries, resp, stored>>
  BY DEF peek_chunk
<1>2. /\ reader = None /\ resp \in Responses /\ ~resp.cached
      /\ peek < PEEK_MAX /\ excess = 0 /\ src.got = peek /\ src.got <= resp.len
      /\ Open(told) /\ told.preview = None /\ told.shown <= peek
  BY <1>1 DEF TransferInv, ByPhase, Peeks
<1>3. /\ n \in Nat /\ n > 0 /\ peek \in Nat /\ PEEK_MAX \in Nat /\ resp.len \in Nat /\ src \in SrcType
      /\ told \in ToldType /\ told.shown \in Nat /\ ~told.back /\ (resp.declared = None \/ resp.declared \in Nat)
  BY <1>2, TransferAssumption DEF TransferInv, Typed, TellsTrue, Responses, ToldType
<1>4. PICK p : p = smaller(peek + n, PEEK_MAX)
  OBVIOUS
<1>5. PICK ex : ex = peek + n - p
  OBVIOUS
<1>6. p \in Nat /\ ex \in Nat /\ p > peek /\ p > told.shown /\ p + ex = peek + n /\ (p # PEEK_MAX => ex = 0 /\ p < PEEK_MAX)
  BY <1>2, <1>3, <1>4, <1>5 DEF smaller
<1>7. /\ src' = [src EXCEPT !.got = src.got + n] /\ peek' = p /\ excess' = ex
      /\ IF p = PEEK_MAX THEN PeekDone(p, FALSE, <<Progress(p)>>)
         ELSE told' = Said(told, <<Progress(p)>>) /\ UNCHANGED <<phase, reader, outcome>>
  BY <1>4, <1>5 DEF peek_chunk, peek_count
<1>8. src' \in SrcType /\ src'.got = p + ex /\ src'.got <= resp.len
  <2>1. src.got + n \in Nat
    BY <1>2, <1>3
  <2>2. src' \in SrcType /\ src'.got = src.got + n
    BY <1>3, <1>7, <2>1 DEF SrcType
  <2> QED
    BY <1>1, <1>2, <1>3, <1>6, <2>2
<1>9. PICK u : u = on_event(told, Progress(p))
  OBVIOUS
<1>10. u \in ToldType /\ Open(u) /\ ~u.back /\ u.shown = p /\ u.last = told.last /\ u.preview = None
  BY <1>2, <1>3, <1>6, <1>9, Counted
<1>11. Short(<<Progress(p)>>) /\ Said(told, <<Progress(p)>>) = u
  BY <1>6, <1>9, EventTypes, ShortSeqs, SaidOne
<1>12. CASE p = PEEK_MAX
  <2>1. PICK expected : expected = expected_length(resp, FALSE, p)
    OBVIOUS
  <2>2. expected = resp.declared
    BY <2>1 DEF expected_length
  <2>3. expected # None => expected = resp.len
    <3>1. resp.len > 0
      BY <1>1, <1>2, <1>3
    <3>2. ~resp.bodiless
      BY <1>2, <3>1 DEF Responses
    <3> QED
      BY <1>2, <2>2, <3>2 DEF Responses
  <2>4. expected \in Nat \cup {None}
    BY <1>3, <2>2
  <2>5. PeekDone(p, FALSE, <<Progress(p)>>) /\ excess' \in Nat /\ peek' \in Nat /\ src'.got = p + excess' /\ u.shown <= p
    <3>1. PeekDone(p, FALSE, <<Progress(p)>>)
      BY <1>7, <1>12
    <3>2. excess' = ex /\ peek' = p
      BY <1>7
    <3>3. u.shown <= p
      BY <1>6, <1>10
    <3> QED
      BY <1>6, <1>8, <3>1, <3>2, <3>3
  <2>6. UNCHANGED <<req, cancelled, resp, stored>>
    BY <1>1
  <2> QED
    BY <1>1, <1>6, <1>8, <1>10, <1>11, <2>1, <2>3, <2>4, <2>5, <2>6, PeekDoneKeeps
<1>13. CASE p # PEEK_MAX
  <2>1. told' = u /\ UNCHANGED <<phase, reader, outcome>>
    BY <1>7, <1>11, <1>13
  <2>2. Peeks'
    BY <1>1, <1>2, <1>6, <1>7, <1>8, <1>10, <1>13, <2>1 DEF Peeks
  <2>3. TellsTrue'
    BY <1>6, <1>8, <1>10, <2>1 DEF TellsTrue, PreviewTrue
  <2>4. Typed' /\ Views' /\ StoredIsWhole'
    BY <1>1, <1>6, <1>7, <1>8, <1>10, <2>1 DEF TransferInv, Typed, Views, StoredIsWhole
  <2> QED
    BY <1>1, <2>1, <2>2, <2>3, <2>4, Landing DEF Settled
<1> QED
  BY <1>12, <1>13

LEMMA PeekEndKeeps == ASSUME TransferInv, peek_end PROVE TransferInv'
<1>1. /\ phase = "peeking" /\ src.got = resp.len /\ src' = [src EXCEPT !.over = TRUE] /\ PeekDone(peek, TRUE, <<>>)
      /\ UNCHANGED <<req, cancelled, retries, resp, peek, excess, stored>>
  BY DEF peek_end
<1>2. /\ reader = None /\ resp \in Responses /\ ~resp.cached
      /\ peek < PEEK_MAX /\ excess = 0 /\ src.got = peek /\ src.got <= resp.len
      /\ Open(told) /\ told.preview = None /\ told.shown <= peek
  BY <1>1 DEF TransferInv, ByPhase, Peeks
<1>3. peek \in Nat /\ src \in SrcType /\ told \in ToldType /\ ~told.back
  BY DEF TransferInv, Typed, TellsTrue
<1>4. src' \in SrcType /\ src'.got = src.got
  BY <1>1, <1>3 DEF SrcType
<1>5. Short(<<>>) /\ told = Said(told, <<>>)
  BY SaidNone DEF Short
<1>6. PICK expected : expected = expected_length(resp, TRUE, peek)
  OBVIOUS
<1>7. expected = peek /\ expected \in Nat \cup {None} /\ (expected # None => expected = resp.len \/ src'.got = resp.len)
  BY <1>1, <1>2, <1>3, <1>6 DEF expected_length
<1>8. /\ peek' \in Nat /\ excess' \in Nat /\ src'.got = peek + excess' /\ src'.got <= resp.len
      /\ UNCHANGED <<req, cancelled, resp, stored>>
  BY <1>1, <1>2, <1>3, <1>4
<1> QED
  BY <1>1, <1>2, <1>3, <1>4, <1>5, <1>6, <1>7, <1>8, PeekDoneKeeps

\* A poll leaves the reader r with whoever reads it, u was told.
LEMMA StaysKeeps ==
    ASSUME TransferInv, phase \in {"body", "handed"}, UNCHANGED <<req, cancelled, phase, resp, peek>>,
           NEW u \in ToldType, told' = u, NEW r, reader' = r, ReaderOK(r, resp, src', excess', u),
           src' \in SrcType, excess' \in Nat, StoredIsWhole',
           u.last = told.last, ~u.back, u.shown <= src'.got, PreviewTrue(u.preview, resp, src'),
           phase = "body" => r.emitted = {} /\ (~resp.cached => WithinMax(r.received)),
           phase = "handed" /\ r.emitted # {} =>
               \E x \in Ends : Closed(u, x) /\ (x = "Finished" => src'.got = resp.len)
    PROVE  TransferInv'
<1>1. Typed' /\ Views' /\ TellsTrue'
  BY DEF TransferInv, Typed, Views, TellsTrue
<1>2. Reads'
  BY DEF Reads
<1>3. CASE phase = "body"
  <2>1. Buffers'
    BY <1>2, <1>3 DEF TransferInv, ByPhase, Buffers, WithinMax
  <2> QED
    BY <1>1, <1>3, <2>1, Landing DEF Settled
<1>4. CASE phase = "handed"
  <2>1. Handed'
    BY <1>2, <1>4 DEF TransferInv, ByPhase, Handed
  <2> QED
    BY <1>1, <1>4, <2>1, Landing DEF Settled
<1> QED
  BY <1>3, <1>4

LEMMA Absorbed ==
    ASSUME NEW c \in CaptureType, NEW n \in Nat
    PROVE  LET d == absorb(c, n)
           IN  /\ d \in CaptureType /\ d.reported = c.reported
               /\ ~d.truncated => ~c.truncated /\ d.taken = c.taken + n
<1>1. PICK k \in Nat : k = smaller(n, c.remaining) /\ k <= n /\ k <= c.remaining
  BY DEF smaller, CaptureType
<1>2. PICK cut \in BOOLEAN : cut = (k < n) /\ (~cut => n <= k)
  BY <1>1, Compared
<1>3. PICK b \in BOOLEAN : b = (c.truncated \/ cut)
  BY Zenon
<1>4. PICK d : d = [c EXCEPT !.taken = c.taken + k, !.remaining = c.remaining - k, !.truncated = b]
  OBVIOUS
<1>5. c # None
  BY NoneAssumption
<1>6. (c.truncated \/ (k < n)) = b
  BY <1>2, <1>3, Zenon
<1>7. absorb(c, n) = d
  BY <1>1, <1>4, <1>5, <1>6 DEF absorb
<1>8. c.taken + k \in Nat /\ c.remaining - k \in Nat
  BY <1>1 DEF CaptureType
<1>9. d \in CaptureType /\ d.reported = c.reported /\ d.taken = c.taken + k /\ d.truncated = b
  BY <1>4, <1>8 DEF CaptureType
<1>10. ~b => ~c.truncated /\ n <= k
  BY <1>2, <1>3, Zenon
<1>11. n <= k => k = n
  BY <1>1
<1>12. ~d.truncated => ~c.truncated /\ d.taken = c.taken + n
  BY <1>9, <1>10, <1>11, Zenon
<1> QED
  BY <1>7, <1>9, <1>12

\* A chunk of n bytes reaches the reader, m of them are handed on, as poll_read_bytes does it.
BytesPass(t, r, p, s, ex, n, m, fresh, ex2, s2, c2, r2, u) ==
    /\ t \in ToldType /\ s \in SrcType /\ ex \in Nat
    /\ ReaderOK(r, p, s, ex, t) /\ r.emitted = {} /\ ~t.back
    /\ n \in Nat /\ m \in Nat /\ 0 < m /\ m <= n
    /\ fresh \in BOOLEAN /\ (fresh <=> r.pending = 0)
    /\ ~fresh => n = r.pending
    /\ fresh /\ ex > 0 => n = ex
    /\ fresh /\ ~(ex > 0) => n <= p.len - s.got
    /\ ex2 = (IF fresh THEN 0 ELSE ex)
    /\ s2 = [s EXCEPT !.got = IF fresh /\ ex = 0 THEN s.got + n ELSE s.got]
    /\ c2 = (IF fresh THEN absorb(r.capture, n) ELSE r.capture)
    /\ r2 = [r EXCEPT !.pending = n - m, !.received = r.received + m, !.capture = c2, !.cache = feed(r.cache, m)]
    /\ u = on_event(t, Progress(r2.received))

LEMMA BytesRead ==
    ASSUME NEW t, NEW r, NEW p, NEW s, NEW ex, NEW n, NEW m, NEW fresh, NEW ex2, NEW s2, NEW c2, NEW r2, NEW u,
           BytesPass(t, r, p, s, ex, n, m, fresh, ex2, s2, c2, r2, u)
    PROVE  /\ s2 \in SrcType /\ ex2 \in Nat /\ r2.received \in Nat
           /\ u \in ToldType /\ Open(u) /\ ~u.back /\ u.last = t.last /\ u.preview = t.preview
           /\ ReaderOK(r2, p, s2, ex2, u) /\ r2.emitted = {}
<1>a. /\ t \in ToldType /\ s \in SrcType /\ ex \in Nat /\ n \in Nat /\ m \in Nat /\ 0 < m /\ m <= n
      /\ ReaderOK(r, p, s, ex, t) /\ r.emitted = {} /\ ~t.back /\ fresh \in BOOLEAN
      /\ (fresh <=> r.pending = 0) /\ (~fresh => n = r.pending) /\ (fresh /\ ex > 0 => n = ex)
      /\ fresh /\ ~(ex > 0) => n <= p.len - s.got
  BY DEF BytesPass
<1>b. ex2 = (IF fresh THEN 0 ELSE ex) /\ u = on_event(t, Progress(r2.received))
  BY DEF BytesPass
<1>c. s2 = [s EXCEPT !.got = IF fresh /\ ex = 0 THEN s.got + n ELSE s.got]
  BY DEF BytesPass
<1>d. c2 = (IF fresh THEN absorb(r.capture, n) ELSE r.capture)
  BY DEF BytesPass
<1>e. r2 = [r EXCEPT !.pending = n - m, !.received = r.received + m, !.capture = c2, !.cache = feed(r.cache, m)]
  BY DEF BytesPass
<1>1. /\ r \in ReaderType /\ p \in Responses /\ Open(t) /\ (~p.cached => t.preview = None)
      /\ s.got <= p.len /\ r.received + r.pending + ex = s.got
      /\ r.expected_length # None => r.expected_length = p.len \/ s.got = p.len
      /\ r.cache # None => r.cache = r.received /\ r.cache <= max_entry_bytes
      /\ r.capture # None /\ ~r.capture.truncated => r.capture.taken = s.got - ex
      /\ r.capture # None /\ ~r.capture.reported => t.preview = None /\ t.tail = <<>>
      /\ t.shown <= r.received
  BY <1>a DEF ReaderOK
<1>2. /\ r.received \in Nat /\ r.pending \in Nat /\ r.capture \in CaptureType \cup {None} /\ r.cache \in Nat \cup {None}
      /\ s.got \in Nat /\ p.len \in Nat /\ t.shown \in Nat
  BY <1>a, <1>1, TransferAssumption DEF ReaderType, SrcType, Responses, ToldType
<1>3. PICK g \in Nat : g = IF fresh /\ ex = 0 THEN s.got + n ELSE s.got
  BY <1>a, <1>2
<1>4. s2 \in SrcType /\ s2.got = g /\ ex2 \in Nat
  BY <1>a, <1>b, <1>c, <1>3 DEF SrcType
<1>5. /\ n - m \in Nat /\ r.received + m \in Nat
      /\ g <= p.len /\ (r.received + m) + (n - m) + ex2 = g
      /\ fresh => g - ex2 = s.got - ex + n
      /\ ~fresh => g - ex2 = s.got - ex
      /\ s.got = p.len => g = p.len
  <2>1. PICK a \in Nat : a = s.got
    BY <1>2
  <2>2. PICK l \in Nat : l = p.len
    BY <1>2
  <2>3. PICK k \in Nat : k = r.received
    BY <1>2
  <2>4. PICK w \in Nat : w = r.pending
    BY <1>2
  <2>5. a <= l /\ k + w + ex = a
    BY <1>a, <1>1, <2>1, <2>2, <2>3, <2>4
  <2>6. CASE ~fresh
    <3>1. n = w /\ ex2 = ex /\ g = a
      BY <1>a, <1>b, <1>3, <2>1, <2>4, <2>6
    <3> QED
      BY <1>a, <2>1, <2>2, <2>3, <2>5, <2>6, <3>1
  <2>7. CASE fresh /\ ex > 0
    <3>1. n = ex /\ ex2 = 0 /\ g = a /\ w = 0
      BY <1>a, <1>b, <1>3, <2>1, <2>4, <2>7
    <3> QED
      BY <1>a, <2>1, <2>2, <2>3, <2>5, <2>7, <3>1
  <2>8. CASE fresh /\ ~(ex > 0)
    <3>1. n <= l - a /\ ex2 = 0 /\ ex = 0 /\ g = a + n /\ w = 0
      BY <1>a, <1>b, <1>3, <2>1, <2>2, <2>4, <2>8
    <3> QED
      BY <1>a, <2>1, <2>2, <2>3, <2>5, <2>8, <3>1
  <2> QED
    BY <1>a, <2>6, <2>7, <2>8
<1>6. c2 \in CaptureType \cup {None}
  BY <1>a, <1>d, <1>2, Absorbed, NoneAssumption DEF absorb
<1>7. c2 # None /\ ~c2.truncated => c2.taken = g - ex2
  <2>1. CASE ~fresh
    BY <1>d, <1>1, <1>5, <2>1
  <2>2. CASE fresh /\ r.capture = None
    BY <1>d, <2>2 DEF absorb
  <2>3. CASE fresh /\ r.capture # None
    <3>1. PICK c \in CaptureType : c = r.capture
      BY <1>2, <2>3
    <3>2. c2 \in CaptureType /\ (~c2.truncated => ~c.truncated /\ c2.taken = c.taken + n)
      BY <1>a, <1>d, <2>3, <3>1, Absorbed
    <3>3. ~c.truncated => c.taken = s.got - ex
      BY <1>1, <2>3, <3>1
    <3>4. g - ex2 = s.got - ex + n
      BY <1>5, <2>3
    <3> QED
      BY <1>a, <3>2, <3>3, <3>4
  <2> QED
    BY <1>a, <2>1, <2>2, <2>3
<1>8. c2 # None /\ ~c2.reported => t.preview = None
  <2>1. c2 # None => r.capture # None /\ c2.reported = r.capture.reported
    BY <1>a, <1>d, <1>2, Absorbed DEF absorb
  <2> QED
    BY <1>1, <2>1
<1>9. PICK w : w = feed(r.cache, m)
  OBVIOUS
<1>10. w = None \/ (w = r.received + m /\ w <= max_entry_bytes)
  <2>1. CASE r.cache = None
    BY <1>9, <2>1 DEF feed
  <2>2. CASE r.cache # None
    <3>1. w = enforce_limit(r.received + m)
      BY <1>1, <1>9, <2>2 DEF feed
    <3> QED
      BY <1>5, <3>1, TransferAssumption DEF enforce_limit
  <2> QED
    BY <2>1, <2>2
<1>11. /\ r2 \in ReaderType /\ r2.received = r.received + m /\ r2.pending = n - m /\ r2.capture = c2 /\ r2.cache = w
       /\ r2.emitted = {} /\ r2.expected_length = r.expected_length
  BY <1>a, <1>e, <1>1, <1>5, <1>6, <1>9, <1>10 DEF ReaderType
<1>12. u \in ToldType /\ Open(u) /\ ~u.back /\ u.shown = r2.received /\ u.last = t.last /\ u.preview = t.preview
  <2>1. PICK k \in Nat : k = r2.received /\ k > t.shown
    BY <1>a, <1>1, <1>2, <1>11
  <2> QED
    BY <1>a, <1>b, <1>1, <2>1, Counted
<1>13. ReaderOK(r2, p, s2, ex2, u)
  <2>1. s2.got <= p.len /\ r2.received + r2.pending + ex2 = s2.got
    BY <1>4, <1>5, <1>11
  <2>2. r2.expected_length # None => r2.expected_length = p.len \/ s2.got = p.len
    BY <1>1, <1>4, <1>5, <1>11
  <2>3. r2.cache # None => r2.cache = r2.received /\ r2.cache <= max_entry_bytes
    BY <1>10, <1>11
  <2>4. r2.capture # None /\ ~r2.capture.truncated => r2.capture.taken = s2.got - ex2
    BY <1>4, <1>7, <1>11
  <2>5. r2.capture # None /\ ~r2.capture.reported => u.preview = None /\ u.tail = <<>>
    BY <1>8, <1>11, <1>12 DEF Open
  <2>6. u.shown <= r2.received
    BY <1>5, <1>11, <1>12
  <2> QED
    BY <1>1, <1>11, <1>12, <2>1, <2>2, <2>3, <2>4, <2>5, <2>6 DEF ReaderOK
<1> QED
  BY <1>4, <1>5, <1>11, <1>12, <1>13

\* What the invariant says of a reader that is read.
LEMMA ReadingFacts ==
    ASSUME TransferInv, phase \in {"body", "handed"}
    PROVE  /\ ReaderOK(reader, resp, src, excess, told) /\ reader \in ReaderType /\ resp \in Responses
           /\ reader.capture \in CaptureType \cup {None} /\ Unseen(reader.capture, told)
           /\ reader.emitted = {} => Open(told)
           /\ src \in SrcType /\ peek \in Nat /\ excess \in Nat /\ told \in ToldType
           /\ ~told.back /\ told.shown <= src.got /\ PreviewTrue(told.preview, resp, src)
           /\ phase = "body" => reader.emitted = {} /\ ~req.streaming /\ (~resp.cached => WithinMax(reader.received))
           /\ phase = "handed" => req.streaming /\ told.last
<1>1. ReaderOK(reader, resp, src, excess, told)
  BY DEF TransferInv, ByPhase, Buffers, Handed, Reads
<1>2. reader \in ReaderType /\ resp \in Responses /\ Unseen(reader.capture, told) /\ (reader.emitted = {} => Open(told))
  BY <1>1 DEF ReaderOK, Unseen
<1>3. reader.capture \in CaptureType \cup {None}
  BY <1>2 DEF ReaderType
<1> QED
  BY <1>1, <1>2, <1>3 DEF TransferInv, ByPhase, Buffers, Handed, Typed, TellsTrue

LEMMA PollBytesKeeps ==
    ASSUME TransferInv, NEW n \in 1..MaxBody, NEW m \in 1..MaxBody, poll_read_bytes(n, m)
    PROVE  TransferInv'
<1>1. /\ phase \in {"body", "handed"} /\ reader.emitted = {} /\ m <= n /\ n \in Nat /\ m \in Nat /\ 0 < m
      /\ IF reader.pending > 0 THEN n = reader.pending ELSE NextChunk(n)
      /\ UNCHANGED <<req, cancelled, retries, resp, peek, stored>>
  BY TransferAssumption DEF poll_read_bytes, Reading, readUnchanged
<1>2. /\ ReaderOK(reader, resp, src, excess, told) /\ reader \in ReaderType /\ resp \in Responses /\ Open(told)
      /\ src \in SrcType /\ peek \in Nat /\ excess \in Nat /\ told \in ToldType /\ ~told.back
      /\ PreviewTrue(told.preview, resp, src) /\ (~resp.cached => told.preview = None)
      /\ reader.pending \in Nat
  <2>1. ReaderOK(reader, resp, src, excess, told) /\ reader \in ReaderType
    BY <1>1, ReadingFacts
  <2>2. (~resp.cached => told.preview = None) /\ reader.pending \in Nat
    BY <1>1, <2>1 DEF ReaderOK, ReaderType
  <2> QED
    BY <1>1, <2>1, <2>2, ReadingFacts
<1>3. PICK fresh \in BOOLEAN : fresh <=> reader.pending = 0
  OBVIOUS
<1>4. PICK ex2 : ex2 = IF fresh THEN 0 ELSE excess
  OBVIOUS
<1>5. PICK s2 : s2 = [src EXCEPT !.got = IF fresh /\ excess = 0 THEN src.got + n ELSE src.got]
  OBVIOUS
<1>6. PICK c2 : c2 = IF fresh THEN absorb(reader.capture, n) ELSE reader.capture
  OBVIOUS
<1>7. PICK r2 : r2 = [reader EXCEPT !.pending = n - m, !.received = reader.received + m, !.capture = c2,
                                    !.cache = feed(reader.cache, m)]
  OBVIOUS
<1>8. PICK u : u = on_event(told, Progress(r2.received))
  OBVIOUS
<1>9. src' = s2 /\ excess' = ex2
  BY <1>3, <1>4, <1>5 DEF poll_read_bytes
<1>10. Polled(IF TooLong(r2.received) THEN "refused" ELSE None, r2, <<Progress(r2.received)>>)
  BY <1>3, <1>6, <1>7 DEF poll_read_bytes
<1>11. /\ ~fresh => n = reader.pending
       /\ fresh /\ excess > 0 => n = excess
       /\ fresh /\ ~(excess > 0) => n <= resp.len - src.got
  BY <1>1, <1>2, <1>3 DEF NextChunk
<1>12. /\ s2 \in SrcType /\ ex2 \in Nat /\ r2.received \in Nat
       /\ u \in ToldType /\ Open(u) /\ ~u.back /\ u.last = told.last /\ u.preview = told.preview
       /\ ReaderOK(r2, resp, s2, ex2, u) /\ r2.emitted = {}
  <2>1. PICK r : r = reader
    OBVIOUS
  <2>2. PICK p : p = resp
    OBVIOUS
  <2>3. PICK t \in ToldType : t = told
    BY <1>2
  <2>4. PICK s \in SrcType : s = src
    BY <1>2
  <2>5. PICK ex \in Nat : ex = excess
    BY <1>2
  <2>6. BytesPass(t, r, p, s, ex, n, m, fresh, ex2, s2, c2, r2, u)
    BY <1>1, <1>2, <1>3, <1>4, <1>5, <1>6, <1>7, <1>8, <1>11, <2>1, <2>2, <2>3, <2>4, <2>5 DEF BytesPass
  <2>7. /\ s2 \in SrcType /\ ex2 \in Nat /\ r2.received \in Nat
        /\ u \in ToldType /\ Open(u) /\ ~u.back /\ u.last = t.last /\ u.preview = t.preview
        /\ ReaderOK(r2, p, s2, ex2, u) /\ r2.emitted = {}
    BY <2>6, BytesRead
  <2> QED
    BY <2>2, <2>3, <2>7
<1>13. Short(<<Progress(r2.received)>>) /\ Said(told, <<Progress(r2.received)>>) = u
  BY <1>8, <1>12, EventTypes, ShortSeqs, SaidOne
<1>14. PreviewTrue(u.preview, resp, s2) /\ u.shown <= s2.got
  <2>1. PreviewTrue(u.preview, resp, s2)
    BY <1>2, <1>12 DEF PreviewTrue
  <2>2. r2 \in ReaderType /\ u.shown <= r2.received /\ r2.received + r2.pending + ex2 = s2.got
    BY <1>12 DEF ReaderOK
  <2>3. r2.pending \in Nat /\ s2.got \in Nat /\ u.shown \in Nat
    BY <1>12, <2>2 DEF ReaderType, SrcType, ToldType
  <2> QED
    BY <1>12, <2>1, <2>2, <2>3
<1>15. StoredIsWhole'
  BY <1>1 DEF TransferInv, StoredIsWhole
<1>16. "refused" # None
  BY NoneAssumption DEF Outcomes, Errors
<1>17. CASE phase = "body" /\ TooLong(r2.received)
  <2>1. /\ phase' = "judged" /\ outcome' = "refused" /\ reader' = None
        /\ told' = Said(told, <<Progress(r2.received)>> \o drop_reader(r2))
    BY <1>10, <1>16, <1>17 DEF Polled, Return
  <2>2. r2.capture \in CaptureType \cup {None} /\ Unseen(r2.capture, u)
    BY <1>12 DEF ReaderOK, ReaderType, Unseen
  <2>3. told' = Said(u, drop_reader(r2))
    BY <1>13, <2>1, <2>2, SaidThenDropped
  <2>4. PICK v : v = Said(u, drop_reader(r2))
    OBVIOUS
  <2>5. /\ v \in ToldType /\ Alike(u, v) /\ PreviewTrue(v.preview, resp, s2)
        /\ \E x \in Ends \ {"Failed"} : Closed(v, x) /\ (x = "Finished" => s2.got = resp.len)
    BY <1>12, <1>14, <2>2, <2>4, ReaderDropped
  <2>6. PICK x \in Ends : Closed(v, x) /\ (x = "Finished" => s2.got = resp.len)
    BY <2>5
  <2>7. EndOK(x)'
    BY <1>1, <1>9, <2>1, <2>6 DEF EndOK
  <2>8. v.last = told.last /\ ~v.back /\ v.shown <= src'.got /\ PreviewTrue(v.preview, resp', src')
    BY <1>1, <1>9, <1>12, <1>14, <2>5 DEF Alike
  <2>9. src' \in SrcType /\ peek' \in Nat /\ excess' \in Nat /\ phase \notin {"handed", "done"}
    BY <1>1, <1>2, <1>9, <1>12, <1>17
  <2> QED
    BY <1>1, <1>15, <2>1, <2>3, <2>4, <2>5, <2>6, <2>7, <2>8, <2>9, OverKeeps
<1>18. CASE ~(phase = "body" /\ TooLong(r2.received))
  <2>1. reader' = r2 /\ told' = u /\ UNCHANGED <<phase, outcome>>
    BY <1>10, <1>13, <1>18 DEF Polled
  <2>2. phase = "body" => r2.emitted = {} /\ (~resp.cached => WithinMax(r2.received))
    BY <1>12, <1>18, LimitKept
  <2>3. ReaderOK(r2, resp, src', excess', u) /\ src' \in SrcType /\ excess' \in Nat
    BY <1>9, <1>12
  <2>4. u.shown <= src'.got /\ PreviewTrue(u.preview, resp, src')
    BY <1>9, <1>14
  <2> QED
    BY <1>1, <1>12, <1>15, <2>1, <2>2, <2>3, <2>4, StaysKeeps
<1> QED
  BY <1>17, <1>18

\* The preview that a poll reports is true, when nothing was put back and of a stored
\* response everything was read.
LEMMA PollReports ==
    ASSUME NEW t \in ToldType, NEW r, NEW p, NEW s \in SrcType, ReaderOK(r, p, s, 0, t), r.emitted = {},
           p.cached => s.got = p.len, PreviewTrue(t.preview, p, s)
    PROVE  LET u == Said(t, report(r.capture))
           IN  /\ Short(report(r.capture)) /\ u \in ToldType /\ Alike(t, u) /\ Open(u)
               /\ PreviewTrue(u.preview, p, s)
<1>1. /\ r \in ReaderType /\ Open(t) /\ Unseen(r.capture, t)
      /\ r.capture # None /\ ~r.capture.truncated => r.capture.taken = s.got - 0
  BY DEF ReaderOK, Unseen
<1>2. PICK c \in CaptureType \cup {None} : c = r.capture
  BY <1>1 DEF ReaderType
<1>3. PICK u : u = Said(t, report(c))
  OBVIOUS
<1>4. /\ Short(report(c)) /\ u \in ToldType /\ Alike(t, u) /\ Open(u)
      /\ \/ u = t
         \/ c # None /\ u.preview = [bytes |-> c.taken, cut |-> c.truncated, again |-> FALSE]
  BY <1>1, <1>2, <1>3, Reporting
<1>5. ASSUME c # None, u.preview = [bytes |-> c.taken, cut |-> c.truncated, again |-> FALSE]
      PROVE  PreviewTrue(u.preview, p, s)
  <2>1. u.preview.bytes = c.taken /\ u.preview.cut = c.truncated /\ u.preview.again = FALSE
    BY <1>5
  <2>2. s.got \in Nat
    BY DEF SrcType
  <2>3. ~c.truncated => c.taken = s.got
    BY <1>1, <1>2, <1>5, <2>2
  <2> QED
    BY <2>1, <2>3 DEF PreviewTrue
<1> QED
  BY <1>2, <1>3, <1>4, <1>5

\* The reader after its preview was reported, and em was emitted.
ReportsAs(t, r, p, s, ex, em, u, s2, w, r2) ==
    /\ ReaderOK(r, p, s, ex, t) /\ r.emitted = {} /\ em \in SUBSET Ends
    /\ u.shown = t.shown /\ (em # {} \/ u = t) /\ s2.got = s.got /\ (w = None \/ w = r.cache)
    /\ r2 = [r EXCEPT !.emitted = em, !.capture = reported(r.capture), !.cache = w]

LEMMA ReportedReader ==
    ASSUME NEW t, NEW r, NEW p, NEW s, NEW ex, NEW em, NEW u, NEW s2, NEW w, NEW r2,
           ReportsAs(t, r, p, s, ex, em, u, s2, w, r2)
    PROVE  /\ ReaderOK(r2, p, s2, ex, u) /\ r2.emitted = em /\ r2.received = r.received
           /\ r2.capture \in CaptureType \cup {None} /\ (r2.capture = None \/ r2.capture.reported)
<1>a. /\ ReaderOK(r, p, s, ex, t) /\ r.emitted = {} /\ em \in SUBSET Ends
      /\ u.shown = t.shown /\ (em # {} \/ u = t) /\ s2.got = s.got /\ (w = None \/ w = r.cache)
  BY DEF ReportsAs
<1>b. r2 = [r EXCEPT !.emitted = em, !.capture = reported(r.capture), !.cache = w]
  BY DEF ReportsAs
<1>1. r \in ReaderType /\ r.capture \in CaptureType \cup {None} /\ r.cache \in Nat \cup {None}
  BY <1>a DEF ReaderOK, ReaderType
<1>2. PICK c : c = reported(r.capture)
  OBVIOUS
<1>3. ASSUME r.capture # None
      PROVE  c \in CaptureType /\ c.reported = TRUE /\ c.truncated = r.capture.truncated /\ c.taken = r.capture.taken
  <2>1. PICK d \in CaptureType : d = r.capture
    BY <1>1, <1>3
  <2>2. c = [d EXCEPT !.reported = TRUE]
    BY <1>2, <1>3, <2>1 DEF reported
  <2> QED
    BY <2>1, <2>2 DEF CaptureType
<1>4. r.capture = None => c = None
  BY <1>2 DEF reported
<1>5. c \in CaptureType \cup {None} /\ (c = None \/ c.reported)
  BY <1>3, <1>4
<1>6. /\ r2 \in ReaderType /\ r2.emitted = em /\ r2.capture = c /\ r2.cache = w
      /\ r2.received = r.received /\ r2.pending = r.pending /\ r2.expected_length = r.expected_length
  BY <1>a, <1>b, <1>1, <1>2, <1>5 DEF ReaderType
<1>7. ReaderOK(r2, p, s2, ex, u)
  <2>1. r2.capture # None /\ ~r2.capture.truncated => r2.capture.taken = s2.got - ex
    BY <1>a, <1>3, <1>4, <1>6 DEF ReaderOK
  <2>2. r2.capture # None /\ ~r2.capture.reported => u.preview = None /\ u.tail = <<>>
    BY <1>5, <1>6
  <2>3. r2.emitted = {} => Open(u) /\ (~p.cached => u.preview = None)
    BY <1>a, <1>6 DEF ReaderOK
  <2>4. r2.cache # None => r2.cache = r2.received /\ r2.cache <= max_entry_bytes
    BY <1>a, <1>6 DEF ReaderOK
  <2>5. /\ p \in Responses /\ s2.got <= p.len /\ r2.received + r2.pending + ex = s2.got /\ u.shown <= r2.received
        /\ r2.expected_length # None => r2.expected_length = p.len \/ s2.got = p.len
    BY <1>a, <1>6 DEF ReaderOK
  <2> QED
    BY <1>6, <2>1, <2>2, <2>3, <2>4, <2>5 DEF ReaderOK
<1> QED
  BY <1>5, <1>6, <1>7

\* Said(t, es) for the preview and the end of a poll.
LEMMA PreviewThenEnd ==
    ASSUME NEW t \in ToldType, NEW es, Short(es), NEW x \in Ends, NEW v, v = Said(t, es), v \in ToldType, Open(v)
    PROVE  LET w == Said(t, es \o <<Ev(x)>>)
           IN  /\ w \in ToldType /\ Closed(w, x) /\ Alike(v, w) /\ w.preview = v.preview /\ w.tail = <<>>
               /\ (es \o <<Ev(x)>>) \o <<>> = es \o <<Ev(x)>>
<1>1. Ev(x) \in EventType /\ Short(<<Ev(x)>>)
  BY EndTypes, ShortSeqs
<1>2. Said(t, es \o <<Ev(x)>>) = on_event(v, Ev(x))
  BY <1>1, SaidTwo, SaidOne
<1>3. es \o <<Ev(x)>> \in Seq(EventType)
  BY <1>1 DEF Short
<1>4. (es \o <<Ev(x)>>) \o <<>> = es \o <<Ev(x)>>
  BY <1>3
<1> QED
  BY <1>2, <1>4, Ending

LEMMA PollEndKeeps == ASSUME TransferInv, poll_read_end PROVE TransferInv'
<1>1. /\ phase \in {"body", "handed"} /\ reader.emitted = {}
      /\ reader.pending = 0 /\ excess = 0 /\ src.got = resp.len
      /\ src' = [src EXCEPT !.over = TRUE]
      /\ stored' = IF reader.cache = None THEN stored ELSE [bytes |-> reader.cache, of |-> resp.len]
      /\ UNCHANGED <<req, cancelled, retries, resp, peek, excess>>
  BY DEF poll_read_end, Reading, readUnchanged
<1>2. /\ ReaderOK(reader, resp, src, 0, told) /\ reader \in ReaderType /\ resp \in Responses
      /\ src \in SrcType /\ peek \in Nat /\ excess \in Nat /\ told \in ToldType
      /\ ~told.back /\ told.shown <= src.got /\ PreviewTrue(told.preview, resp, src)
      /\ phase = "body" => ~req.streaming /\ (~resp.cached => WithinMax(reader.received))
  BY <1>1, ReadingFacts
<1>3. PICK v : v = Said(told, report(reader.capture))
  OBVIOUS
<1>4. /\ Short(report(reader.capture)) /\ v \in ToldType /\ Alike(told, v) /\ Open(v)
      /\ PreviewTrue(v.preview, resp, src)
  BY <1>1, <1>2, <1>3, PollReports
<1>5. PICK es : es = report(reader.capture) \o <<Ev("Finished")>>
  OBVIOUS
<1>6. PICK w : w = Said(told, es)
  OBVIOUS
<1>7. "Finished" \in Ends
  BY DEF Ends
<1>8. w \in ToldType /\ Closed(w, "Finished") /\ Alike(v, w) /\ w.preview = v.preview /\ es \o <<>> = es
  BY <1>2, <1>3, <1>4, <1>5, <1>6, <1>7, PreviewThenEnd
<1>9. PICK r2 : r2 = [reader EXCEPT !.emitted = {"Finished"}, !.capture = reported(reader.capture), !.cache = None]
  OBVIOUS
<1>10. Polled("ok", r2, es)
  BY <1>5, <1>9 DEF poll_read_end
<1>11. src' \in SrcType /\ src'.got = src.got
  BY <1>1, <1>2 DEF SrcType
<1>12. w.last = told.last /\ ~w.back /\ w.shown = told.shown /\ w.shown <= src'.got
  BY <1>2, <1>4, <1>8, <1>11 DEF Alike
<1>13. PreviewTrue(w.preview, resp, src')
  BY <1>4, <1>8, <1>11 DEF PreviewTrue
<1>14. /\ ReaderOK(r2, resp, src', 0, w) /\ r2.emitted = {"Finished"}
       /\ r2.capture \in CaptureType \cup {None} /\ (r2.capture = None \/ r2.capture.reported)
  <2>1. PICK s2 : s2 = src'
    OBVIOUS
  <2>2. s2.got = src.got /\ {"Finished"} \in SUBSET Ends /\ {"Finished"} # {}
    BY <1>7, <1>11, <2>1
  <2>3. /\ ReaderOK(r2, resp, s2, 0, w) /\ r2.emitted = {"Finished"}
        /\ r2.capture \in CaptureType \cup {None} /\ (r2.capture = None \/ r2.capture.reported)
    <3>1. ReportsAs(told, reader, resp, src, 0, {"Finished"}, w, s2, None, r2)
      BY <1>1, <1>2, <1>9, <1>12, <2>2 DEF ReportsAs
    <3> QED
      BY <3>1, ReportedReader
  <2> QED
    BY <2>1, <2>3
<1>15. reader.received \in Nat /\ src.got \in Nat /\ reader.received = src.got
  <2>1. reader.received + reader.pending + 0 = src.got
    BY <1>2 DEF ReaderOK
  <2>2. reader.received \in Nat /\ src.got \in Nat
    BY <1>2 DEF ReaderType, SrcType
  <2> QED
    BY <1>1, <2>1, <2>2
<1>16. StoredIsWhole'
  <2>1. CASE reader.cache = None
    BY <1>1, <2>1 DEF TransferInv, StoredIsWhole
  <2>2. CASE reader.cache # None
    <3>1. reader.cache = resp.len /\ reader.cache <= max_entry_bytes
      BY <1>1, <1>2, <1>15, <2>2 DEF ReaderOK
    <3>2. stored'.bytes = reader.cache /\ stored'.of = resp.len
      BY <1>1, <2>2
    <3> QED
      BY <3>1, <3>2 DEF StoredIsWhole
  <2> QED
    BY <2>1, <2>2
<1>17. CASE phase = "body"
  <2>1. "ok" # None
    BY NoneAssumption DEF Outcomes
  <2>2. phase' = "judged" /\ outcome' = "ok" /\ reader' = None /\ told' = Said(told, es \o drop_reader(r2))
    BY <1>10, <1>17, <2>1 DEF Polled, Return
  <2>3. drop_reader(r2) = <<>>
    BY <1>14, SilentDrop
  <2>4. told' = w
    BY <1>6, <1>8, <2>2, <2>3
  <2>5. EndOK("Finished")'
    BY <1>1, <1>2, <1>11, <1>15, <1>17, <2>2 DEF EndOK, WithinMax
  <2>6. PreviewTrue(w.preview, resp', src') /\ peek' \in Nat /\ excess' \in Nat /\ phase \notin {"handed", "done"}
    BY <1>1, <1>2, <1>13, <1>17
  <2> QED
    BY <1>1, <1>7, <1>8, <1>11, <1>12, <1>16, <2>2, <2>4, <2>5, <2>6, OverKeeps
<1>18. CASE phase = "handed"
  <2>1. reader' = r2 /\ told' = w /\ UNCHANGED <<phase, outcome>>
    BY <1>6, <1>10, <1>18 DEF Polled
  <2>2. ReaderOK(r2, resp, src', excess', w) /\ excess' \in Nat
    BY <1>1, <1>2, <1>14
  <2>3. \E x \in Ends : Closed(w, x) /\ (x = "Finished" => src'.got = resp.len)
    BY <1>1, <1>7, <1>8, <1>11
  <2> QED
    BY <1>1, <1>8, <1>11, <1>12, <1>13, <1>16, <1>18, <2>1, <2>2, <2>3, StaysKeeps
<1> QED
  BY <1>1, <1>17, <1>18

LEMMA PollFailsKeeps == ASSUME TransferInv, NEW e \in {"transport", "refused"}, poll_read_fails(e) PROVE TransferInv'
<1>1. /\ phase \in {"body", "handed"} /\ reader.emitted = {} /\ ~resp.cached
      /\ reader.pending = 0 /\ excess = 0 /\ (phase = "handed" => ~cancelled)
      /\ UNCHANGED <<req, cancelled, retries, resp, peek, src, excess, stored>>
  BY DEF poll_read_fails, Reading, readUnchanged
<1>2. /\ ReaderOK(reader, resp, src, 0, told) /\ reader \in ReaderType /\ resp \in Responses
      /\ src \in SrcType /\ peek \in Nat /\ excess \in Nat /\ told \in ToldType
      /\ ~told.back /\ told.shown <= src.got /\ PreviewTrue(told.preview, resp, src)
  BY <1>1, ReadingFacts
<1>3. PICK c : c = report(reader.capture)
  OBVIOUS
<1>4. PICK v : v = Said(told, c)
  OBVIOUS
<1>5. /\ Short(c) /\ v \in ToldType /\ Alike(told, v) /\ Open(v) /\ PreviewTrue(v.preview, resp, src)
  BY <1>1, <1>2, <1>3, <1>4, PollReports
<1>6. PICK em : em = IF cancelled THEN {} ELSE {"Failed"}
  OBVIOUS
<1>7. PICK r2 : r2 = [reader EXCEPT !.emitted = em, !.capture = reported(reader.capture)]
  OBVIOUS
<1>8. Polled(e, r2, c \o (IF cancelled THEN <<>> ELSE <<Ev("Failed")>>))
  BY <1>3, <1>6, <1>7 DEF poll_read_fails
<1>9. r2 = [reader EXCEPT !.emitted = em, !.capture = reported(reader.capture), !.cache = reader.cache]
  BY <1>2, <1>7 DEF ReaderType
<1>10. e # None /\ e # "ok" /\ "Failed" \in Ends /\ em \in SUBSET Ends
  BY <1>6, NoneAssumption DEF Outcomes, Errors, Ends
<1>11. StoredIsWhole' /\ src' \in SrcType /\ peek' \in Nat /\ excess' \in Nat
  BY <1>1, <1>2 DEF TransferInv, StoredIsWhole
<1>12. CASE cancelled
  <2>1. phase = "body" /\ em = {}
    BY <1>1, <1>6, <1>12
  <2>2. c \o <<>> = c
    BY <1>5 DEF Short
  <2>3. phase' = "judged" /\ outcome' = e /\ reader' = None /\ told' = Said(told, c \o drop_reader(r2))
    BY <1>8, <1>10, <1>12, <2>1, <2>2 DEF Polled, Return
  <2>4. ReportsAs(told, reader, resp, src, 0, em, told, src, reader.cache, r2)
    BY <1>1, <1>2, <1>9, <1>10 DEF ReportsAs
  <2>5. /\ ReaderOK(r2, resp, src, 0, told) /\ r2.emitted = {}
        /\ r2.capture \in CaptureType \cup {None} /\ (r2.capture = None \/ r2.capture.reported)
    BY <2>1, <2>4, ReportedReader
  <2>6. Unseen(r2.capture, v)
    BY <2>5 DEF Unseen
  <2>7. PICK u : u = Said(v, drop_reader(r2))
    OBVIOUS
  <2>8. told' = u
    BY <1>4, <1>5, <2>3, <2>5, <2>7, SaidThenDropped
  <2>9. /\ u \in ToldType /\ Alike(v, u) /\ PreviewTrue(u.preview, resp, src)
        /\ \E x \in Ends \ {"Failed"} : Closed(u, x) /\ (x = "Finished" => src.got = resp.len)
    BY <1>2, <1>5, <2>5, <2>6, <2>7, ReaderDropped
  <2>10. PICK x \in Ends : Closed(u, x) /\ (x = "Finished" => src.got = resp.len)
    BY <2>9
  <2>11. EndOK(x)'
    BY <1>1, <1>10, <2>3, <2>10 DEF EndOK
  <2>12. u.last = told.last /\ ~u.back /\ u.shown <= src'.got /\ PreviewTrue(u.preview, resp', src')
    BY <1>1, <1>2, <1>5, <2>9 DEF Alike
  <2> QED
    BY <1>1, <1>11, <2>1, <2>3, <2>8, <2>9, <2>10, <2>11, <2>12, OverKeeps
<1>13. CASE ~cancelled
  <2>1. PICK es : es = c \o <<Ev("Failed")>>
    OBVIOUS
  <2>2. PICK w : w = Said(told, es)
    OBVIOUS
  <2>3. w \in ToldType /\ Closed(w, "Failed") /\ Alike(v, w) /\ w.preview = v.preview /\ es \o <<>> = es
    BY <1>2, <1>4, <1>5, <1>10, <2>1, <2>2, PreviewThenEnd
  <2>4. Polled(e, r2, es)
    BY <1>8, <1>13, <2>1
  <2>5. w.last = told.last /\ ~w.back /\ w.shown = told.shown /\ w.shown <= src'.got
    BY <1>1, <1>2, <1>5, <2>3 DEF Alike
  <2>6. PreviewTrue(w.preview, resp, src')
    BY <1>1, <1>5, <2>3
  <2>7. em = {"Failed"} /\ em # {}
    BY <1>6, <1>13
  <2>8. ReportsAs(told, reader, resp, src, 0, em, w, src, reader.cache, r2)
    BY <1>1, <1>2, <1>9, <1>10, <2>5, <2>7 DEF ReportsAs
  <2>9. /\ ReaderOK(r2, resp, src, 0, w) /\ r2.emitted = em
        /\ r2.capture \in CaptureType \cup {None} /\ (r2.capture = None \/ r2.capture.reported)
    BY <2>8, ReportedReader
  <2>10. CASE phase = "body"
    <3>1. phase' = "judged" /\ outcome' = e /\ reader' = None /\ told' = Said(told, es \o drop_reader(r2))
      BY <1>10, <2>4, <2>10 DEF Polled, Return
    <3>2. drop_reader(r2) = <<>>
      BY <2>7, <2>9, SilentDrop
    <3>3. told' = w
      BY <2>2, <2>3, <3>1, <3>2
    <3>4. EndOK("Failed")'
      BY <1>10, <3>1 DEF EndOK
    <3>5. PreviewTrue(w.preview, resp', src') /\ phase \notin {"handed", "done"}
      BY <1>1, <2>6, <2>10
    <3> QED
      BY <1>1, <1>10, <1>11, <2>3, <2>5, <3>1, <3>3, <3>4, <3>5, OverKeeps
  <2>11. CASE phase = "handed"
    <3>1. reader' = r2 /\ told' = w /\ UNCHANGED <<phase, outcome>>
      BY <2>2, <2>4, <2>11 DEF Polled
    <3>2. ReaderOK(r2, resp, src', excess', w)
      BY <1>1, <2>9
    <3>3. \E x \in Ends : Closed(w, x) /\ (x = "Finished" => src'.got = resp.len)
      BY <1>10, <2>3
    <3> QED
      BY <1>1, <1>11, <2>3, <2>5, <2>6, <2>11, <3>1, <3>2, <3>3, StaysKeeps
  <2> QED
    BY <1>1, <2>10, <2>11
<1> QED
  BY <1>12, <1>13

LEMMA PollCancelledKeeps == ASSUME TransferInv, poll_read_cancelled PROVE TransferInv'
<1>1. /\ phase \in {"body", "handed"} /\ reader.emitted = {}
      /\ UNCHANGED <<req, cancelled, retries, resp, peek, src, excess, stored>>
  BY DEF poll_read_cancelled, Reading, readUnchanged
<1>2. /\ ReaderOK(reader, resp, src, excess, told) /\ reader \in ReaderType /\ resp \in Responses
      /\ reader.capture \in CaptureType \cup {None} /\ Unseen(reader.capture, told) /\ Open(told)
      /\ src \in SrcType /\ peek \in Nat /\ excess \in Nat /\ told \in ToldType
      /\ ~told.back /\ told.shown <= src.got /\ PreviewTrue(told.preview, resp, src)
  BY <1>1, ReadingFacts
<1>3. "Cancelled" \in Ends /\ "cancelled" # None
  BY NoneAssumption DEF Ends, Outcomes, Errors
<1>4. PICK v : v = on_event(told, Ev("Cancelled"))
  OBVIOUS
<1>5. v \in ToldType /\ Closed(v, "Cancelled") /\ v.tail = <<>> /\ Alike(told, v) /\ v.preview = told.preview
  BY <1>2, <1>3, <1>4, Ending
<1>6. Short(<<Ev("Cancelled")>>) /\ Said(told, <<Ev("Cancelled")>>) = v
  BY <1>3, <1>4, EndTypes, ShortSeqs, SaidOne
<1>7. PICK r2 : r2 = [reader EXCEPT !.emitted = {"Cancelled"}]
  OBVIOUS
<1>8. Polled("cancelled", r2, <<Ev("Cancelled")>>)
  BY <1>7 DEF poll_read_cancelled
<1>9. /\ r2 \in ReaderType /\ r2.emitted = {"Cancelled"} /\ r2.capture = reader.capture /\ r2.cache = reader.cache
      /\ r2.received = reader.received /\ r2.pending = reader.pending /\ r2.expected_length = reader.expected_length
  BY <1>2, <1>3, <1>7 DEF ReaderType
<1>10. Unseen(r2.capture, v)
  BY <1>2, <1>5, <1>9 DEF Unseen
<1>11. ReaderOK(r2, resp, src, excess, v)
  BY <1>2, <1>5, <1>9, <1>10 DEF ReaderOK, Unseen, Alike
<1>12. StoredIsWhole' /\ src' \in SrcType /\ peek' \in Nat /\ excess' \in Nat
  BY <1>1, <1>2 DEF TransferInv, StoredIsWhole
<1>13. v.last = told.last /\ ~v.back /\ v.shown <= src'.got /\ PreviewTrue(v.preview, resp, src')
  BY <1>1, <1>2, <1>5 DEF Alike
<1>14. CASE phase = "body"
  <2>1. /\ phase' = "judged" /\ outcome' = "cancelled" /\ reader' = None
        /\ told' = Said(told, <<Ev("Cancelled")>> \o drop_reader(r2))
    BY <1>3, <1>8, <1>14 DEF Polled, Return
  <2>2. told' = Said(v, drop_reader(r2))
    BY <1>2, <1>6, <1>9, <2>1, SaidThenDropped
  <2>3. PICK u : u = Said(v, capture_drop(r2.capture))
    OBVIOUS
  <2>4. /\ Short(capture_drop(r2.capture)) /\ u \in ToldType /\ Alike(v, u) /\ Closed(u, "Cancelled")
        /\ u = v \/ (~u.preview.again /\ u.preview.cut)
    BY <1>2, <1>5, <1>9, <1>10, <2>3, DropReports
  <2>5. drop_reader(r2) = <<>> \o capture_drop(r2.capture)
    BY <1>9 DEF drop_reader
  <2>6. <<>> \o capture_drop(r2.capture) = capture_drop(r2.capture)
    BY <2>4 DEF Short
  <2>7. told' = u
    BY <2>2, <2>3, <2>5, <2>6
  <2>8. EndOK("Cancelled")'
    BY <2>1 DEF EndOK
  <2>9. u.last = told.last /\ ~u.back /\ u.shown <= src'.got
    BY <1>13, <2>4 DEF Alike
  <2>10. PreviewTrue(u.preview, resp', src')
    BY <1>1, <1>13, <2>4 DEF PreviewTrue
  <2> QED
    BY <1>1, <1>3, <1>12, <1>14, <2>1, <2>4, <2>7, <2>8, <2>9, <2>10, OverKeeps
<1>15. CASE phase = "handed"
  <2>1. reader' = r2 /\ told' = v /\ UNCHANGED <<phase, outcome>>
    BY <1>6, <1>8, <1>15 DEF Polled
  <2>2. ReaderOK(r2, resp, src', excess', v)
    BY <1>1, <1>11
  <2>3. \E x \in Ends : Closed(v, x) /\ (x = "Finished" => src'.got = resp.len)
    BY <1>3, <1>5
  <2> QED
    BY <1>1, <1>5, <1>12, <1>13, <1>15, <2>1, <2>2, <2>3, StaysKeeps
<1> QED
  BY <1>1, <1>14, <1>15

LEMMA CutOffKeeps == ASSUME TransferInv, complete_cut_off PROVE TransferInv'
<1>1. /\ phase = "body" /\ UNCHANGED <<req, cancelled, retries, resp, peek, src, excess, stored>>
      /\ \E o \in {"cancelled", "timeout"} : Return(o, reader, <<>>)
  BY DEF complete_cut_off, readUnchanged
<1>2. PICK o \in {"cancelled", "timeout"} : Return(o, reader, <<>>)
  BY <1>1
<1>3. /\ ReaderOK(reader, resp, src, excess, told) /\ reader.emitted = {} /\ Open(told)
      /\ reader.capture \in CaptureType \cup {None} /\ Unseen(reader.capture, told)
      /\ src \in SrcType /\ peek \in Nat /\ excess \in Nat /\ told \in ToldType
      /\ ~told.back /\ told.shown <= src.got /\ PreviewTrue(told.preview, resp, src)
  BY <1>1, ReadingFacts
<1>4. PICK u : u = Said(told, drop_reader(reader))
  OBVIOUS
<1>5. /\ u \in ToldType /\ Alike(told, u) /\ PreviewTrue(u.preview, resp, src)
      /\ \E x \in Ends \ {"Failed"} : Closed(u, x) /\ (x = "Finished" => src.got = resp.len)
  BY <1>3, <1>4, ReaderDropped
<1>6. phase' = "judged" /\ outcome' = o /\ reader' = None /\ told' = Said(told, <<>> \o drop_reader(reader))
  BY <1>2 DEF Return
<1>7. told' = u
  <2>1. Short(<<>>) /\ Said(told, <<>>) = told
    BY SaidNone DEF Short
  <2> QED
    BY <1>3, <1>4, <1>6, <2>1, SaidThenDropped
<1>8. PICK x \in Ends : Closed(u, x) /\ (x = "Finished" => src.got = resp.len)
  BY <1>5
<1>9. EndOK(x)'
  BY <1>1, <1>6, <1>8 DEF EndOK
<1>10. u.last = told.last /\ ~u.back /\ u.shown <= src'.got /\ PreviewTrue(u.preview, resp', src')
  BY <1>1, <1>3, <1>5 DEF Alike
<1>11. StoredIsWhole' /\ src' \in SrcType /\ peek' \in Nat /\ excess' \in Nat
  BY <1>1, <1>3 DEF TransferInv, StoredIsWhole
<1> QED
  BY <1>1, <1>5, <1>6, <1>7, <1>8, <1>9, <1>10, <1>11, OverKeeps

\* The request is over, u was told with the end x.
LEMMA DoneKeeps ==
    ASSUME TransferInv, NEW u \in ToldType, told' = u, NEW x \in Ends, u.ends = <<x>>, u.tail \in Tails, EndOK(x)',
           ~u.back, u.shown <= src.got, PreviewTrue(u.preview, resp, src),
           phase' = "done", UNCHANGED <<req, cancelled, resp, peek, src, excess, stored>>
    PROVE  TransferInv'
<1>1. Typed' /\ Views' /\ TellsTrue' /\ StoredIsWhole'
  BY DEF TransferInv, Typed, Views, TellsTrue, Phases, StoredIsWhole
<1>2. Ended'
  BY DEF Ended
<1> QED
  BY <1>1, <1>2, Landing DEF Settled

LEMMA DropStreamKeeps == ASSUME TransferInv, drop_stream PROVE TransferInv'
<1>1. /\ phase = "handed" /\ phase' = "done" /\ reader' = None /\ told' = Said(told, drop_reader(reader))
      /\ UNCHANGED <<req, cancelled, retries, resp, peek, src, excess, stored, outcome>>
  BY DEF drop_stream, readUnchanged
<1>2. /\ ReaderOK(reader, resp, src, excess, told) /\ (reader.emitted = {} => Open(told))
      /\ reader.capture \in CaptureType \cup {None} /\ Unseen(reader.capture, told)
      /\ src \in SrcType /\ peek \in Nat /\ excess \in Nat /\ told \in ToldType
      /\ ~told.back /\ told.shown <= src.got /\ PreviewTrue(told.preview, resp, src)
      /\ req.streaming /\ told.last
  BY <1>1, ReadingFacts
<1>3. PICK u : u = Said(told, drop_reader(reader))
  OBVIOUS
<1>4. /\ u \in ToldType /\ Alike(told, u) /\ PreviewTrue(u.preview, resp, src)
      /\ \E x \in Ends : Closed(u, x) /\ (x = "Finished" => src.got = resp.len)
  <2>1. CASE reader.emitted = {}
    <3>1. /\ ReaderOK(reader, resp, src, excess, told) /\ Open(told) /\ Unseen(reader.capture, told)
          /\ src \in SrcType /\ excess \in Nat /\ told \in ToldType /\ PreviewTrue(told.preview, resp, src)
      BY <1>2, <2>1
    <3>2. /\ u \in ToldType /\ Alike(told, u) /\ PreviewTrue(u.preview, resp, src)
          /\ \E x \in Ends \ {"Failed"} : Closed(u, x) /\ (x = "Finished" => src.got = resp.len)
      <4>1. PICK r : r = reader
        OBVIOUS
      <4>2. PICK t \in ToldType : t = told
        BY <3>1
      <4>3. PICK s \in SrcType : s = src
        BY <3>1
      <4>4. PICK ex \in Nat : ex = excess
        BY <3>1
      <4>5. PICK p : p = resp
        OBVIOUS
      <4>6. /\ ReaderOK(r, p, s, ex, t) /\ r.emitted = {} /\ Open(t) /\ Unseen(r.capture, t)
            /\ PreviewTrue(t.preview, p, s) /\ u = Said(t, drop_reader(r))
        BY <1>3, <2>1, <3>1, <4>1, <4>2, <4>3, <4>4, <4>5
      <4>7. /\ u \in ToldType /\ Alike(t, u) /\ PreviewTrue(u.preview, p, s)
            /\ \E x \in Ends \ {"Failed"} : Closed(u, x) /\ (x = "Finished" => s.got = p.len)
        BY <4>6, ReaderDropped
      <4> QED
        BY <4>2, <4>3, <4>5, <4>7
    <3> QED
      BY <3>2
  <2>2. CASE reader.emitted # {}
    <3>1. PICK x \in Ends : Closed(told, x) /\ (x = "Finished" => src.got = resp.len)
      BY <1>1, <2>2 DEF TransferInv, ByPhase, Handed
    <3>2. PICK v : v = Said(told, capture_drop(reader.capture))
      OBVIOUS
    <3>3. /\ Short(capture_drop(reader.capture)) /\ v \in ToldType /\ Alike(told, v) /\ Closed(v, x)
          /\ v = told \/ (~v.preview.again /\ v.preview.cut)
      BY <1>2, <3>1, <3>2, DropReports
    <3>4. drop_reader(reader) = <<>> \o capture_drop(reader.capture)
      BY <2>2 DEF drop_reader
    <3>5. <<>> \o capture_drop(reader.capture) = capture_drop(reader.capture)
      BY <3>3 DEF Short
    <3>6. u = v
      BY <1>3, <3>2, <3>4, <3>5
    <3>7. PreviewTrue(v.preview, resp, src)
      BY <1>2, <3>3 DEF PreviewTrue
    <3> QED
      BY <3>1, <3>3, <3>6, <3>7
  <2> QED
    BY <2>1, <2>2
<1>5. PICK x \in Ends : Closed(u, x) /\ (x = "Finished" => src.got = resp.len)
  BY <1>4
<1>6. u.last /\ ~u.back /\ u.shown <= src.got
  BY <1>2, <1>4 DEF Alike
<1>7. u.ends = <<x>> /\ u.tail \in Tails
  BY <1>5, <1>6 DEF Closed
<1>8. EndOK(x)'
  BY <1>1, <1>2, <1>5 DEF EndOK
<1> QED
  BY <1>1, <1>3, <1>4, <1>6, <1>7, <1>8, DoneKeeps

LEMMA GiveUpKeeps == ASSUME TransferInv, give_up PROVE TransferInv'
<1>1. /\ phase = "judged" /\ told' = release(told) /\ phase' = (IF reader # None THEN "handed" ELSE "done")
      /\ UNCHANGED <<req, cancelled, retries, resp, peek, src, excess, stored, outcome, reader>>
  BY DEF give_up, readUnchanged
<1>2. told \in ToldType /\ ~told.back /\ told.shown <= src.got /\ PreviewTrue(told.preview, resp, src)
  BY DEF TransferInv, Typed, TellsTrue
<1>3. PICK u : u = release(told)
  OBVIOUS
<1>4. CASE reader = None
  <2>1. PICK x \in Ends : Closed(told, x) /\ EndOK(x)
    BY <1>1, <1>4 DEF TransferInv, ByPhase, Judged
  <2>2. u \in ToldType /\ u.last /\ Closed(u, x) /\ u.shown = told.shown /\ u.back = told.back /\ u.preview = told.preview
    BY <1>2, <1>3, <2>1, Released
  <2>3. u.ends = <<x>> /\ u.tail \in Tails
    BY <2>2 DEF Closed
  <2>4. EndOK(x)'
    BY <1>1, <2>1 DEF EndOK, WithinMax
  <2> QED
    BY <1>1, <1>2, <1>3, <1>4, <2>2, <2>3, <2>4, DoneKeeps
<1>5. CASE reader # None
  <2>1. ReaderOK(reader, resp, src, excess, told) /\ reader.emitted = {} /\ req.streaming
    BY <1>1, <1>5 DEF TransferInv, ByPhase, Judged, Reads
  <2>2. Open(told)
    BY <2>1 DEF ReaderOK
  <2>3. u \in ToldType /\ u.last /\ Open(u) /\ u.shown = told.shown /\ u.back = told.back /\ u.preview = told.preview
    BY <1>2, <1>3, <2>2, ReleasedOpen
  <2>4. ReaderOK(reader, resp, src, excess, u)
    BY <2>1, <2>3 DEF ReaderOK, Open
  <2>5. Handed'
    BY <1>1, <1>3, <2>1, <2>3, <2>4 DEF Handed, Reads
  <2>6. Typed' /\ Views' /\ TellsTrue' /\ StoredIsWhole'
    BY <1>1, <1>2, <1>3, <1>5, <2>3 DEF TransferInv, Typed, Views, TellsTrue, StoredIsWhole, Phases
  <2> QED
    BY <1>1, <1>5, <2>5, <2>6, Landing DEF Settled
<1> QED
  BY <1>4, <1>5

LEMMA TryAgainKeeps == ASSUME TransferInv, try_again PROVE TransferInv'
<1>1. PICK d : d = IF reader = None THEN told ELSE Said(told, drop_reader(reader))
  OBVIOUS
<1>2. /\ phase = "judged" /\ req.max_retries # None /\ told' = Heard([d EXCEPT !.held = None], Ev("Retrying"))
      /\ phase' = "waiting" /\ reader' = None
      /\ UNCHANGED <<req, cancelled, resp, peek, src, excess, stored>>
  BY <1>1 DEF try_again, Retried
<1>3. /\ told \in ToldType /\ ~told.back /\ told.shown <= src.got /\ PreviewTrue(told.preview, resp, src)
      /\ ~told.last /\ src \in SrcType /\ excess \in Nat
  BY <1>2 DEF TransferInv, Typed, TellsTrue, Views
<1>4. d \in ToldType /\ Alike(told, d) /\ PreviewTrue(d.preview, resp, src) /\ \E x \in Ends : Closed(d, x)
  <2>1. CASE reader = None
    BY <1>1, <1>2, <1>3, <2>1 DEF TransferInv, ByPhase, Judged, Alike
  <2>2. CASE reader # None
    <3>1. ReaderOK(reader, resp, src, excess, told) /\ reader.emitted = {}
      BY <1>2, <2>2 DEF TransferInv, ByPhase, Judged, Reads
    <3>2. Open(told) /\ Unseen(reader.capture, told)
      BY <3>1 DEF ReaderOK, Unseen
    <3> QED
      BY <1>1, <1>3, <2>2, <3>1, <3>2, ReaderDropped
  <2> QED
    BY <2>1, <2>2
<1>5. d.ends = <<>> /\ d.tail = <<>>
  BY <1>3, <1>4 DEF Closed, Alike
<1>6. PICK u : u = Heard([d EXCEPT !.held = None], Ev("Retrying"))
  OBVIOUS
<1>7. u \in ToldType /\ Open(u) /\ Alike(d, u) /\ u.preview = d.preview
  BY <1>4, <1>5, <1>6, Retrying
<1>8. ~u.back /\ u.shown <= src.got /\ ~u.last /\ PreviewTrue(u.preview, resp, src)
  BY <1>3, <1>4, <1>7 DEF Alike
<1>9. Typed' /\ Views' /\ TellsTrue' /\ StoredIsWhole'
  BY <1>2, <1>6, <1>7, <1>8 DEF TransferInv, Typed, Views, TellsTrue, StoredIsWhole, Phases
<1>10. Waits'
  BY <1>2, <1>6, <1>7 DEF Waits
<1> QED
  BY <1>2, <1>9, <1>10, Landing DEF Settled

LEMMA WaitCancelledKeeps == ASSUME TransferInv, wait_cancelled PROVE TransferInv'
<1>1. /\ phase = "waiting" /\ told' = Heard(told, Ev("Cancelled")) /\ phase' = "done" /\ outcome' = "cancelled"
      /\ UNCHANGED <<req, cancelled, retries, resp, peek, src, excess, stored, reader>>
  BY DEF wait_cancelled, readUnchanged
<1>2. told \in ToldType /\ ~told.back /\ told.shown <= src.got /\ PreviewTrue(told.preview, resp, src) /\ Open(told)
  BY <1>1 DEF TransferInv, Typed, TellsTrue, ByPhase, Waits
<1>3. "Cancelled" \in Ends
  BY DEF Ends
<1>4. PICK u : u = Heard(told, Ev("Cancelled"))
  OBVIOUS
<1>5. u \in ToldType /\ u.ends = <<"Cancelled">> /\ u.tail = <<>> /\ Alike(told, u) /\ u.preview = told.preview
  BY <1>2, <1>3, <1>4, HeardEnd
<1>6. ~u.back /\ u.shown <= src.got /\ u.tail \in Tails
  BY <1>2, <1>5 DEF Alike, Tails
<1>7. EndOK("Cancelled")'
  BY <1>1 DEF EndOK
<1> QED
  BY <1>1, <1>2, <1>3, <1>4, <1>5, <1>6, <1>7, DoneKeeps

LEMMA NextAttemptKeeps == ASSUME TransferInv, next_attempt PROVE TransferInv'
<1>1. /\ phase = "waiting" /\ told' = Said(new_view(told), <<Ev("Started")>>)
      /\ phase' = "asking" /\ src' = NoBody /\ peek' = 0 /\ excess' = 0
      /\ UNCHANGED <<req, cancelled, retries, reader, outcome, stored>>
  BY DEF next_attempt
<1>2. told \in ToldType /\ ~told.back /\ told.ends = <<>> /\ told.tail = <<>> /\ reader = None
  BY <1>1 DEF TransferInv, Typed, TellsTrue, ByPhase, Waits, Open
<1>3. PICK u : u = Said(new_view(told), <<Ev("Started")>>)
  OBVIOUS
<1>4. /\ u \in ToldType /\ Open(u) /\ u.preview = None /\ u.shown = 0 /\ ~u.back
      /\ u.last <=> req.max_retries = None
  BY <1>2, <1>3, Starting
<1>5. src' \in SrcType /\ src'.got = 0
  BY <1>1 DEF NoBody, SrcType
<1>6. TellsTrue'
  BY <1>1, <1>3, <1>4, <1>5 DEF TellsTrue, PreviewTrue
<1>7. Typed' /\ Views' /\ StoredIsWhole'
  BY <1>1, <1>3, <1>4, <1>5 DEF TransferInv, Typed, Views, StoredIsWhole, Phases
<1>8. Fresh'
  BY <1>1, <1>2, <1>3, <1>4 DEF Fresh
<1> QED
  BY <1>1, <1>6, <1>7, <1>8, Landing DEF Settled

-----------------------------------------------------------------------------
LEMMA Invariant == Spec => []TransferInv
<1>1. ASSUME TransferInv, [Next]_vars PROVE TransferInv'
  <2>1. CASE UNCHANGED vars
    <3>1. UNCHANGED <<req, cancelled, retries, phase, resp, src, peek, excess, reader, outcome, stored, told>>
      BY <2>1 DEF vars
    <3>2. Typed' /\ Views' /\ TellsTrue' /\ StoredIsWhole'
      BY <1>1, <3>1 DEF TransferInv, Typed, Views, TellsTrue, StoredIsWhole
    <3>3. ByPhase'
      BY <1>1, <3>1 DEF TransferInv, ByPhase, Fresh, Peeks, Buffers, Judged, Handed, Waits, Ended, Reads, EndOK, WithinMax
    <3> QED
      BY <3>2, <3>3 DEF TransferInv
  <2>2. CASE Cancel
    BY <1>1, <2>2, CancelKeeps
  <2>3. CASE Asking
    BY <1>1, <2>3, ChainFailsKeeps, CachedTopKeeps, NetworkTopKeeps DEF Asking
  <2>4. CASE Peeking
    BY <1>1, <2>4, PeekEndKeeps, PeekFailsKeeps, PeekChunkKeeps DEF Peeking
  <2>5. CASE ReadOn
    BY <1>1, <2>5, PollEndKeeps, PollCancelledKeeps, CutOffKeeps, DropStreamKeeps, PollFailsKeeps, PollBytesKeeps DEF ReadOn
  <2>6. CASE Retry
    BY <1>1, <2>6, GiveUpKeeps, TryAgainKeeps, WaitCancelledKeeps, NextAttemptKeeps DEF Retry
  <2> QED
    BY <1>1, <2>1, <2>2, <2>3, <2>4, <2>5, <2>6 DEF Next
<1> QED
  BY <1>1, Begins, PTL DEF Spec

\* In every phase the observer has no end yet, or exactly one that fits.
LEMMA OneEnd ==
    ASSUME TransferInv
    PROVE  /\ told.tail \in Tails
           /\ \/ told.ends = <<>> /\ phase # "done"
              \/ \E x \in Ends : /\ told.ends = <<x>> /\ (x = "Finished" => src.got = resp.len)
                                 /\ x = "Failed" => outcome # "ok" \/ req.streaming
<1>1. CASE phase \in {"asking", "peeking", "body", "waiting"}
  <2>1. Open(told)
    BY <1>1 DEF TransferInv, ByPhase, Fresh, Peeks, Buffers, Reads, ReaderOK, Waits
  <2> QED
    BY <1>1, <2>1 DEF Open, Tails
<1>2. CASE phase = "judged"
  <2>1. Open(told) \/ \E x \in Ends : Closed(told, x) /\ EndOK(x)
    BY <1>2 DEF TransferInv, ByPhase, Judged, Reads, ReaderOK
  <2> QED
    BY <1>2, <2>1 DEF Open, Closed, Tails, EndOK
<1>3. CASE phase = "handed"
  <2>1. req.streaming /\ told.last
    BY <1>3 DEF TransferInv, ByPhase, Handed
  <2>2. Open(told) \/ \E x \in Ends : Closed(told, x) /\ (x = "Finished" => src.got = resp.len)
    BY <1>3 DEF TransferInv, ByPhase, Handed, Reads, ReaderOK
  <2> QED
    BY <1>3, <2>1, <2>2 DEF Open, Closed, Tails
<1>4. CASE phase = "done"
  BY <1>4 DEF TransferInv, ByPhase, Ended, EndOK
<1> QED
  BY <1>1, <1>2, <1>3, <1>4 DEF TransferInv, Typed, Phases

\* For every peek window, body, limit, ceiling and number of retries: Finished is said only
\* of a body that came whole and every buffered answer has it, the cache holds only whole
\* bodies, and no buffered answer exceeds the request's limit (ProgressReader,
\* CacheCollector::commit, fetch_response_complete).
THEOREM BodiesAreWhole == Spec => []WholeOrNothing
<1>1. ASSUME TransferInv PROVE WholeOrNothing
  <2>1. told.ends = <<"Finished">> => src.got = resp.len
    BY <1>1, OneEnd
  <2>2. told.ends = <<"Failed">> => outcome # "ok" \/ req.streaming
    BY <1>1, OneEnd
  <2>3. phase = "done" /\ outcome = "ok" /\ ~req.streaming =>
            told.ends = <<"Finished">> /\ (~resp.cached => WithinMax(resp.len))
    BY <1>1 DEF TransferInv, ByPhase, Ended, EndOK
  <2>4. StoredIsWhole
    BY <1>1 DEF TransferInv
  <2> QED
    BY <2>1, <2>2, <2>3, <2>4 DEF WholeOrNothing, FinishedIsWhole, WithinLimit, WithinMax
<1> QED
  BY <1>1, Invariant, PTL

\* Over all the attempts of a request the observer is told exactly one end, a count that
\* only grows within an attempt and never passes what came in, and one preview that is
\* marked as truncated unless it is all (AttemptView, ProgressReader, CapturingBody).
THEOREM ObserverIsToldTrue == Spec => []ToldTrue
<1>1. ASSUME TransferInv PROVE ToldTrue
  <2>1. EndsOnce
    <3>1. told.tail \in {<<>>, <<"BodyPreview">>}
      BY <1>1, OneEnd DEF Tails
    <3>2. Len(<<>>) = 0 /\ \A x \in Ends : Len(<<x>>) = 1
      OBVIOUS
    <3>3. Len(told.ends) <= 1 /\ (phase = "done" => Len(told.ends) = 1)
      <4>1. CASE told.ends = <<>> /\ phase # "done"
        BY <4>1
      <4>2. CASE \E x \in Ends : told.ends = <<x>>
        BY <4>2
      <4> QED
        BY <1>1, <4>1, <4>2, OneEnd
    <3> QED
      BY <3>1, <3>3 DEF EndsOnce
  <2>2. CountGrows
    BY <1>1 DEF TransferInv, TellsTrue, CountGrows
  <2>3. PreviewHonest
    BY <1>1 DEF TransferInv, TellsTrue, PreviewTrue, PreviewHonest
  <2> QED
    BY <2>1, <2>2, <2>3 DEF ToldTrue
<1> QED
  BY <1>1, Invariant, PTL
=============================================================================
