------------------------------ MODULE Transfer ------------------------------
(***************************************************************************)
(* One fetch from its first attempt to the end of its body                 *)
(* (net/fetch.rs, net/retry.rs, net/body_capture.rs, the collector of      *)
(* net/fetch/native.rs).  An attempt sends the request, reads the first    *)
(* bytes of the body (the peek) and leaves the rest to a ProgressReader,   *)
(* which the buffered loop reads to the end and a streaming caller reads   *)
(* as far as it likes.  with_retries shows the attempt an AttemptView of   *)
(* the observer, which holds back the attempt's end until it is known to   *)
(* be the last.                                                            *)
(*                                                                         *)
(* The bytes of a body are counted in small units.  What the redirect      *)
(* chain does (RedirectChain) is one step here: an error or a response.    *)
(***************************************************************************)
EXTENDS Integers, Sequences

CONSTANTS PEEK_MAX, MaxBody,      \* the peek window, the longest body
          max_entry_bytes,        \* the cache's ceiling on a body
          Requests,               \* what is asked for, see RequestType
          None

RequestType == [streaming: BOOLEAN, max_retries: Nat \cup {None}, on_timeout: BOOLEAN,
                max_bytes: Nat \cup {None}, capture: Nat \cup {None}]

ASSUME TransferAssumption ==
    /\ PEEK_MAX \in Nat \ {0} /\ MaxBody \in Nat /\ max_entry_bytes \in Nat
    /\ Requests \subseteq RequestType

VARIABLES
    req,        \* the request, and the policy in force for it (None: it is not retried)
    cancelled,  \* its cancellation token
    retries,
    phase,      \* asking, peeking, body (the buffered loop), judged (the attempt is over), waiting (to retry),
                \* handed (a streaming caller has the reader), done
    resp,       \* the response of this attempt
    src,        \* its body: bytes the client has given, and whether it said the body was over
    peek, excess,
    reader,     \* the ProgressReader, with what is below it (None: there is none)
    outcome,    \* of the attempt, then of the request
    stored,     \* what was written to the cache: None or the bytes of the body
    told        \* the AttemptView (held, last) and what the observer behind it was told

vars == <<req, cancelled, retries, phase, resp, src, peek, excess, reader, outcome, stored, told>>

Ends == {"Finished", "Failed", "Cancelled"}

\* NetError: "transport" breaks off (connecting, reading, an Io error), "refused" is an error
\* that no policy retries, the size limit's Read among them.
Errors == {"cancelled", "timeout", "transport", "refused"}
Outcomes == Errors \cup {"ok"}

\* A response: a stored one, or off the wire.  len is what its body holds, declared the
\* Content-Length left after decoding; the client yields exactly a declared length or
\* breaks off, and nothing for a bodiless response, whatever that declares.
Responses ==
    {r \in [cached: BOOLEAN, bodiless: BOOLEAN, len: 0..MaxBody, declared: (0..MaxBody) \cup {None},
            store: BOOLEAN, status: {"fine", "retry", "retry_late"}] :
        /\ r.bodiless => r.len = 0
        /\ ~r.bodiless => r.declared \in {None, r.len}
        /\ r.cached => r.declared = r.len /\ ~r.bodiless /\ ~r.store}

NoBody == [got |-> 0, over |-> FALSE]

-----------------------------------------------------------------------------
(* Events.                                                                 *)

Ev(name) == [is |-> name, bytes |-> 0, cut |-> FALSE]
Progress(n) == [is |-> "Progress", bytes |-> n, cut |-> FALSE]
BodyPreview(n, cut) == [is |-> "BodyPreview", bytes |-> n, cut |-> cut]

is_terminal(e) == e.is \in Ends

PreviewType == [bytes: Nat, cut: BOOLEAN, again: BOOLEAN]

\* What the observer keeps of an event: the ends, what came after one (tail), and of this
\* attempt the last count, whether a count went back, and the preview.
Heard(t, e) ==
    LET after == IF t.ends = <<>> THEN t.tail ELSE Append(t.tail, e.is)
    IN  CASE is_terminal(e)      -> [t EXCEPT !.tail = after, !.ends = Append(@, e.is)]
          [] e.is = "Started"     -> [t EXCEPT !.tail = after, !.shown = 0, !.preview = None]
          [] e.is = "Progress"    -> [t EXCEPT !.tail = after, !.shown = e.bytes,
                                               !.back = @ \/ e.bytes <= t.shown]
          [] e.is = "BodyPreview" -> [t EXCEPT !.tail = after,
                                               !.preview = [bytes |-> e.bytes, cut |-> e.cut, again |-> t.preview # None]]
          [] OTHER                -> [t EXCEPT !.tail = after]

on_event_unheld(t, e) == Heard(t, e)

\* AttemptView::on_event: an end is held until this attempt is known to be the last.
on_event(t, e) ==
    IF is_terminal(e) /\ ~t.last THEN [t EXCEPT !.held = e] ELSE Heard(t, e)

\* The events es, one after the other.
Said(t, es) ==
    LET after[n \in 0..Len(es)] == IF n = 0 THEN t ELSE on_event(after[n - 1], es[n])
    IN  after[Len(es)]

\* AttemptView::release: this attempt is the last, its end is passed on.
release(t) ==
    LET open == [t EXCEPT !.last = TRUE, !.held = None]
    IN  IF t.held = None THEN open ELSE Heard(open, t.held)

\* A view for a new attempt.  Without a policy the attempt reports to the observer itself.
new_view(t) == [t EXCEPT !.held = None, !.last = (req.max_retries = None)]

Untold == [held |-> None, last |-> FALSE, ends |-> <<>>, tail |-> <<>>, shown |-> 0, back |-> FALSE,
           preview |-> None]

-----------------------------------------------------------------------------
(* The reader of the rest of a body: a ProgressReader over a CapturingBody.*)

CaptureType == [taken: Nat, remaining: Nat, truncated: BOOLEAN, reported: BOOLEAN]
ReaderType ==
    [received: Nat, expected_length: Nat \cup {None}, emitted: SUBSET Ends, pending: Nat,
     capture: CaptureType \cup {None}, cache: Nat \cup {None}]

\* An Option that is None is none of its values.
ASSUME NoneAssumption ==
    /\ None \notin Nat /\ None \notin Outcomes /\ None \notin {Ev(x) : x \in Ends}
    /\ None \notin PreviewType /\ None \notin CaptureType /\ None \notin ReaderType

smaller(a, b) == IF a <= b THEN a ELSE b

\* CapturingBody::new, seeded with the n bytes of the peek.
capture_new(limit, n) ==
    IF limit = None THEN None
    ELSE [taken |-> smaller(n, limit), remaining |-> limit - smaller(n, limit),
          truncated |-> smaller(n, limit) < n, reported |-> FALSE]

\* CapturingBody::absorb: a chunk of n bytes passes.
absorb(c, n) ==
    IF c = None THEN None
    ELSE LET take == smaller(n, c.remaining)
         IN  [c EXCEPT !.taken = @ + take, !.remaining = @ - take, !.truncated = @ \/ take < n]

\* CapturingBody::report: the preview is reported once.
report(c) == IF c = None \/ c.reported THEN <<>> ELSE <<BodyPreview(c.taken, c.truncated)>>
reported(c) == IF c = None THEN None ELSE [c EXCEPT !.reported = TRUE]

\* Its drop: whoever stops early leaves a partial body.
capture_drop(c) == report(IF c = None THEN None ELSE [c EXCEPT !.truncated = TRUE])

enforce_limit(n) == IF n > max_entry_bytes THEN None ELSE n

\* CacheCollector::new, for a response the cache accepted and that does not declare too much.
collector(r, n) ==
    IF r.store /\ (r.declared = None \/ r.declared <= max_entry_bytes) THEN enforce_limit(n) ELSE None

feed(c, n) == IF c = None THEN None ELSE enforce_limit(c + n)

expected_peeked(r, ended, n) == IF r.declared = None THEN n ELSE r.declared

\* A body that ended inside the peek is known whole, whatever its headers say.
expected_length(r, ended, n) == IF ended THEN n ELSE r.declared

NewReader(expected, delivered, cap, coll) ==
    [received |-> delivered, expected_length |-> expected, emitted |-> {}, pending |-> 0,
     capture |-> cap, cache |-> coll]

\* Drop for ProgressReader: a body that arrived whole is finished, any other is given up,
\* and then what is below it is dropped.
Complete(r) == r.expected_length # None /\ r.received >= r.expected_length
drop_reader(r) ==
    (IF r.emitted # {} THEN <<>> ELSE <<Ev(IF Complete(r) THEN "Finished" ELSE "Cancelled")>>)
        \o capture_drop(r.capture)

-----------------------------------------------------------------------------
Init ==
    /\ req \in Requests
    /\ cancelled = FALSE /\ retries = 0 /\ phase = "asking"
    /\ resp = None /\ src = NoBody /\ peek = 0 /\ excess = 0
    /\ reader = None /\ outcome = None /\ stored = None
    /\ told = Said(new_view(Untold), <<Ev("Started")>>)

\* The caller, the fetcher or the host gives the request up.
Cancel ==
    /\ ~cancelled /\ phase # "done"
    /\ cancelled' = TRUE
    /\ UNCHANGED <<req, retries, phase, resp, src, peek, excess, reader, outcome, stored, told>>

\* The attempt is over with outcome o, after reporting es; the reader (if any) is gone.
Over(o, es) ==
    /\ phase' = "judged" /\ outcome' = o /\ reader' = None
    /\ told' = Said(told, es)
    /\ UNCHANGED <<req, cancelled, retries, resp, src, peek, excess>>

\* fetch_response_top reports what failed before there is a reader.
failed(e) == IF e = "cancelled" THEN <<>> ELSE <<Ev("Failed")>>

\* get_with_redirects ends in an error; a cancellation it reports itself.
ChainFails ==
    /\ phase = "asking"
    /\ \E e \in Errors :
          /\ e = "cancelled" => cancelled
          /\ Over(e, IF e = "cancelled" THEN <<Ev("Cancelled")>> ELSE failed(e))
    /\ UNCHANGED stored

\* The reader is there: the buffered loop reads it, a streaming caller gets it if
\* with_retries does not try again.
TopDone(r, es) ==
    /\ reader' = r /\ told' = Said(told, es)
    /\ phase' = (IF req.streaming THEN "judged" ELSE "body")
    /\ outcome' = (IF req.streaming THEN "ok" ELSE None)

\* A stored response is split into the peek and the rest, which is all there; its preview
\* is cut from it at once.
cached_top(r) ==
    /\ phase = "asking" /\ r.cached
    /\ LET n   == smaller(r.len, PEEK_MAX)
           cap == IF req.capture = None THEN <<>>
                  ELSE <<BodyPreview(smaller(r.len, req.capture), req.capture < r.len)>>
       IN  /\ resp' = r /\ peek' = n /\ src' = [got |-> n, over |-> FALSE]
           /\ TopDone(NewReader(r.len, n, None, None), cap)
    /\ UNCHANGED <<req, cancelled, retries, excess, stored>>

\* The body limit of the request.
TooLong(n) == req.max_bytes # None /\ n > req.max_bytes

\* A response off the wire: one that declares too much is refused before its body.
network_top(r) ==
    /\ phase = "asking" /\ ~r.cached
    /\ resp' = r
    /\ IF ~r.bodiless /\ r.declared # None /\ TooLong(r.declared)
         THEN phase' = "judged" /\ outcome' = "refused" /\ told' = Said(told, failed("refused"))
         ELSE phase' = "peeking" /\ UNCHANGED <<outcome, told>>
    /\ UNCHANGED <<req, cancelled, retries, src, peek, excess, reader, stored>>

\* The peek is full, or the body over: a peek beyond the limit is refused, else the rest
\* of the body gets its reader.
PeekDone(p, ended, es) ==
    IF TooLong(p)
      THEN /\ phase' = "judged" /\ outcome' = "refused" /\ UNCHANGED reader
           /\ told' = Said(told, es \o failed("refused"))
      ELSE TopDone(NewReader(expected_length(resp, ended, p), p,
                             capture_new(req.capture, p), collector(resp, p)), es)

\* The count is of what goes to the caller: the peek, not the excess the reader hands on.
peek_count(p, ex) == p

\* A chunk of n bytes.  What does not fit in the peek is put back in front of the body.
peek_chunk(n) ==
    /\ phase = "peeking" /\ n <= resp.len - src.got
    /\ LET p  == smaller(peek + n, PEEK_MAX)
           ex == peek + n - p
           es == <<Progress(peek_count(p, ex))>>
       IN  /\ src' = [src EXCEPT !.got = @ + n] /\ peek' = p /\ excess' = ex
           /\ IF p = PEEK_MAX
                THEN PeekDone(p, FALSE, es)
                ELSE told' = Said(told, es) /\ UNCHANGED <<phase, reader, outcome>>
    /\ UNCHANGED <<req, cancelled, retries, resp, stored>>

peek_end ==
    /\ phase = "peeking" /\ src.got = resp.len
    /\ src' = [src EXCEPT !.over = TRUE]
    /\ PeekDone(peek, TRUE, <<>>)
    /\ UNCHANGED <<req, cancelled, retries, resp, peek, excess, stored>>

\* The body breaks off or cannot be decoded, stalls or takes too long, or is given up,
\* while the peek is read.
peek_fails ==
    /\ phase = "peeking"
    /\ \/ \E e \in Errors \ {"cancelled"} : Over(e, failed(e))
       \/ cancelled /\ Over("cancelled", <<Ev("Cancelled")>>)
    /\ UNCHANGED stored

-----------------------------------------------------------------------------
(* Reading on: poll_read, called by the buffered loop or by the caller of a *)
(* stream.                                                                  *)

\* An end or an error is the last thing the callers ask a reader for.
Reading == phase \in {"body", "handed"} /\ reader.emitted = {}

\* The buffered loop returns, and the reader goes.
Return(o, r, es) ==
    /\ phase' = "judged" /\ outcome' = o /\ reader' = None
    /\ told' = Said(told, es \o drop_reader(r))

\* What a poll leaves: the buffered loop goes on unless it has its outcome o, the caller of
\* a stream keeps the reader.
Polled(o, r, es) ==
    IF phase = "body" /\ o # None
      THEN Return(o, r, es)
      ELSE reader' = r /\ told' = Said(told, es) /\ UNCHANGED <<phase, outcome>>

readUnchanged == <<req, cancelled, retries, resp, peek>>

\* The next chunk of the stream: the excess in front, then what the client gives.
NextChunk(n) == IF excess > 0 THEN n = excess ELSE n <= resp.len - src.got

\* Bytes: a new chunk when the last one is used up, of which m bytes are handed on.  The
\* buffered loop gives up a body that grows past its limit.
poll_read_bytes(n, m) ==
    /\ Reading /\ ~cancelled /\ m <= n
    /\ IF reader.pending > 0 THEN n = reader.pending ELSE NextChunk(n)
    /\ LET fresh == reader.pending = 0
           r == [reader EXCEPT !.pending = n - m, !.received = @ + m,
                               !.capture = IF fresh THEN absorb(@, n) ELSE @,
                               !.cache = feed(@, m)]
       IN  /\ src' = [src EXCEPT !.got = IF fresh /\ excess = 0 THEN @ + n ELSE @]
           /\ excess' = IF fresh THEN 0 ELSE excess
           /\ Polled(IF TooLong(r.received) THEN "refused" ELSE None, r, <<Progress(r.received)>>)
    /\ UNCHANGED <<readUnchanged, stored>>

\* The end of the body: the preview, the write to the cache, and Finished.
poll_read_end ==
    /\ Reading /\ ~cancelled
    /\ reader.pending = 0 /\ excess = 0 /\ src.got = resp.len
    /\ src' = [src EXCEPT !.over = TRUE]
    /\ stored' = IF reader.cache = None THEN stored ELSE [bytes |-> reader.cache, of |-> resp.len]
    /\ Polled("ok", [reader EXCEPT !.emitted = {"Finished"}, !.capture = reported(@), !.cache = None],
              report(reader.capture) \o <<Ev("Finished")>>)
    /\ UNCHANGED <<readUnchanged, excess>>

\* The body breaks off, or cannot be decoded.  Not reported by a poll that was cancelled
\* meanwhile.
poll_read_fails(e) ==
    /\ Reading /\ ~resp.cached
    /\ reader.pending = 0 /\ excess = 0
    /\ LET end == IF cancelled THEN {} ELSE {"Failed"}
       IN  /\ phase = "handed" => end # {}
           /\ Polled(e, [reader EXCEPT !.emitted = end, !.capture = reported(@)],
                     report(reader.capture) \o (IF cancelled THEN <<>> ELSE <<Ev("Failed")>>))
    /\ UNCHANGED <<readUnchanged, src, excess, stored>>

poll_read_cancelled ==
    /\ Reading /\ cancelled
    /\ Polled("cancelled", [reader EXCEPT !.emitted = {"Cancelled"}], <<Ev("Cancelled")>>)
    /\ UNCHANGED <<readUnchanged, src, excess, stored>>

\* The buffered loop is cancelled, or its read stalls or takes too long.
complete_cut_off ==
    /\ phase = "body"
    /\ \/ cancelled /\ Return("cancelled", reader, <<>>)
       \/ Return("timeout", reader, <<>>)
    /\ UNCHANGED <<readUnchanged, src, excess, stored>>

\* The caller of a stream is done with it, or its own limits are (SharedBody).
drop_stream ==
    /\ phase = "handed"
    /\ phase' = "done" /\ reader' = None /\ told' = Said(told, drop_reader(reader))
    /\ UNCHANGED <<readUnchanged, outcome, src, excess, stored>>

-----------------------------------------------------------------------------
(* with_retries.                                                           *)

retries_error(e) == e = "transport" \/ (e = "timeout" /\ req.on_timeout)
retries_status(s) == s # "fine"

\* A Retry-After beyond max_backoff stops the retries.
backoff_allows == outcome = "ok" => resp.status # "retry_late"

Retried ==
    /\ req.max_retries # None
    /\ IF outcome = "ok" THEN retries_status(resp.status) ELSE retries_error(outcome)
    /\ retries < req.max_retries
    /\ backoff_allows

give_up ==
    /\ phase = "judged" /\ ~Retried
    /\ told' = release(told)
    /\ phase' = (IF reader # None THEN "handed" ELSE "done")
    /\ UNCHANGED <<readUnchanged, reader, outcome, src, excess, stored>>

try_again_uncounted ==
    /\ phase = "judged" /\ Retried
    /\ LET dropped == IF reader = None THEN told ELSE Said(told, drop_reader(reader))
       IN  told' = Heard([dropped EXCEPT !.held = None], Ev("Retrying"))
    /\ phase' = "waiting" /\ outcome' = None /\ reader' = None
    /\ UNCHANGED <<req, cancelled, retries, resp, peek, src, excess, stored>>

\* The result and the view are dropped: the end of the attempt, its own or that of its
\* reader dropped here, goes with the view.
try_again ==
    /\ phase = "judged" /\ Retried
    /\ LET dropped == IF reader = None THEN told ELSE Said(told, drop_reader(reader))
       IN  told' = Heard([dropped EXCEPT !.held = None], Ev("Retrying"))
    /\ retries' = retries + 1
    /\ phase' = "waiting" /\ outcome' = None /\ reader' = None
    /\ UNCHANGED <<req, cancelled, resp, peek, src, excess, stored>>

wait_cancelled ==
    /\ phase = "waiting" /\ cancelled
    /\ told' = Heard(told, Ev("Cancelled"))
    /\ phase' = "done" /\ outcome' = "cancelled"
    /\ UNCHANGED <<readUnchanged, reader, src, excess, stored>>

next_attempt ==
    /\ phase = "waiting"
    /\ told' = Said(new_view(told), <<Ev("Started")>>)
    /\ phase' = "asking" /\ resp' = None /\ src' = NoBody /\ peek' = 0 /\ excess' = 0
    /\ UNCHANGED <<req, cancelled, retries, reader, outcome, stored>>

-----------------------------------------------------------------------------
Asking == ChainFails \/ \E r \in Responses : cached_top(r) \/ network_top(r)
Peeking == peek_end \/ peek_fails \/ \E n \in 1..MaxBody : peek_chunk(n)
ReadOn ==
    \/ poll_read_end \/ poll_read_cancelled \/ complete_cut_off \/ drop_stream
    \/ \E e \in {"transport", "refused"} : poll_read_fails(e)
    \/ \E n, m \in 1..MaxBody : poll_read_bytes(n, m)
Retry == give_up \/ try_again \/ wait_cancelled \/ next_attempt

Next == Cancel \/ Asking \/ Peeking \/ ReadOn \/ Retry

Spec == Init /\ [][Next]_vars

\* The client answers or times out, a body moves or is idle for too long, a wait is over,
\* and the caller of a stream reads it or lets it go.
FairSpec == Spec /\ WF_vars(Asking \/ Peeking \/ ReadOn \/ Retry)

-----------------------------------------------------------------------------
(* What the observer and the cache can rely on.                            *)

\* The observer hears exactly one end, whatever the attempts before the last one reported
\* and however the reader was let go; after it at most the preview of a body given up
\* (which Lifecycle keeps from it).
EndsOnce ==
    /\ Len(told.ends) <= 1 /\ told.tail \in {<<>>, <<"BodyPreview">>}
    /\ phase = "done" => Len(told.ends) = 1

\* Finished is said only of a body that came whole, and every buffered answer has it; a
\* failure is said only of a request that was not answered, or of a stream handed on.
FinishedIsWhole ==
    /\ told.ends = <<"Finished">> => src.got = resp.len
    /\ phase = "done" /\ outcome = "ok" /\ ~req.streaming => told.ends = <<"Finished">>
    /\ told.ends = <<"Failed">> => outcome # "ok" \/ req.streaming

\* Only a complete body is written to the cache, with every byte from its first, and never
\* one over the cache's ceiling.
StoredIsWhole == stored # None => stored.bytes = stored.of /\ stored.bytes <= max_entry_bytes

\* Within an attempt the count of bytes only grows, over the seam between the peek and the
\* reader as well, and never passes what came in.
CountGrows == ~told.back /\ (phase # "waiting" => told.shown <= src.got)

\* A preview is reported once per attempt, and one that is not marked as truncated holds
\* all that came of the body: all of it, unless it broke off.
PreviewHonest ==
    told.preview # None =>
        /\ ~told.preview.again
        /\ ~told.preview.cut => told.preview.bytes = (IF resp.cached THEN resp.len ELSE src.got)

\* A buffered answer off the wire is within the request's limit, whether the body declared
\* its length, fitted in the peek or grew past it later.
WithinLimit ==
    phase = "done" /\ outcome = "ok" /\ ~req.streaming /\ ~resp.cached /\ req.max_bytes # None
        => resp.len <= req.max_bytes

\* A body is never passed off as whole, by Finished or by an entry of the cache, and never
\* exceeds what was asked for (ProgressReader at its end, CacheCollector::commit,
\* fetch_response_complete).
WholeOrNothing == FinishedIsWhole /\ StoredIsWhole /\ WithinLimit

\* What the observer is told is true: one end over all the attempts of a request, a count of
\* bytes that only grows, and one preview that says whether it is all (AttemptView,
\* ProgressReader, CapturingBody).
ToldTrue == EndsOnce /\ CountGrows /\ PreviewHonest

\* Every request ends: the retries run out, and whoever reads comes to an end or lets go.
EveryFetchEnds == <>(phase = "done")

\* "The request failed.  Emitted once for any request that ends in an error, whatever went
\* wrong and wherever it went wrong" (net/events.rs).
ErrorIsFailed ==
    phase = "done" /\ outcome \in Errors \ {"cancelled"} => told.ends = <<"Failed">>
=============================================================================
