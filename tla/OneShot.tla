------------------------------ MODULE OneShot ------------------------------
(***************************************************************************)
(* One call of the one-shot API (net/simple.rs, net/simple/native.rs):     *)
(* simple_get, its blocking twin sync_get, and sync_fetch, which hands out *)
(* the response whatever its status (http/response.rs).  The client of the *)
(* call follows redirects by allow_redirect; the body is decoded by        *)
(* net/decode.rs, as it is for the fetcher; ports are those of             *)
(* net/port_blocking.rs.                                                   *)
(***************************************************************************)
EXTENDS Integers, Sequences, SequencesExt

CONSTANTS Calls,              \* see SimpleCall
          Targets,            \* where a Location may point: see Url
          Responses,          \* see Response
          FileSizes,          \* what a file may hold by the time it is read
          BadPorts,           \* BAD_PORTS
          MaxSimpleRedirects, \* MAX_SIMPLE_REDIRECTS
          None

VARIABLE call

-----------------------------------------------------------------------------
(* Data.                                                                   *)

\* port: None for the scheme's own.
Url == [scheme: {"http", "https", "file", "ftp", "data"}, port: Nat \cup {None}]

\* What a caller may set in SimpleOptions, and which helper it calls.  headers: those written
\* by hand; cookies and user_agent: None, "good" or one that is no header value, "bad".
SimpleCall == [api: {"simple_get", "sync_get", "sync_fetch"}, url: Url, max_body: Nat,
               allowed_bad_ports: SUBSET Nat, headers: SUBSET {"user-agent", "cookie", "accept-encoding"},
               user_agent: {None, "good", "bad"}, cookies: {None, "good", "bad"}]

\* lines: the Content-Encoding field lines, each a sequence of members, None for one that is
\* not text.  announced: the codings they stand for, None when there are others than Coding.
\* sizes[i + 1]: the size of the body with the first i of the codings applied to it.
Response(status, lines, announced, length, applied, sizes) ==
    [status |-> status, lines |-> lines, announced |-> announced, length |-> length,
     applied |-> applied, sizes |-> sizes]

-----------------------------------------------------------------------------
(* Ports and redirects.                                                    *)

is_bad_port(port) == port \in BadPorts

should_block(url, allowed) ==
    /\ url.scheme \in {"http", "https"} /\ url.port # None
    /\ is_bad_port(url.port) /\ url.port \notin allowed

\* previous begins with the URL that was asked for.
allow_redirect(previous, next, allowed) ==
    /\ Len(previous) <= MaxSimpleRedirects
    /\ ~should_block(next, allowed)
    /\ next.scheme = "https" \/ (next.scheme = "http" /\ \A u \in ToSet(previous) : u.scheme # "https")

-----------------------------------------------------------------------------
(* Content codings.                                                        *)

Coding == {"gzip", "deflate", "br"}
\* A member without its case and its alias.
CodingOf(member) == IF member \in {"x-gzip", "GZIP"} THEN "gzip" ELSE member

codings_of_first_line(lines) ==
    IF lines = <<>> THEN <<>>
    ELSE IF lines[1] = None \/ ToSet(lines[1]) \ Coding # {} THEN None ELSE lines[1]

\* The codings in the order they were applied, None when one of them cannot be undone.
codings(lines) ==
    IF \E i \in DOMAIN lines : lines[i] = None THEN None
    ELSE LET named == [i \in DOMAIN FlattenSeq(lines) |-> CodingOf(FlattenSeq(lines)[i])]
             all   == SelectSeq(named, LAMBDA m : m \notin {"", "identity"})
         IN  IF ToSet(all) \subseteq Coding THEN all ELSE None

\* What comes out of a body of resp when these codings are undone, last applied first: the
\* bytes, and the codings still in them.  A body without bytes reaches no decoder; one that
\* is not coded as it says is refused (decode_error).
decode(resp, undo) ==
    LET applied == resp.applied
        left    == Len(applied) - Len(undo)
    IN  IF resp.sizes[Len(applied) + 1] = 0 THEN [bytes |-> 0, coded |-> <<>>]
        ELSE IF IsSuffix(undo, applied)
          THEN [bytes |-> resp.sizes[left + 1], coded |-> SubSeq(applied, 1, left)]
          ELSE None

\* The headers and body as the caller gets them; without the labels of what was undone.
decoded(resp) ==
    LET undo == codings(resp.lines)
    IN  IF undo \in {None, <<>>}
          THEN [lines |-> resp.lines, length |-> resp.length, body |-> decode(resp, <<>>)]
          ELSE [lines |-> <<>>, length |-> None, body |-> decode(resp, undo)]

\* The Content-Encoding in a Response of sync_fetch: the last of the lines that are text.
told(lines) ==
    LET text == SelectSeq(lines, LAMBDA line : line # None)
    IN  IF text = <<>> THEN None ELSE text[Len(text)]

-----------------------------------------------------------------------------
(* The call.  previous: the URLs asked, the response's own last.           *)

OneShotInit ==
    \E c \in Calls :
        call = [opts |-> c, phase |-> "start", previous |-> <<>>, resp |-> None, got |-> None,
                read |-> 0, why |-> None]

Fail(why) == call' = [call EXCEPT !.phase = "failed", !.why = why]

\* Who wrote each header the client sends, None when one of them cannot be sent: what was
\* written by hand wins, and is all that is looked at.
effective_headers(opts) ==
    LET Unless(name, value) == IF name \in opts.headers THEN "hand" ELSE value
        user_agent == Unless("user-agent", IF opts.user_agent = None THEN "default" ELSE opts.user_agent)
        cookie     == Unless("cookie", opts.cookies)
    IN  IF user_agent = "bad" \/ cookie = "bad" THEN None
        ELSE [user_agent |-> user_agent, cookie |-> cookie, accept_encoding |-> Unless("accept-encoding", "default")]

refuse_bad_port(url, opts) == should_block(url, opts.allowed_bad_ports)

\* simple_get_with and do_sync_fetch: by the scheme; a scheme nobody knows is refused by the
\* one and by the client of the other.
Start ==
    LET url == call.opts.url
    IN  /\ call.phase = "start"
        /\ IF url.scheme = "file" THEN call' = [call EXCEPT !.phase = "file"]
           ELSE IF url.scheme \notin {"http", "https"} THEN Fail("scheme")
           ELSE IF refuse_bad_port(url, call.opts) THEN Fail("bad port")
           ELSE IF effective_headers(call.opts) = None THEN Fail("headers")
           ELSE call' = [call EXCEPT !.phase = "sent", !.previous = <<url>>]

\* The file is read from the handle that was checked, whatever it grew to, up to one byte
\* more than allowed.
read_file(regular, size) ==
    /\ call.phase = "file"
    /\ IF ~regular THEN Fail("not a file")
       ELSE LET read == IF size > call.opts.max_body + 1 THEN call.opts.max_body + 1 ELSE size
            IN  IF read > call.opts.max_body THEN Fail("too large")
                ELSE LET whole == Response(200, <<>>, <<>>, None, <<>>, <<size>>)
                     IN  call' = [call EXCEPT !.phase = "done", !.read = read, !.resp = whole,
                                              !.got = decoded(whole)]

\* The client asks its redirect policy.
Redirect(next) ==
    /\ call.phase = "sent"
    /\ IF allow_redirect(call.previous, next, call.opts.allowed_bad_ports)
         THEN call' = [call EXCEPT !.previous = Append(@, next)]
         ELSE Fail("redirect")

Answer(resp) ==
    /\ call.phase = "sent"
    /\ IF call.opts.api # "sync_fetch" /\ resp.status \notin 200..299 THEN Fail("status")
       ELSE LET got  == decoded(resp)
                over == got.length # None /\ got.length > call.opts.max_body
            IN  call' = [call EXCEPT !.phase = IF over THEN "failed" ELSE "body", !.resp = resp,
                                     !.got = got, !.why = IF over THEN "too large" ELSE None]

\* A byte of the body, as it comes out of the decoders.
Chunk ==
    /\ call.phase = "body"
    /\ IF call.got.body = None THEN Fail("decode")
       ELSE /\ call.read < call.got.body.bytes
            /\ IF call.read + 1 > call.opts.max_body THEN Fail("too large")
               ELSE call' = [call EXCEPT !.read = @ + 1]

BodyEnd ==
    /\ call.phase = "body" /\ call.got.body # None /\ call.read = call.got.body.bytes
    /\ call' = [call EXCEPT !.phase = "done"]

\* The connection breaks, or the deadline for the whole call passes.
Break ==
    /\ call.phase \in {"sent", "body"}
    /\ Fail("transport")

OneShotNext ==
    \/ Start \/ Chunk \/ BodyEnd \/ Break
    \/ \E regular \in BOOLEAN, size \in FileSizes : read_file(regular, size)
    \/ \E next \in Targets : Redirect(next)
    \/ \E resp \in Responses : Answer(resp)

-----------------------------------------------------------------------------
(* Property.                                                               *)

\* A call asks only where it may, hands out only what is whole, and gives up on a body only
\* for what the caller would have got.  No URL of the chain has a bad port that was not
\* allowed, none goes back from https, and there are at most MaxSimpleRedirects redirects;
\* a body handed out is all of it, within max_body, decoded unless its codings are unknown,
\* in which case they are all still in it and sync_fetch says so (unless the header was not
\* text); and a body that fits is not refused for the size of its coded form (allow_redirect,
\* decoded, codings, simple_get_with, do_sync_fetch).
OneShotKept ==
    LET p      == call.previous
        r      == call.resp
        honest == r # None /\ r.announced = r.applied
    IN  /\ Len(p) <= MaxSimpleRedirects + 1
        /\ \A i \in DOMAIN p :
              /\ p[i].port \notin BadPorts \ call.opts.allowed_bad_ports
              /\ \A j \in 1..i : p[j].scheme = "https" => p[i].scheme = "https"
        /\ call.phase = "done" =>
              /\ call.read <= call.opts.max_body
              /\ call.opts.api # "sync_fetch" => r.status \in 200..299
              /\ honest => call.read = r.sizes[1]
              /\ r.announced = None =>
                    /\ call.read = r.sizes[Len(r.applied) + 1] /\ call.got.body.coded = r.applied
                    /\ \A i \in DOMAIN r.lines : r.lines[i] # None => told(call.got.lines) # None
        /\ call.phase = "failed" /\ honest =>
              /\ call.why # "decode"
              /\ call.why = "too large" => r.sizes[1] > call.opts.max_body
=============================================================================
