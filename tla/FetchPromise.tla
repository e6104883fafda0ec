---------------------------- MODULE FetchPromise ----------------------------
(***************************************************************************)
(* What the fetcher promises a caller of Fetcher::submit, whatever it      *)
(* shares, coalesces or tears down behind the call: one answer, of the     *)
(* kind asked for, and a cancellation only where there is a reason for it. *)
(***************************************************************************)
EXTENDS Naturals

CONSTANTS Requests, Streaming, Runs, NoAnswer

Answers == {"buffered", "stream", "error", "aborted", "caller", "shutdown"}

VARIABLES asked,    \* the requests submitted so far
          token,    \* the callers that cancelled
          down,     \* the runs whose shutdown token fired
          answer    \* what each caller was sent, NoAnswer before that

vars == <<asked, token, down, answer>>

Init ==
    /\ asked = {} /\ token = {} /\ down = {}
    /\ answer = [r \in Requests |-> NoAnswer]

Justified(r, a) ==
    /\ a = "caller" => r \in token                \* only its own cancellation
    /\ a \in {"aborted", "shutdown"} => down # {} \* only a fetcher that stopped
    /\ a = "stream" => r \in Streaming            \* a stream only if asked for

Ask(r)    == asked' = asked \cup {r} /\ UNCHANGED <<token, down, answer>>
Cancel(r) == r \in asked /\ token' = token \cup {r} /\ UNCHANGED <<asked, down, answer>>
Stop(g)   == down' = down \cup {g} /\ UNCHANGED <<asked, token, answer>>

\* Answering a set of callers at once; a caller that asks a stopped fetcher is
\* answered as it asks.
Answer(S) ==
    /\ S # {} /\ \A r \in S : answer[r] = NoAnswer
    /\ \E f \in [S -> Answers] :
          /\ \A r \in S : Justified(r, f[r])
          /\ answer' = [r \in Requests |-> IF r \in S THEN f[r] ELSE answer[r]]
    /\ asked' \in {asked, asked \cup S} /\ S \subseteq asked'
    /\ UNCHANGED <<token, down>>

Next ==
    \/ \E r \in Requests : Ask(r) \/ Cancel(r)
    \/ \E g \in Runs : Stop(g)
    \/ \E S \in SUBSET Requests : Answer(S)

Spec == Init /\ [][Next]_vars
=============================================================================
