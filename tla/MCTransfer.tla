----------------------------- MODULE MCTransfer -----------------------------
(* Transfer on small instances.                                            *)
EXTENDS Transfer

\* Buffered and streamed, retried once or not at all; the body without a limit, with one
\* inside the peek or one beyond it; the observer captures none of it, two units, or asks for no preview.
SomeRequests ==
    {r \in [streaming: BOOLEAN, max_retries: {None, 1}, on_timeout: BOOLEAN, max_bytes: {None, 0, 2},
            capture: {None, 0, 2}] :
        /\ r.max_retries = None => ~r.on_timeout
        /\ r.max_bytes = None \/ r.capture = None}
=============================================================================
