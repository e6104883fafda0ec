---------------------------- MODULE MCCoalescing ----------------------------
(* Coalescing on small instances.                                          *)
EXTENDS Coalescing, TLC

CONSTANTS r1, r2, r3, k1

\* All requests are for one key: the case coalescing is about.
OneKey == [r \in Requests |-> k1]

\* The requests that ask alike are interchangeable.
Alike == Permutations(Requests \ Streaming)
=============================================================================
