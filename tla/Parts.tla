------------------------------- MODULE Parts -------------------------------
(***************************************************************************)
(* What retain leaves of a list: its members at some of the indices, in    *)
(* their order.  Said without SelectSeq, which proofs cannot look into.    *)
(***************************************************************************)
EXTENDS Integers, Sequences, FiniteSets

\* The indices in ascending order.
Ordered(keep) == CHOOSE f \in [1..Cardinality(keep) -> keep] : \A m, n \in DOMAIN f : m < n => f[m] < f[n]

Retained(seq, keep) == [n \in 1..Cardinality(keep) |-> seq[Ordered(keep)[n]]]
=============================================================================
