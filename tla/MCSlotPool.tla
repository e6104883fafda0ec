----------------------------- MODULE MCSlotPool -----------------------------
(* SlotPool on small instances.                                            *)
EXTENDS SlotPool, TLC

CONSTANTS t1, t2, t3, o1, o2

Symmetry == Permutations(Tickets) \cup Permutations(Origins)

\* Any fetch may ask for any origin at any priority.
AnyAsk == Tickets \X Origins \X Lanes
=============================================================================
