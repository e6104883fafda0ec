---------------------------- MODULE MCScheduler -----------------------------
(* Scheduler on small instances.                                           *)
EXTENDS Scheduler

CONSTANTS h1, h2, bg, idle

\* Two High requests, a revalidation in Low (as revalidate_later queues it), one Idle.
Mixed == [r \in Requests |-> CASE r \in {h1, h2} -> 0 [] r = bg -> 2 [] OTHER -> 3]
=============================================================================
