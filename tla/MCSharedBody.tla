---------------------------- MODULE MCSharedBody ----------------------------
(* SharedBody and its producers, Pump among them, on small instances.      *)
EXTENDS Pump

CONSTANTS s1, s2, s3

\* One subscriber of each kind.
EachKind == [s \in Subs |-> CASE s = s1 -> "stream" [] s = s2 -> "lossless" [] OTHER -> "live"]

\* A producer that does not wait treats a lossless subscriber as any other: with the pump
\* the lossless one stays away.
SlimNext == PumpNext /\ (~waits => stream'[s2] = "none")

SlimSpec == PumpInit /\ [][SlimNext]_allVars /\ PumpFairness /\ WF_allVars(TeeStep)
=============================================================================
