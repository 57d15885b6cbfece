--------------------------- MODULE MCLatencyTracker ---------------------------
(***************************************************************************)
(* An instance of LatencyTracker for TLC.                                   *)
(***************************************************************************)
EXTENDS LatencyTracker

\* Distinct seeds, one between the samples and one below them.
MCSeed == [b \in Backends |-> IF b = "local" THEN 3 ELSE 1]

\* A fast answer, a normal one and a spike.
MCSamples == {1, 4, 9}
=============================================================================
