------------------------------ MODULE MCGateway ------------------------------
(***************************************************************************)
(* Instances of Gateway for TLC.  Latencies and costs are a few units: what *)
(* matters is which sums fit under a cap.                                   *)
(***************************************************************************)
EXTENDS Gateway

\* Local is slower than remote at first.
MCInitEstimate == [b \in Backends |-> IF b = "local" THEN 2 ELSE 1]
MCEstimates == {1, 2}

\* An SLA only remote meets (at first), and one both backends meet.
MCSlas == {1, 9}
MCWideSla == {9}

MCPrompt(q, f, n) == [quality |-> q, fast |-> f, words |-> n]
MCThreshold == 2

\* One request of each tier, for the runs that are not about the tier.
MCTiers ==
    <<[tier |-> "FAST", prompt |-> MCPrompt(FALSE, FALSE, 1)],
      [tier |-> "auto", prompt |-> MCPrompt(TRUE, FALSE, 1)]>>

\* Every way to a tier: the client's word against the prompt's, both signals,
\* either, and none in a short and in a long prompt.
MCAsks ==
    <<[tier |-> "FAST", prompt |-> MCPrompt(TRUE, FALSE, 2)],
      [tier |-> "QUALITY", prompt |-> MCPrompt(FALSE, TRUE, 1)],
      [tier |-> "auto", prompt |-> MCPrompt(TRUE, TRUE, 1)],
      [tier |-> "auto", prompt |-> MCPrompt(TRUE, FALSE, 1)],
      [tier |-> "auto", prompt |-> MCPrompt(FALSE, TRUE, 2)],
      [tier |-> "auto", prompt |-> MCPrompt(FALSE, FALSE, 2)],
      [tier |-> "auto", prompt |-> MCPrompt(FALSE, FALSE, 1)]>>

MCLocalLatencies == {2}

\* A remote call as reserved, and one that costs more than was reserved.
MCRemoteResults == {<<4, 1>>, <<6, 2>>}

\* Remote calls that never cost more than was reserved.
MCRemoteWithin == {<<5, 1>>, <<4, 2>>}
=============================================================================
