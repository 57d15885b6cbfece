--------------------------- MODULE MCBudgetManager ---------------------------
(***************************************************************************)
(* Instances of BudgetManager for TLC.                                      *)
(***************************************************************************)
EXTENDS BudgetManager

\* A local call, two remote ones, and the two argument errors.
MCOffers == {<<0, 4>>, <<10, 4>>, <<10, 7>>, <<-1, 4>>, <<0, 0>>}

\* A local result, a remote one as reserved, one at the settlement tolerance
\* that also takes longer, and one past the tolerance.
MCActuals == {<<0, 3>>, <<10, 4>>, <<11, 6>>, <<12, 4>>}
=============================================================================
