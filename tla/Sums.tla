-------------------------------- MODULE Sums --------------------------------
(***************************************************************************)
(* Sums of the amounts held by reservations 1..n, and powers.  The gateway  *)
(* keeps running float counters next to the dictionary of reservations;     *)
(* these operators say what the counters should be worth.                   *)
(***************************************************************************)
EXTENDS Integers

\* s[i] is the sum of w[1] .. w[i].
PrefixSum(w) ==
    LET s[i \in Nat] ==
        IF i = 0 THEN 0
        ELSE s[i - 1] + (IF i \in DOMAIN w THEN w[i] ELSE 0)
    IN s

\* The sum of w[1] .. w[n].
Total(w, n) == PrefixSum(w)[n]

\* w at the indices in S, 0 elsewhere.
Masked(w, S) == [i \in DOMAIN w |-> IF i \in S THEN w[i] ELSE 0]

\* How many of the indices 1..n are in S.
Count(S, n) == Total([i \in 1..n |-> IF i \in S THEN 1 ELSE 0], n)

\* Power(a)[n] is a to the n.
Power(a) ==
    LET p[n \in Nat] == IF n = 0 THEN 1 ELSE a * p[n - 1]
    IN p

\* Python's max(0.0, x).
Clamp(x) == IF x < 0 THEN 0 ELSE x
=============================================================================
