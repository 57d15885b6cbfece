------------------------------- MODULE Escrow -------------------------------
(***************************************************************************)
(* What the budget manager promises, without its counters, its dictionary,  *)
(* its clock or its reaper: an escrow over two pools, money and time.       *)
(*                                                                          *)
(* A party puts a hold on both pools; a hold ends once, either paid (what    *)
(* was really used is drawn from the pools) or void (the hold is returned). *)
(* Admission looks at the holds themselves, so no cached total can drift.   *)
(***************************************************************************)
EXTENDS Integers, Sums

CONSTANTS
    N,              \* holds are 1..N
    Money, Time,    \* the two pools
    AdmitSlack,     \* rounding forgiven when a hold is placed
    PaySlack        \* rounding forgiven when a hold is paid

VARIABLES
    holds,          \* [1..N -> [money, time, phase]]
    paidMoney,      \* money drawn so far
    paidTime        \* time drawn so far

escrowVars == <<holds, paidMoney, paidTime>>

Held == {h \in 1..N : holds[h].phase = "held"}
HeldMoney == Total(Masked([h \in 1..N |-> holds[h].money], Held), N)
HeldTime == Total(Masked([h \in 1..N |-> holds[h].time], Held), N)

Init ==
    /\ holds = [h \in 1..N |-> [money |-> 0, time |-> 0, phase |-> "none"]]
    /\ paidMoney = 0
    /\ paidTime = 0

\* A hold is placed only when both pools can still honour every hold.
Hold(h) ==
    /\ holds[h].phase = "none"
    /\ holds'[h].phase = "held"
    /\ holds'[h].money >= 0
    /\ holds'[h].time >= 0
    /\ holds' = [holds EXCEPT ![h] = holds'[h]]
    /\ paidMoney + HeldMoney' <= Money + AdmitSlack
    /\ paidTime + HeldTime' <= Time + AdmitSlack
    /\ UNCHANGED <<paidMoney, paidTime>>

\* A hold is paid: money within the hold, time within the pool.
Pay(h) ==
    /\ holds[h].phase = "held"
    /\ holds' = [holds EXCEPT ![h].phase = "paid"]
    /\ paidMoney' >= paidMoney
    /\ paidMoney' - paidMoney <= holds[h].money + PaySlack
    /\ paidTime' >= paidTime
    /\ paidTime' <= Time + PaySlack

\* Some holds are returned together.
Void(S) ==
    /\ \A h \in S : holds[h].phase = "held"
    /\ holds' = [h \in 1..N |-> IF h \in S THEN [holds[h] EXCEPT !.phase = "void"]
                                ELSE holds[h]]
    /\ UNCHANGED <<paidMoney, paidTime>>

Next ==
    \/ \E h \in 1..N : Hold(h) \/ Pay(h)
    \/ \E S \in SUBSET (1..N) : Void(S)

Spec == Init /\ [][Next]_escrowVars
=============================================================================
