------------------------------- MODULE Contract -------------------------------
(***************************************************************************)
(* What POST /inference owes a client, whatever its route: money is held    *)
(* before it is charged, a held amount is charged or returned once, a       *)
(* charged client gets its answer and nothing else, an error costs nothing, *)
(* and the ledger grows by exactly what clients are charged.                *)
(***************************************************************************)
EXTENDS Integers

CONSTANT Clients

VARIABLES
    money,      \* [Clients -> {"none", "held", "charged", "returned"}]
    reply,      \* [Clients -> {"none", "answer", "error", "gone"}]
    charge,     \* [Clients -> Nat], what each client was charged
    ledger      \* the sum the gateway has recorded

contractVars == <<money, reply, charge, ledger>>

Init ==
    /\ money = [c \in Clients |-> "none"]
    /\ reply = [c \in Clients |-> "none"]
    /\ charge = [c \in Clients |-> 0]
    /\ ledger = 0

Hold(c) ==
    /\ money[c] = "none" /\ reply[c] = "none"
    /\ money' = [money EXCEPT ![c] = "held"]
    /\ UNCHANGED <<reply, charge, ledger>>

Charge(c) ==
    /\ money[c] = "held" /\ reply[c] = "none"
    /\ money' = [money EXCEPT ![c] = "charged"]
    /\ charge'[c] \in Nat
    /\ charge' = [charge EXCEPT ![c] = charge'[c]]
    /\ ledger' = ledger + charge'[c]
    /\ UNCHANGED reply

\* Amounts may come back together, and after the client has gone.
Return(S) ==
    /\ \A c \in S : money[c] = "held"
    /\ money' = [c \in Clients |-> IF c \in S THEN "returned" ELSE money[c]]
    /\ UNCHANGED <<reply, charge, ledger>>

\* An answer, charged or free.
Answer(c) ==
    /\ reply[c] = "none" /\ money[c] \in {"charged", "returned"}
    /\ reply' = [reply EXCEPT ![c] = "answer"]
    /\ UNCHANGED <<money, charge, ledger>>

\* An error, never charged; what is still held goes back with it.
Fail(c) ==
    /\ reply[c] = "none" /\ money[c] # "charged"
    /\ reply' = [reply EXCEPT ![c] = "error"]
    /\ money' = [money EXCEPT ![c] = IF @ = "held" THEN "returned" ELSE @]
    /\ UNCHANGED <<charge, ledger>>

\* Nobody is left to tell: not charged either, what is held comes back later.
Abandon(c) ==
    /\ reply[c] = "none" /\ money[c] \in {"held", "returned"}
    /\ reply' = [reply EXCEPT ![c] = "gone"]
    /\ UNCHANGED <<money, charge, ledger>>

Next ==
    \/ \E c \in Clients : Hold(c) \/ Charge(c) \/ Answer(c) \/ Fail(c) \/ Abandon(c)
    \/ \E S \in SUBSET Clients : Return(S)

Spec == Init /\ [][Next]_contractVars
=============================================================================
