------------------------------ MODULE SharedLog ------------------------------
(***************************************************************************)
(* What the event bus promises, without its queues: one log that all        *)
(* readers share, of which the newest Retention events are kept, and one    *)
(* cursor per reader.  A reader joins at the end of the log and reads on    *)
(* without skipping anything that is still kept.                            *)
(***************************************************************************)
EXTENDS Integers, Sequences

CONSTANTS
    Readers,
    Retention       \* how many events a slow reader can still read

VARIABLES
    size,           \* how many events were published
    members,        \* the readers that have joined and not left
    cursor,         \* a member's next event; 0 for the others
    read            \* the events each reader has read

logVars == <<size, members, cursor, read>>

Init ==
    /\ size = 0
    /\ members = {}
    /\ cursor = [c \in Readers |-> 0]
    /\ read = [c \in Readers |-> <<>>]

\* The oldest event still kept when n were published.
Oldest(n) == n - Retention + 1

\* An event is published; a cursor that points before the oldest event moves to it.
Publish ==
    /\ size' = size + 1
    /\ cursor' = [c \in Readers |-> IF c \in members /\ cursor[c] < Oldest(size + 1)
                                      THEN Oldest(size + 1) ELSE cursor[c]]
    /\ UNCHANGED <<members, read>>

Join(c) ==
    /\ c \notin members
    /\ members' = members \union {c}
    /\ cursor' = [cursor EXCEPT ![c] = size + 1]
    /\ UNCHANGED <<size, read>>

Leave(c) ==
    /\ c \in members
    /\ members' = members \ {c}
    /\ cursor' = [cursor EXCEPT ![c] = 0]
    /\ UNCHANGED <<size, read>>

Read(c) ==
    /\ c \in members
    /\ cursor[c] <= size
    /\ cursor' = [cursor EXCEPT ![c] = @ + 1]
    /\ read' = [read EXCEPT ![c] = Append(@, cursor[c])]
    /\ UNCHANGED <<size, members>>

Next == Publish \/ \E c \in Readers : Join(c) \/ Leave(c) \/ Read(c)

Spec == Init /\ [][Next]_logVars
=============================================================================
