--------------------------- MODULE LatencyTracker ---------------------------
(***************************************************************************)
(* app/latency_tracker.py: the latency estimate of each backend, the larger *)
(* of an exponential moving average and the maximum of a sliding window.    *)
(*                                                                          *)
(* The average is a rational, kept exactly as a fraction num / den, with     *)
(* EMA_ALPHA = ALPHA_NUM / ALPHA_DEN.                                        *)
(***************************************************************************)
EXTENDS Integers, Sequences, SequencesExt, FiniteSetsExt, Sums

CONSTANTS
    ALPHA_NUM, ALPHA_DEN,       \* EMA_ALPHA
    LATENCY_WINDOW_SIZE,
    Seed,                       \* AVG_LOCAL_LATENCY_MS, AVG_REMOTE_LATENCY_MS
    Samples,                    \* latencies that are recorded
    MaxRecords                  \* bound on the records since the last reset

Backends == {"local", "remote"}

ASSUME TrackerAssumption ==
    /\ ALPHA_NUM \in Nat \ {0} /\ ALPHA_DEN \in Nat /\ ALPHA_NUM <= ALPHA_DEN
    /\ LATENCY_WINDOW_SIZE \in Nat \ {0}
    /\ Seed \in [Backends -> Nat]
    /\ Samples \subseteq Nat
    /\ MaxRecords \in Nat

VARIABLES
    ema,        \* _ema
    windows,    \* _windows, oldest first
    history     \* every record since the last reset

vars == <<ema, windows, history>>

Seeded == [b \in Backends |-> [num |-> Seed[b], den |-> 1]]

Init ==
    /\ ema = Seeded
    /\ windows = [b \in Backends |-> <<>>]
    /\ history = [b \in Backends |-> <<>>]

\* Mutant: a list that never drops anything.
Push_Unbounded(w, x) == Append(w, x)

\* A deque with a maxlen drops its oldest item to make room.
Push(w, x) ==
    IF Len(w) < LATENCY_WINDOW_SIZE THEN Append(w, x) ELSE Append(Tail(w), x)

\* alpha * sample + (1 - alpha) * ema
Smooth(e, x) ==
    [num |-> ALPHA_NUM * x * e.den + (ALPHA_DEN - ALPHA_NUM) * e.num,
     den |-> ALPHA_DEN * e.den]

Record(b, x) ==
    /\ Len(history[b]) < MaxRecords
    /\ ema' = [ema EXCEPT ![b] = Smooth(ema[b], x)]
    /\ windows' = [windows EXCEPT ![b] = Push(windows[b], x)]
    /\ history' = [history EXCEPT ![b] = Append(history[b], x)]

\* Mutant: the averages survive a reset.
Reset_KeepsEma ==
    /\ windows' = [b \in Backends |-> <<>>]
    /\ history' = [b \in Backends |-> <<>>]
    /\ UNCHANGED ema

Reset ==
    /\ ema' = Seeded
    /\ windows' = [b \in Backends |-> <<>>]
    /\ history' = [b \in Backends |-> <<>>]

\* get_estimate, as the numerator over the average's denominator.
GetEstimate(b) ==
    IF windows[b] = <<>> THEN ema[b].num
    ELSE Max({ema[b].num, ema[b].den * Max(ToSet(windows[b]))})

Next ==
    \/ \E b \in Backends, x \in Samples : Record(b, x)
    \/ Reset

Spec == Init /\ [][Next]_vars

-----------------------------------------------------------------------------
\* Properties

\* The running average is the weighted mean of the seed and every record, each
\* weighing alpha * (1 - alpha)^(its age): no record is lost or counted twice,
\* and a reset forgets them all.
EmaIsWeightedMean ==
    \A b \in Backends :
        LET n == Len(history[b])
            keep == ALPHA_DEN - ALPHA_NUM
            weighted == [i \in 1..n |-> ALPHA_NUM * Power(keep)[n - i]
                                          * (Power(ALPHA_DEN)[i - 1] * history[b][i])]
        IN  /\ ema[b].den = Power(ALPHA_DEN)[n]
            /\ ema[b].num = Power(keep)[n] * Seed[b] + Total(weighted, n)

\* After a spike the estimate is pessimistic at once and stays so while the
\* spike is among the last LATENCY_WINDOW_SIZE records; once that many records
\* have followed it, the estimate is below it.
SpikeWindow ==
    \A b \in Backends : \A i \in DOMAIN history[b] :
        LET spike == history[b][i]
            recent == i > Len(history[b]) - LATENCY_WINDOW_SIZE
            tops == spike > Seed[b] /\ \A j \in DOMAIN history[b] \ {i} : history[b][j] < spike
        IN  /\ recent => GetEstimate(b) >= ema[b].den * spike
            /\ ~recent /\ tops => GetEstimate(b) < ema[b].den * spike
=============================================================================
