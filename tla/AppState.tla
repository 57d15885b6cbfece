------------------------------- MODULE AppState -------------------------------
(***************************************************************************)
(* app/main.py: lifespan, run_start and the managers kept in app.state.     *)
(*                                                                          *)
(* POST /run_start with reset replaces the budget manager, the queue        *)
(* monitor, the latency tracker and the agent while requests are in flight. *)
(* A handler reads app.state once, at its entry: a request stays with the   *)
(* generation of managers it began with, its home.  Here a generation is a  *)
(* ledger of money and of latency, a dictionary of reservations, the slots  *)
(* in use and a reaper.  BudgetManager and Gateway have the detail of one   *)
(* generation; the SLA and the clock appear here as choices: routing may    *)
(* refuse, a reservation may expire.                                        *)
(***************************************************************************)
EXTENDS Integers, FiniteSets

CONSTANTS
    Req,                        \* requests
    MaxGen,                     \* bound: how often the managers are replaced
    MAX_REMOTE_BUDGET, COST_PER_REMOTE_REQUEST, LOCAL_QUEUE_CAPACITY,
    MAX_CUMULATIVE_LATENCY_MS,
    PROJECTED_LATENCY,          \* what a reservation holds of it
    Latencies                   \* what a backend call may have taken

ASSUME AppStateAssumption ==
    /\ IsFiniteSet(Req)
    /\ MaxGen \in Nat
    /\ MAX_REMOTE_BUDGET \in Nat \ {0}
    /\ COST_PER_REMOTE_REQUEST \in Nat \ {0}
    /\ LOCAL_QUEUE_CAPACITY \in Nat \ {0}
    /\ MAX_CUMULATIVE_LATENCY_MS \in Nat
    /\ PROJECTED_LATENCY \in Nat \ {0}
    /\ Latencies \subseteq Nat

Gens == 0..MaxGen
NoGen == -1

VARIABLES
    serving,    \* between start-up and shutdown
    gen,        \* the generation in app.state
    reapers,    \* generations whose reaper task is alive
    spent, reserved,            \* per generation: money, and money held
    usedLat, reservedLat,       \* per generation: latency, and latency held
    slots,      \* per generation: slots in use
    stage,      \* where each request is
    home,       \* the managers its handler works with
    price,      \* Reservation.reserved_cost
    res         \* its reservation: none, held or settled

books == <<spent, reserved, usedLat, reservedLat, slots>>
appVars == <<serving, gen, reapers, books, stage, home, price, res>>

InFlight == {"remote", "local", "fallback"}
InSlot == {"local", "fallback"}

AppTypeOK ==
    /\ serving \in BOOLEAN
    /\ gen \in Gens
    /\ reapers \subseteq Gens
    /\ spent \in [Gens -> Nat]
    /\ reserved \in [Gens -> Nat]
    /\ usedLat \in [Gens -> Nat]
    /\ reservedLat \in [Gens -> Nat]
    /\ slots \in [Gens -> 0..LOCAL_QUEUE_CAPACITY]
    /\ stage \in [Req -> InFlight \union {"new", "done", "cancelled"}]
    /\ home \in [Req -> Gens \union {NoGen}]
    /\ price \in [Req -> {0, COST_PER_REMOTE_REQUEST}]
    /\ res \in [Req -> {"none", "held", "settled"}]

\* lifespan, up to its yield.
AppInit ==
    /\ serving = TRUE
    /\ gen = 0
    /\ reapers = {0}
    /\ spent = [g \in Gens |-> 0]
    /\ reserved = [g \in Gens |-> 0]
    /\ usedLat = [g \in Gens |-> 0]
    /\ reservedLat = [g \in Gens |-> 0]
    /\ slots = [g \in Gens |-> 0]
    /\ stage = [r \in Req |-> "new"]
    /\ home = [r \in Req |-> NoGen]
    /\ price = [r \in Req |-> 0]
    /\ res = [r \in Req |-> "none"]

-----------------------------------------------------------------------------
\* POST /inference

\* The handler reads app.state; from there to its backend call or its refusal
\* nothing suspends.
Enter(r, s) ==
    /\ serving
    /\ stage[r] = "new"
    /\ stage' = [stage EXCEPT ![r] = s]
    /\ home' = [home EXCEPT ![r] = gen]
    /\ UNCHANGED <<serving, gen, reapers, spent, usedLat>>

\* What try_reserve holds for r of the latency cap, if there is room for it.
HoldLatency(r) ==
    /\ usedLat[gen] + reservedLat[gen] + PROJECTED_LATENCY <= MAX_CUMULATIVE_LATENCY_MS
    /\ reservedLat' = [reservedLat EXCEPT ![gen] = @ + PROJECTED_LATENCY]
    /\ res' = [res EXCEPT ![r] = "held"]

EnterRemote(r) ==
    /\ spent[gen] + reserved[gen] + COST_PER_REMOTE_REQUEST <= MAX_REMOTE_BUDGET
    /\ Enter(r, "remote")
    /\ price' = [price EXCEPT ![r] = COST_PER_REMOTE_REQUEST]
    /\ reserved' = [reserved EXCEPT ![gen] = @ + COST_PER_REMOTE_REQUEST]
    /\ HoldLatency(r)
    /\ UNCHANGED slots

\* A local reservation is of latency only.
EnterLocal(r) ==
    /\ slots[gen] < LOCAL_QUEUE_CAPACITY
    /\ Enter(r, "local")
    /\ slots' = [slots EXCEPT ![gen] = @ + 1]
    /\ HoldLatency(r)
    /\ UNCHANGED <<price, reserved>>

Refuse(r) == Enter(r, "done") /\ UNCHANGED <<price, reserved, reservedLat, slots, res>>

\* Mutant: app.state is read again after the backend call.
Managers_Reread(r) == gen

\* The managers r settles with: the reservation's own, and the queue monitor
\* the handler read at its entry.
Managers(r) == home[r]

\* Ends the reservation of r, if it is still held: at its actual cost and latency
\* when it is committed, else at none.
EndReservation(r, actual, lat) ==
    LET g == Managers(r)
        held == res[r] = "held"
    IN  /\ res' = IF held THEN [res EXCEPT ![r] = "settled"] ELSE res
        /\ reserved' = IF held THEN [reserved EXCEPT ![g] = @ - price[r]] ELSE reserved
        /\ spent' = IF held THEN [spent EXCEPT ![g] = @ + actual] ELSE spent
        /\ reservedLat' = IF held THEN [reservedLat EXCEPT ![g] = @ - PROJECTED_LATENCY]
                                  ELSE reservedLat
        /\ usedLat' = IF held THEN [usedLat EXCEPT ![g] = @ + lat] ELSE usedLat

\* The slot's finally.
LeaveSlot(r) ==
    slots' = IF stage[r] \in InSlot THEN [slots EXCEPT ![Managers(r)] = @ - 1] ELSE slots

\* The backend answers: commit, and 200; or 500 when the commit is refused, the
\* reservation has expired or something else raises.
Finish(r, actual, lat) ==
    /\ stage[r] \in InFlight
    /\ EndReservation(r, actual, lat)
    /\ LeaveSlot(r)
    /\ stage' = [stage EXCEPT ![r] = "done"]
    /\ UNCHANGED <<serving, gen, reapers, home, price>>

\* RemoteInferenceError: rollback, then a local slot of the same generation.
RemoteFails(r) ==
    LET g == Managers(r)
        free == slots[g] < LOCAL_QUEUE_CAPACITY
    IN  /\ stage[r] = "remote"
        /\ EndReservation(r, 0, 0)
        /\ stage' = [stage EXCEPT ![r] = IF free THEN "fallback" ELSE "done"]
        /\ slots' = IF free THEN [slots EXCEPT ![g] = @ + 1] ELSE slots
        /\ UNCHANGED <<serving, gen, reapers, home, price>>

\* CancelledError: the slot is left, the reservation stays.
Cancel(r) ==
    /\ stage[r] \in InFlight
    /\ LeaveSlot(r)
    /\ stage' = [stage EXCEPT ![r] = "cancelled"]
    /\ UNCHANGED <<serving, gen, reapers, spent, reserved, usedLat, reservedLat, home, price, res>>

\* The reaper of its home expires r's reservation.
Expire(r) ==
    /\ res[r] = "held"
    /\ home[r] \in reapers
    /\ res' = [res EXCEPT ![r] = "settled"]
    /\ reserved' = [reserved EXCEPT ![home[r]] = @ - price[r]]
    /\ reservedLat' = [reservedLat EXCEPT ![home[r]] = @ - PROJECTED_LATENCY]
    /\ UNCHANGED <<serving, gen, reapers, spent, usedLat, slots, stage, home, price>>

-----------------------------------------------------------------------------
\* Mutants: the old reaper runs on; the new manager has no reaper.
Reapers_KeepOld == reapers \union {gen + 1}
Reapers_NoNew == reapers \ {gen}

\* After run_start: stop_reaper() on the old manager, start_reaper() on the new.
Reapers == (reapers \ {gen}) \union {gen + 1}

\* POST /run_start with reset.  Without reset it changes nothing here.
RunStart ==
    /\ serving
    /\ gen < MaxGen
    /\ gen' = gen + 1
    /\ reapers' = Reapers
    /\ UNCHANGED <<serving, books, stage, home, price, res>>

\* The end of lifespan, once the server has let its requests finish or
\* cancelled them.  The manager it stops is the one lifespan made itself.
Shutdown ==
    /\ serving
    /\ \A r \in Req : stage[r] \notin InFlight
    /\ serving' = FALSE
    /\ reapers' = reapers \ {0}
    /\ UNCHANGED <<gen, books, stage, home, price, res>>

\* GET /metrics: one snapshot of the managers now in app.state.
HeldBy(g) == {r \in Req : res[r] = "held" /\ home[r] = g}
Metrics ==
    [cost |-> spent[gen], reserved |-> reserved[gen],
     lat |-> usedLat[gen], reservedLat |-> reservedLat[gen],
     active |-> Cardinality(HeldBy(gen)), local |-> slots[gen]]

Admission(r) == EnterRemote(r) \/ EnterLocal(r) \/ Refuse(r)

\* A commit takes an actual cost up to what was reserved, and any latency that
\* the cap still has room for.
Handling(r) ==
    \/ \E actual \in 0..price[r], lat \in Latencies :
          /\ Finish(r, actual, lat)
          /\ usedLat[Managers(r)] + lat <= MAX_CUMULATIVE_LATENCY_MS
    \/ Finish(r, 0, 0)
    \/ RemoteFails(r)

-----------------------------------------------------------------------------
\* Properties

\* Requests that a reset overtakes settle with the managers they began with:
\* each generation's money, latency and slots match its own requests, and none
\* of its budget, its latency cap and its capacity is passed.
GenerationsIsolated ==
    \A g \in Gens :
        /\ reserved[g] = COST_PER_REMOTE_REQUEST * Cardinality({r \in HeldBy(g) : price[r] > 0})
        /\ reservedLat[g] = PROJECTED_LATENCY * Cardinality(HeldBy(g))
        /\ slots[g] = Cardinality({r \in Req : stage[r] \in InSlot /\ home[r] = g})
        /\ spent[g] + reserved[g] <= MAX_REMOTE_BUDGET
        /\ usedLat[g] <= MAX_CUMULATIVE_LATENCY_MS
        /\ slots[g] <= LOCAL_QUEUE_CAPACITY

\* While the server runs exactly the current managers have a reaper, through
\* any number of resets; at most that one survives shutdown.
OneReaper ==
    /\ serving => reapers = {gen}
    /\ reapers \subseteq {gen}

\* What an abandoned request holds of the current budget comes back, unless the
\* budget itself is replaced or the server stops.
AbandonedRecovered ==
    \A r \in Req : (stage[r] = "cancelled" /\ res[r] = "held")
                       ~> (res[r] = "settled" \/ home[r] # gen \/ ~serving)
=============================================================================
