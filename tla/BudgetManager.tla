---------------------------- MODULE BudgetManager ----------------------------
(***************************************************************************)
(* app/budget_manager.py: the two-phase reservation ledger.                 *)
(*                                                                          *)
(* A caller reserves a worst-case cost and latency (try_reserve), does its  *)
(* backend I/O without the lock, and settles exactly once: commit with the  *)
(* actual figures, or rollback.  A background reaper rolls back what was    *)
(* not settled within its time to live.  Every method body runs under       *)
(* self._lock with no await inside, so each is one action.                  *)
(*                                                                          *)
(* Amounts are integers in units small enough that the float tolerances of  *)
(* the code, 1e-12 at admission and 1e-9 at settlement, are the constants   *)
(* RESERVE_EPS and SETTLE_EPS.  Reservation ids (uuid4) are 1..N.           *)
(***************************************************************************)
EXTENDS Integers, Sums

CONSTANTS
    N,                          \* how many reservations are ever made
    MAX_REMOTE_BUDGET,
    MAX_CUMULATIVE_LATENCY_MS,
    RESERVATION_TTL_SECONDS,
    REAPER_INTERVAL_SECONDS,
    RESERVE_EPS,                \* the 1e-12 of try_reserve
    SETTLE_EPS,                 \* the 1e-9 of _commit
    Offers,                     \* <<cost, latency>> passed to try_reserve
    Actuals                     \* <<cost, latency>> passed to commit

ASSUME BudgetAssumption ==
    /\ N \in Nat
    /\ MAX_REMOTE_BUDGET \in Nat \ {0}
    /\ MAX_CUMULATIVE_LATENCY_MS \in Nat
    /\ RESERVATION_TTL_SECONDS \in Nat
    /\ REAPER_INTERVAL_SECONDS \in Nat \ {0}
    /\ RESERVE_EPS \in Nat
    /\ SETTLE_EPS \in Nat
    /\ Offers \subseteq Int \X Int
    /\ Actuals \subseteq Nat \X Nat

Res == 1..N

VARIABLES
    state,          \* Reservation._state, "unborn" before try_reserve made it
    active,         \* keys of _active_reservations
    cost,           \* Reservation.reserved_cost
    latency,        \* Reservation.reserved_latency_ms
    age,            \* time.monotonic() - created_at, saturating at AgeCap
    reserved,       \* _reserved_for_execution
    reservedLat,    \* _reserved_latency_ms
    spent,          \* _cumulative_remote_cost
    usedLat,        \* _cumulative_actual_latency_ms
    reaperOn,       \* _reaper_task is alive
    sleep           \* what is left of the reaper's asyncio.sleep(interval)

ledger == <<state, active, cost, latency, reserved, reservedLat, spent, usedLat>>
clock  == <<age, reaperOn, sleep>>
bmVars == <<ledger, clock>>

\* Ages beyond this are not told apart.
AgeCap == RESERVATION_TTL_SECONDS + REAPER_INTERVAL_SECONDS + 1

TypeOK ==
    /\ state \in [Res -> {"unborn", "pending", "committed", "rolled_back"}]
    /\ active \subseteq Res
    /\ cost \in [Res -> Nat]
    /\ latency \in [Res -> Nat]
    /\ age \in [Res -> 0..AgeCap]
    /\ reserved \in Int
    /\ reservedLat \in Int
    /\ spent \in Nat
    /\ usedLat \in Nat
    /\ reaperOn \in BOOLEAN
    /\ sleep \in 0..REAPER_INTERVAL_SECONDS

\* BudgetManager() followed by start_reaper(), as in lifespan and run_start.
Init ==
    /\ state = [r \in Res |-> "unborn"]
    /\ active = {}
    /\ cost = [r \in Res |-> 0]
    /\ latency = [r \in Res |-> 0]
    /\ age = [r \in Res |-> 0]
    /\ reserved = 0
    /\ reservedLat = 0
    /\ spent = 0
    /\ usedLat = 0
    /\ reaperOn = TRUE
    /\ sleep = REAPER_INTERVAL_SECONDS

-----------------------------------------------------------------------------
\* Phase 1: reserve

\* Mutant: only an empty reservation is refused, negative amounts are not.
ValidArgs_NonZero(c, l) == c # 0 \/ l # 0

\* The arguments try_reserve accepts; it raises ValueError on the others.
ValidArgs(c, l) ==
    /\ c >= 0
    /\ l >= 0
    /\ c > 0 \/ l > 0

\* Mutant: the check-then-act bug, money already promised is not counted.
HasRoom_SpentOnly(c, l) ==
    /\ MAX_REMOTE_BUDGET - spent >= c - RESERVE_EPS
    /\ MAX_CUMULATIVE_LATENCY_MS - usedLat - reservedLat >= l - RESERVE_EPS

\* Both limits still have room, up to the admission tolerance.
HasRoom(c, l) ==
    /\ MAX_REMOTE_BUDGET - spent - reserved >= c - RESERVE_EPS
    /\ MAX_CUMULATIVE_LATENCY_MS - usedLat - reservedLat >= l - RESERVE_EPS

\* try_reserve returning a Reservation.  When it returns None or raises it
\* changes nothing.
Reserve(r, c, l) ==
    /\ state[r] = "unborn"
    /\ ValidArgs(c, l)
    /\ HasRoom(c, l)
    /\ reserved' = reserved + c
    /\ reservedLat' = reservedLat + l
    /\ state' = [state EXCEPT ![r] = "pending"]
    /\ cost' = [cost EXCEPT ![r] = c]
    /\ latency' = [latency EXCEPT ![r] = l]
    /\ active' = active \union {r}
    /\ age' = [age EXCEPT ![r] = 0]
    /\ UNCHANGED <<spent, usedLat, reaperOn, sleep>>

-----------------------------------------------------------------------------
\* Phase 2: settle

\* Mutant: one call is compared with the cap, not the running sum.
LatencyExceeded_OneCall(al) == al > MAX_CUMULATIVE_LATENCY_MS + SETTLE_EPS

CostExceeded(r, ac) == ac > cost[r] + SETTLE_EPS
LatencyExceeded(al) == usedLat + al > MAX_CUMULATIVE_LATENCY_MS + SETTLE_EPS

\* Mutant: the reserved worst case is charged instead of the actual cost.
CommitOk_ChargesReserved(r, ac, al) ==
    /\ r \in active
    /\ ~CostExceeded(r, ac)
    /\ ~LatencyExceeded(al)
    /\ state' = [state EXCEPT ![r] = "committed"]
    /\ active' = active \ {r}
    /\ reserved' = Clamp(reserved - cost[r])
    /\ reservedLat' = Clamp(reservedLat - latency[r])
    /\ spent' = spent + cost[r]
    /\ usedLat' = usedLat + al
    /\ UNCHANGED <<cost, latency, clock>>

\* commit() that records the actual figures.
CommitOk(r, ac, al) ==
    /\ r \in active
    /\ ~CostExceeded(r, ac)
    /\ ~LatencyExceeded(al)
    /\ state' = [state EXCEPT ![r] = "committed"]
    /\ active' = active \ {r}
    /\ reserved' = Clamp(reserved - cost[r])
    /\ reservedLat' = Clamp(reservedLat - latency[r])
    /\ spent' = spent + ac
    /\ usedLat' = usedLat + al
    /\ UNCHANGED <<cost, latency, clock>>

\* Mutants: a refused commit keeps the latency reserved; a refused commit has
\* already recorded the spend.
CommitRefused_KeepsLatency(r, ac, al) ==
    /\ r \in active
    /\ CostExceeded(r, ac) \/ LatencyExceeded(al)
    /\ state' = [state EXCEPT ![r] = "rolled_back"]
    /\ active' = active \ {r}
    /\ reserved' = reserved - cost[r]
    /\ UNCHANGED <<reservedLat, cost, latency, spent, usedLat, clock>>
CommitRefused_RecordsFirst(r, ac, al) ==
    /\ r \in active
    /\ CostExceeded(r, ac) \/ LatencyExceeded(al)
    /\ state' = [state EXCEPT ![r] = "rolled_back"]
    /\ active' = active \ {r}
    /\ reserved' = reserved - cost[r]
    /\ reservedLat' = reservedLat - latency[r]
    /\ spent' = spent + ac
    /\ UNCHANGED <<cost, latency, usedLat, clock>>

\* commit() that rolls back and raises ActualCostExceededReservationError or
\* ActualLatencyExceededReservationError.  These two branches subtract without
\* the max(0.0, ...) of all the others.
CommitRefused(r, ac, al) ==
    /\ r \in active
    /\ CostExceeded(r, ac) \/ LatencyExceeded(al)
    /\ state' = [state EXCEPT ![r] = "rolled_back"]
    /\ active' = active \ {r}
    /\ reserved' = reserved - cost[r]
    /\ reservedLat' = reservedLat - latency[r]
    /\ UNCHANGED <<cost, latency, spent, usedLat, clock>>

\* Mutant: rollback() does not look whether the reservation is still active.
Rollback_Unchecked(r) ==
    /\ state[r] # "unborn"
    /\ state' = [state EXCEPT ![r] = "rolled_back"]
    /\ active' = active \ {r}
    /\ reserved' = Clamp(reserved - cost[r])
    /\ reservedLat' = Clamp(reservedLat - latency[r])
    /\ UNCHANGED <<cost, latency, spent, usedLat, clock>>

\* rollback().  Like commit() it raises InvalidReservationStateError, and
\* changes nothing, when r is not in active.
Rollback(r) ==
    /\ r \in active
    /\ state' = [state EXCEPT ![r] = "rolled_back"]
    /\ active' = active \ {r}
    /\ reserved' = Clamp(reserved - cost[r])
    /\ reservedLat' = Clamp(reservedLat - latency[r])
    /\ UNCHANGED <<cost, latency, spent, usedLat, clock>>

-----------------------------------------------------------------------------
\* Reaper and time

\* Mutant: an off-by-one.
IsExpired_Late(r) == age[r] > RESERVATION_TTL_SECONDS + 1

\* Reservation.is_expired, strictly older than the TTL.
IsExpired(r) == age[r] > RESERVATION_TTL_SECONDS

\* Mutants: the reaper drops the reservation but leaves its state "pending"; the
\* loop misses its sleep, so that nothing else ever runs.
Reap_LeavesState ==
    LET expired == {r \in active : IsExpired(r)} IN
    /\ reaperOn
    /\ sleep = 0
    /\ active' = active \ expired
    /\ reserved' = Clamp(reserved - Total(Masked(cost, expired), N))
    /\ reservedLat' = Clamp(reservedLat - Total(Masked(latency, expired), N))
    /\ sleep' = REAPER_INTERVAL_SECONDS
    /\ UNCHANGED <<state, cost, latency, spent, usedLat, age, reaperOn>>
Reap_NoSleep ==
    LET expired == {r \in active : IsExpired(r)} IN
    /\ reaperOn
    /\ sleep = 0
    /\ state' = [r \in Res |-> IF r \in expired THEN "rolled_back" ELSE state[r]]
    /\ active' = active \ expired
    /\ reserved' = Clamp(reserved - Total(Masked(cost, expired), N))
    /\ reservedLat' = Clamp(reservedLat - Total(Masked(latency, expired), N))
    /\ UNCHANGED <<cost, latency, spent, usedLat, age, reaperOn, sleep>>

\* One turn of _reaper_loop: the sleep is over, _expire_stale_reservations
\* rolls back every expired reservation under one hold of the lock, and the
\* loop sleeps again.  Clamping after each subtraction of a non-negative
\* amount is clamping once after all of them.
Reap ==
    LET expired == {r \in active : IsExpired(r)} IN
    /\ reaperOn
    /\ sleep = 0
    /\ state' = [r \in Res |-> IF r \in expired THEN "rolled_back" ELSE state[r]]
    /\ active' = active \ expired
    /\ reserved' = Clamp(reserved - Total(Masked(cost, expired), N))
    /\ reservedLat' = Clamp(reservedLat - Total(Masked(latency, expired), N))
    /\ sleep' = REAPER_INTERVAL_SECONDS
    /\ UNCHANGED <<cost, latency, spent, usedLat, age, reaperOn>>

\* stop_reaper(): lifespan shutdown, or run_start discarding this manager.
StopReaper ==
    /\ reaperOn
    /\ reaperOn' = FALSE
    /\ UNCHANGED <<ledger, age, sleep>>

\* A second passes.  The event loop wakes a due reaper before time goes on.
Tick ==
    /\ reaperOn => sleep > 0
    /\ age' = [r \in Res |-> IF age[r] < AgeCap THEN age[r] + 1 ELSE age[r]]
    /\ sleep' = IF reaperOn THEN sleep - 1 ELSE sleep
    /\ UNCHANGED <<ledger, reaperOn>>

-----------------------------------------------------------------------------
\* uuid4 never repeats an id; which fresh one it returns does not matter.
Fresh(r) == \A q \in Res : state[q] = "unborn" => r <= q

Settle(r) ==
    \/ \E a \in Actuals : CommitOk(r, a[1], a[2]) \/ CommitRefused(r, a[1], a[2])
    \/ Rollback(r)

Next ==
    \/ \E r \in Res, o \in Offers : Fresh(r) /\ Reserve(r, o[1], o[2])
    \/ \E r \in Res : Settle(r)
    \/ Reap
    \/ StopReaper
    \/ Tick

Spec == Init /\ [][Next]_bmVars

\* Time passes and asyncio runs a timer that is due; callers owe nothing.
FairSpec == Spec /\ WF_bmVars(Tick) /\ WF_bmVars(Reap)

-----------------------------------------------------------------------------
\* The escrow this ledger implements: a hold is a reservation with its figures.
Phase(st) ==
    CASE st = "unborn"      -> "none"
      [] st = "pending"     -> "held"
      [] st = "committed"   -> "paid"
      [] st = "rolled_back" -> "void"

E == INSTANCE Escrow WITH
        Money <- MAX_REMOTE_BUDGET,
        Time <- MAX_CUMULATIVE_LATENCY_MS,
        AdmitSlack <- RESERVE_EPS,
        PaySlack <- SETTLE_EPS,
        holds <- [r \in Res |-> [money |-> cost[r], time |-> latency[r],
                                 phase |-> Phase(state[r])]],
        paidMoney <- spent,
        paidTime <- usedLat

-----------------------------------------------------------------------------
\* Properties

\* The dictionary of reservations and the state field of each reservation
\* agree: whoever tests reservation.state == "pending" (main.py) learns what
\* _commit and _rollback will find in _active_reservations.
StateAgrees == active = {r \in Res : state[r] = "pending"}

\* The running counters are worth exactly what the live reservations hold,
\* whatever mix of commits, refused commits, rollbacks and reaping came before.
\* In particular the unclamped subtractions of _commit never go negative and
\* the clamps elsewhere never hide a double release.
LedgerBalanced ==
    /\ reserved = Total(Masked(cost, active), N)
    /\ reservedLat = Total(Masked(latency, active), N)

\* "no double-spend": recorded spend plus live reservations never passes the
\* budget by more than the admission tolerance and one settlement tolerance
\* per committed reservation.
BudgetSafe ==
    spent + reserved <= MAX_REMOTE_BUDGET + RESERVE_EPS
        + SETTLE_EPS * Count({r \in Res : state[r] = "committed"}, N)

\* The recorded latency never passes the global cap (up to the tolerance),
\* although _commit accepts an actual latency above what was reserved.
LatencySafe == usedLat <= MAX_CUMULATIVE_LATENCY_MS + SETTLE_EPS

\* While the reaper lives, no reservation is held longer than its TTL plus one
\* reaper interval, whatever its owner does.
RecoveredInTime ==
    reaperOn => \A r \in active :
        age[r] + sleep <= RESERVATION_TTL_SECONDS + REAPER_INTERVAL_SECONDS

\* A reservation is settled at most once, and settling is final.
SettledOnce ==
    [][\A r \in Res : state[r] \in {"committed", "rolled_back"}
                          => state'[r] = state[r] /\ r \notin active']_bmVars

\* The ledger implements the escrow: deciding from the cached counters admits
\* and settles exactly what deciding from the reservations themselves would.
ImplementsEscrow == E!Spec

\* The guarantee of the module's header: funds of a caller that never settles
\* come back, as long as the reaper is not stopped.
FundsComeBack ==
    \A r \in Res : (r \in active) ~> (r \notin active \/ ~reaperOn)
=============================================================================
