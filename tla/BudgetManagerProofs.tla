------------------------- MODULE BudgetManagerProofs -------------------------
(***************************************************************************)
(* The ledger of app/budget_manager.py is safe for every number of          *)
(* reservations, every budget, cap and tolerance, and whatever its callers  *)
(* ask for and report.                                                      *)
(***************************************************************************)
EXTENDS BudgetManager, SumProofs

\* The inductive invariant.  BudgetSafe and LatencySafe speak of the counters;
\* that a settlement lowers the counters by what was really held needs
\* LedgerBalanced, and that it happens once per reservation needs StateAgrees.
LedgerInv ==
    /\ TypeOK
    /\ StateAgrees
    /\ LedgerBalanced
    /\ BudgetSafe
    /\ LatencySafe

Committed == {r \in Res : state[r] = "committed"}

-----------------------------------------------------------------------------
\* What a set of live reservations holds is part of what the counters show, so
\* subtracting it needs no clamp.
LEMMA ReleaseExact ==
  ASSUME LedgerInv, NEW S, S \subseteq active
  PROVE  /\ Total(Masked(cost, S), N) \in Nat
         /\ Total(Masked(latency, S), N) \in Nat
         /\ reserved - Total(Masked(cost, S), N) = Total(Masked(cost, active \ S), N)
         /\ reservedLat - Total(Masked(latency, S), N)
                = Total(Masked(latency, active \ S), N)
         /\ Total(Masked(cost, active \ S), N) \in Nat
         /\ Total(Masked(latency, active \ S), N) \in Nat
         /\ reserved \in Nat
         /\ reservedLat \in Nat
<1>1. N \in Nat /\ cost \in [1..N -> Nat] /\ latency \in [1..N -> Nat]
  BY BudgetAssumption DEF LedgerInv, TypeOK, Res
<1>2. /\ reserved = Total(Masked(cost, active), N)
      /\ reservedLat = Total(Masked(latency, active), N)
  BY DEF LedgerInv, LedgerBalanced
<1>3. /\ Total(Masked(cost, active), N)
            = Total(Masked(cost, active \ S), N) + Total(Masked(cost, S), N)
      /\ Total(Masked(cost, active), N) \in Nat
      /\ Total(Masked(cost, active \ S), N) \in Nat
      /\ Total(Masked(cost, S), N) \in Nat
  BY <1>1, MaskedSplit
<1>4. /\ Total(Masked(latency, active), N)
            = Total(Masked(latency, active \ S), N) + Total(Masked(latency, S), N)
      /\ Total(Masked(latency, active), N) \in Nat
      /\ Total(Masked(latency, active \ S), N) \in Nat
      /\ Total(Masked(latency, S), N) \in Nat
  BY <1>1, MaskedSplit
<1> QED
  BY <1>2, <1>3, <1>4

\* The same for one reservation.
LEMMA ReleaseOne ==
  ASSUME LedgerInv, NEW r \in active
  PROVE  /\ r \in Res
         /\ cost[r] \in Nat
         /\ latency[r] \in Nat
         /\ reserved - cost[r] = Total(Masked(cost, active \ {r}), N)
         /\ reservedLat - latency[r] = Total(Masked(latency, active \ {r}), N)
         /\ reserved - cost[r] \in Nat
         /\ reservedLat - latency[r] \in Nat
<1>1. /\ N \in Nat /\ cost \in [1..N -> Nat] /\ latency \in [1..N -> Nat]
      /\ r \in 1..N /\ r \in Res
  BY BudgetAssumption DEF LedgerInv, TypeOK, Res
<1>2. Total(Masked(cost, {r}), N) = cost[r] /\ Total(Masked(latency, {r}), N) = latency[r]
  BY <1>1, MaskedSingle
<1>3. {r} \subseteq active
  OBVIOUS
<1> QED
  BY <1>1, <1>2, <1>3, ReleaseExact, ZenonT(60)

\* A clamp of a natural is that natural.
LEMMA ClampNat == \A x \in Nat : Clamp(x) = x
BY DEF Clamp

-----------------------------------------------------------------------------
\* The empty ledger of a new manager is balanced and within its limits.
LEMMA InitInv == Init => LedgerInv
<1> SUFFICES ASSUME Init
             PROVE  LedgerInv
  OBVIOUS
<1> USE BudgetAssumption
<1>1. TypeOK
  BY DEF Init, TypeOK, AgeCap, Res
<1>2. StateAgrees
  BY DEF Init, StateAgrees, Res
<1>3. LedgerBalanced
  <2>1. cost \in [1..N -> Nat] /\ latency \in [1..N -> Nat] /\ active = {}
    BY DEF Init, Res
  <2>2. Total(Masked(cost, {}), N) = 0 /\ Total(Masked(latency, {}), N) = 0
    BY <2>1, MaskedEmpty
  <2> QED
    BY <2>1, <2>2 DEF Init, LedgerBalanced
<1>4. BudgetSafe
  <2>1. Committed = {}
    BY DEF Init, Committed
  <2>2. Count(Committed, N) = 0
    BY <2>1, CountFacts
  <2> QED
    BY <2>2 DEF Init, BudgetSafe, Committed
<1>5. LatencySafe
  BY DEF Init, LatencySafe
<1> QED
  BY <1>1, <1>2, <1>3, <1>4, <1>5 DEF LedgerInv

\* Admission keeps the ledger balanced and within the budget.
LEMMA ReserveInv ==
  ASSUME LedgerInv, NEW r \in Res, NEW c \in Int, NEW l \in Int, Reserve(r, c, l)
  PROVE  LedgerInv'
<1> USE BudgetAssumption
<1>1. c \in Nat /\ l \in Nat
  BY DEF Reserve, ValidArgs
<1>2. TypeOK'
  BY <1>1 DEF LedgerInv, TypeOK, Reserve, AgeCap
<1>3. r \notin active
  BY DEF LedgerInv, StateAgrees, Reserve
<1>4. StateAgrees'
  BY DEF LedgerInv, TypeOK, StateAgrees, Reserve
<1>5. LedgerBalanced'
  <2> HIDE BudgetAssumption
  <2>1. N \in Nat /\ cost \in [1..N -> Nat] /\ latency \in [1..N -> Nat] /\ r \in 1..N
    BY BudgetAssumption DEF LedgerInv, TypeOK, Res
  <2>2. /\ cost' \in [1..N -> Nat] /\ cost'[r] = c
        /\ latency' \in [1..N -> Nat] /\ latency'[r] = l
        /\ {r} \subseteq active'
    BY <1>1, <2>1 DEF Reserve
  <2>3. ASSUME NEW S, S \subseteq active'
        PROVE  /\ Total(Masked(cost', active'), N)
                    = Total(Masked(cost', active' \ S), N) + Total(Masked(cost', S), N)
               /\ Total(Masked(latency', active'), N)
                    = Total(Masked(latency', active' \ S), N) + Total(Masked(latency', S), N)
    <3>1. N \in Nat /\ cost' \in [1..N -> Nat] /\ latency' \in [1..N -> Nat]
      BY <2>1, <2>2
    <3>2. Total(Masked(cost', active'), N)
            = Total(Masked(cost', active' \ S), N) + Total(Masked(cost', S), N)
      BY <2>3, <3>1, MaskedSplit, ZenonT(60)
    <3>3. Total(Masked(latency', active'), N)
            = Total(Masked(latency', active' \ S), N) + Total(Masked(latency', S), N)
      BY <2>3, <3>1, MaskedSplit, ZenonT(60)
    <3> QED
      BY <3>2, <3>3
  <2>4. Total(Masked(cost', {r}), N) = c /\ Total(Masked(latency', {r}), N) = l
    BY <2>1, <2>2, MaskedSingle
  <2>5. /\ Masked(cost', active' \ {r}) = Masked(cost, active)
        /\ Masked(latency', active' \ {r}) = Masked(latency, active)
    BY <1>3, <2>1 DEF Reserve, Masked
  <2> QED
    BY <2>2, <2>3, <2>4, <2>5 DEF LedgerInv, LedgerBalanced, Reserve
<1>6. BudgetSafe'
  <2>1. Committed' = Committed
    BY DEF LedgerInv, TypeOK, Committed, Reserve
  <2>2. Count(Committed, N) \in Nat
    BY CountFacts
  <2>3. SETTLE_EPS * Count(Committed, N) >= 0
    <3>1. \A a, b \in Nat : a * b >= 0
      OBVIOUS
    <3> QED
      BY <2>2, <3>1
  <2>4. SETTLE_EPS * Count(Committed, N) \in Int
    BY <2>2
  <2>5. spent + reserved + c <= MAX_REMOTE_BUDGET + RESERVE_EPS
    BY <1>1 DEF LedgerInv, TypeOK, Reserve, HasRoom
  <2>6. spent' + reserved' <= MAX_REMOTE_BUDGET + RESERVE_EPS
    BY <1>1, <2>5 DEF LedgerInv, TypeOK, Reserve
  <2>7. spent' + reserved' \in Int
    BY <1>2 DEF TypeOK
  <2> HIDE BudgetAssumption
  <2>8. MAX_REMOTE_BUDGET + RESERVE_EPS \in Int
    BY BudgetAssumption
  <2>9. spent' + reserved' <= MAX_REMOTE_BUDGET + RESERVE_EPS + SETTLE_EPS * Count(Committed, N)
    BY <2>3, <2>4, <2>6, <2>7, <2>8
  <2> QED
    BY <2>1, <2>9 DEF BudgetSafe, Committed
<1>7. LatencySafe'
  BY DEF LedgerInv, LatencySafe, Reserve
<1> QED
  BY <1>2, <1>4, <1>5, <1>6, <1>7 DEF LedgerInv

\* Dropping live reservations without recording anything keeps the invariant;
\* this is what a refused commit, a rollback and the reaper come down to.
LEMMA DropInv ==
  ASSUME LedgerInv, NEW S, S \subseteq active,
         state' = [q \in Res |-> IF q \in S THEN "rolled_back" ELSE state[q]],
         active' = active \ S,
         reserved' = Total(Masked(cost, active \ S), N),
         reservedLat' = Total(Masked(latency, active \ S), N),
         age' = age, reaperOn' = reaperOn, sleep' \in 0..REAPER_INTERVAL_SECONDS,
         UNCHANGED <<cost, latency, spent, usedLat>>
  PROVE  LedgerInv'
<1> USE BudgetAssumption
<1>1. /\ reserved' \in Nat /\ reservedLat' \in Nat
      /\ reserved' <= reserved /\ reserved \in Nat
  BY ReleaseExact
<1>2. TypeOK'
  BY <1>1 DEF LedgerInv, TypeOK, AgeCap
<1>3. StateAgrees'
  BY DEF LedgerInv, TypeOK, StateAgrees
<1>4. LedgerBalanced'
  BY DEF LedgerBalanced
<1>5. Committed' = Committed
  BY DEF LedgerInv, StateAgrees, Committed
<1>6. BudgetSafe'
  <2>1. SETTLE_EPS * Count(Committed, N) \in Int
    BY CountFacts
  <2>2. spent \in Int /\ MAX_REMOTE_BUDGET + RESERVE_EPS \in Int
    BY DEF LedgerInv, TypeOK
  <2>3. spent + reserved <= MAX_REMOTE_BUDGET + RESERVE_EPS + SETTLE_EPS * Count(Committed, N)
    BY DEF LedgerInv, BudgetSafe, Committed
  <2> HIDE BudgetAssumption
  <2>4. spent' + reserved' <= MAX_REMOTE_BUDGET + RESERVE_EPS + SETTLE_EPS * Count(Committed, N)
    BY <1>1, <2>1, <2>2, <2>3
  <2> QED
    BY <1>5, <2>4 DEF BudgetSafe, Committed
<1>7. LatencySafe'
  BY DEF LedgerInv, LatencySafe
<1> QED
  BY <1>2, <1>3, <1>4, <1>6, <1>7 DEF LedgerInv

\* A rollback returns exactly what was held.
LEMMA RollbackInv ==
  ASSUME LedgerInv, NEW r \in Res, Rollback(r)
  PROVE  LedgerInv'
<1>1. r \in active
  BY DEF Rollback
<1>2. /\ reserved' = Total(Masked(cost, active \ {r}), N)
      /\ reservedLat' = Total(Masked(latency, active \ {r}), N)
  BY <1>1, ReleaseOne, ClampNat DEF Rollback
<1>3. state' = [q \in Res |-> IF q \in {r} THEN "rolled_back" ELSE state[q]]
  BY DEF Rollback, LedgerInv, TypeOK
<1>4. sleep \in 0..REAPER_INTERVAL_SECONDS
  BY DEF LedgerInv, TypeOK
<1> QED
  BY <1>1, <1>2, <1>3, <1>4, DropInv DEF Rollback, clock

\* So does a refused commit, although it subtracts without a clamp.
LEMMA CommitRefusedInv ==
  ASSUME LedgerInv, NEW r \in Res, NEW ac \in Nat, NEW al \in Nat,
         CommitRefused(r, ac, al)
  PROVE  LedgerInv'
<1>1. r \in active
  BY DEF CommitRefused
<1>2. /\ reserved' = Total(Masked(cost, active \ {r}), N)
      /\ reservedLat' = Total(Masked(latency, active \ {r}), N)
  BY <1>1, ReleaseOne DEF CommitRefused
<1>3. state' = [q \in Res |-> IF q \in {r} THEN "rolled_back" ELSE state[q]]
  BY DEF CommitRefused, LedgerInv, TypeOK
<1>4. sleep \in 0..REAPER_INTERVAL_SECONDS
  BY DEF LedgerInv, TypeOK
<1> QED
  BY <1>1, <1>2, <1>3, <1>4, DropInv DEF CommitRefused, clock

\* So does the reaper, for all the expired reservations at once.
LEMMA ReapInv ==
  ASSUME LedgerInv, Reap
  PROVE  LedgerInv'
<1> DEFINE S == {r \in active : IsExpired(r)}
<1>1. S \subseteq active
  OBVIOUS
<1>2. /\ reserved' = Clamp(reserved - Total(Masked(cost, S), N))
      /\ reservedLat' = Clamp(reservedLat - Total(Masked(latency, S), N))
      /\ state' = [r \in Res |-> IF r \in S THEN "rolled_back" ELSE state[r]]
      /\ active' = active \ S
      /\ sleep' = REAPER_INTERVAL_SECONDS
      /\ UNCHANGED <<cost, latency, spent, usedLat, age, reaperOn>>
  BY DEF Reap
<1> HIDE DEF S
<1>3. /\ reserved' = Total(Masked(cost, active \ S), N)
      /\ reservedLat' = Total(Masked(latency, active \ S), N)
  BY <1>1, <1>2, ReleaseExact, ClampNat
<1>4. sleep' \in 0..REAPER_INTERVAL_SECONDS
  BY <1>2, BudgetAssumption
<1> QED
  BY <1>1, <1>2, <1>3, <1>4, DropInv

\* A commit replaces what was held by what was used: the ledger stays balanced,
\* and the spend grows past the hold by one tolerance at most.
LEMMA CommitInv ==
  ASSUME LedgerInv, NEW r \in Res, NEW ac \in Nat, NEW al \in Nat,
         CommitOk(r, ac, al)
  PROVE  LedgerInv'
<1> USE BudgetAssumption
<1>1. r \in active
  BY DEF CommitOk
<1>2. /\ cost[r] \in Nat /\ latency[r] \in Nat
      /\ reserved' = reserved - cost[r]
      /\ reserved' = Total(Masked(cost, active \ {r}), N)
      /\ reservedLat' = Total(Masked(latency, active \ {r}), N)
      /\ reserved' \in Nat /\ reservedLat' \in Nat
  BY <1>1, ReleaseOne, ClampNat DEF CommitOk
<1>3. TypeOK'
  BY <1>2 DEF LedgerInv, TypeOK, CommitOk, clock, AgeCap
<1>4. StateAgrees'
  BY DEF LedgerInv, TypeOK, StateAgrees, CommitOk
<1>5. LedgerBalanced'
  BY <1>2 DEF LedgerBalanced, CommitOk
<1>6. BudgetSafe'
  <2> DEFINE k == Count(Committed, N)
  <2>1. Committed' = Committed \union {r} /\ r \notin Committed
    BY <1>1 DEF LedgerInv, TypeOK, StateAgrees, Committed, CommitOk
  <2>2. k \in Nat /\ Count(Committed \union {r}, N) = k + 1
    BY <2>1, CountFacts DEF Res
  <2>3. spent + reserved <= MAX_REMOTE_BUDGET + RESERVE_EPS + SETTLE_EPS * k
    BY DEF LedgerInv, BudgetSafe, Committed
  <2>4. spent' + reserved' <= spent + reserved + SETTLE_EPS
    <3>1. cost[r] \in Int /\ spent \in Int /\ reserved \in Int /\ SETTLE_EPS \in Int
      BY <1>2 DEF LedgerInv, TypeOK
    <3>2. ac <= cost[r] + SETTLE_EPS
      BY <3>1 DEF CommitOk, CostExceeded
    <3>3. spent' = spent + ac /\ reserved' = reserved - cost[r]
      BY <1>2 DEF CommitOk
    <3> HIDE BudgetAssumption
    <3> QED
      BY <3>1, <3>2, <3>3
  <2>5. /\ spent' + reserved' \in Int
        /\ spent + reserved \in Int
        /\ MAX_REMOTE_BUDGET + RESERVE_EPS \in Int
        /\ SETTLE_EPS \in Int
    BY <1>3 DEF LedgerInv, TypeOK
  <2> HIDE DEF k
  <2> HIDE BudgetAssumption
  <2>6. SETTLE_EPS * (k + 1) = SETTLE_EPS * k + SETTLE_EPS /\ SETTLE_EPS * k \in Int
    BY <2>2, <2>5
  <2>7. spent' + reserved' <= MAX_REMOTE_BUDGET + RESERVE_EPS + SETTLE_EPS * (k + 1)
    BY <2>3, <2>4, <2>5, <2>6
  <2> QED
    BY <2>1, <2>2, <2>7 DEF BudgetSafe, Committed
<1>7. LatencySafe'
  BY DEF LedgerInv, TypeOK, LatencySafe, CommitOk, LatencyExceeded
<1> QED
  BY <1>3, <1>4, <1>5, <1>6, <1>7 DEF LedgerInv

\* Time and stopping the reaper leave the ledger alone.
LEMMA ClockInv ==
  ASSUME LedgerInv, Tick \/ StopReaper
  PROVE  LedgerInv'
<1> USE BudgetAssumption
<1>1. UNCHANGED <<state, active, cost, latency, reserved, reservedLat, spent, usedLat>>
  BY DEF Tick, StopReaper, ledger
<1>2. TypeOK'
  <2>1. CASE Tick
    BY <1>1, <2>1 DEF LedgerInv, TypeOK, Tick, AgeCap
  <2>2. CASE StopReaper
    BY <1>1, <2>2 DEF LedgerInv, TypeOK, StopReaper, AgeCap
  <2> QED
    BY <2>1, <2>2
<1> QED
  BY <1>1, <1>2 DEF LedgerInv, StateAgrees, LedgerBalanced, BudgetSafe, LatencySafe

\* Every step keeps the invariant.
LEMMA NextInv == LedgerInv /\ [Next]_bmVars => LedgerInv'
<1> SUFFICES ASSUME LedgerInv, [Next]_bmVars
             PROVE  LedgerInv'
  OBVIOUS
<1>1. ASSUME NEW r \in Res, NEW o \in Offers, Reserve(r, o[1], o[2])
      PROVE  LedgerInv'
  <2>1. o[1] \in Int /\ o[2] \in Int
    BY BudgetAssumption
  <2> QED
    BY <1>1, <2>1, ReserveInv
<1>2. ASSUME NEW r \in Res, Settle(r)
      PROVE  LedgerInv'
  <2>1. CASE Rollback(r)
    BY <2>1, RollbackInv
  <2>2. ASSUME NEW a \in Actuals, CommitOk(r, a[1], a[2]) \/ CommitRefused(r, a[1], a[2])
        PROVE  LedgerInv'
    <3>1. a[1] \in Nat /\ a[2] \in Nat
      BY BudgetAssumption
    <3> QED
      BY <2>2, <3>1, CommitInv, CommitRefusedInv
  <2> QED
    BY <1>2, <2>1, <2>2 DEF Settle
<1>3. CASE Reap
  BY <1>3, ReapInv
<1>4. CASE StopReaper \/ Tick
  BY <1>4, ClockInv
<1>5. CASE UNCHANGED bmVars
  BY <1>5 DEF bmVars, ledger, clock, LedgerInv, TypeOK, StateAgrees,
              LedgerBalanced, BudgetSafe, LatencySafe
<1> QED
  BY <1>1, <1>2, <1>3, <1>4, <1>5 DEF Next

\* The ledger invariant holds in every reachable state.
THEOREM LedgerCorrect == Spec => []LedgerInv
BY InitInv, NextInv, PTL DEF Spec

\* Type correctness.
THEOREM TypeCorrect == Spec => []TypeOK
<1>1. LedgerInv => TypeOK
  BY DEF LedgerInv
<1> QED
  BY <1>1, LedgerCorrect, PTL

\* Recorded spend plus live reservations never passes the budget by more than
\* the code's float tolerances.
THEOREM NoOverspend == Spec => []BudgetSafe
<1>1. LedgerInv => BudgetSafe
  BY DEF LedgerInv
<1> QED
  BY <1>1, LedgerCorrect, PTL

\* The counters are always worth what the live reservations hold.
THEOREM CountersBalanced == Spec => []LedgerBalanced
<1>1. LedgerInv => LedgerBalanced
  BY DEF LedgerInv
<1> QED
  BY <1>1, LedgerCorrect, PTL

\* The recorded latency never passes the global cap.
THEOREM NoLatencyBreach == Spec => []LatencySafe
<1>1. LedgerInv => LatencySafe
  BY DEF LedgerInv
<1> QED
  BY <1>1, LedgerCorrect, PTL

\* The state field and the dictionary agree.
THEOREM StatesAgree == Spec => []StateAgrees
<1>1. LedgerInv => StateAgrees
  BY DEF LedgerInv
<1> QED
  BY <1>1, LedgerCorrect, PTL

-----------------------------------------------------------------------------
\* Every step keeps the bound on how long a reservation is held.
LEMMA RecoveryStep ==
  ASSUME LedgerInv, RecoveredInTime, [Next]_bmVars
  PROVE  RecoveredInTime'
<1> USE BudgetAssumption
<1>1. /\ age \in [Res -> 0..AgeCap]
      /\ sleep \in 0..REAPER_INTERVAL_SECONDS
      /\ active \subseteq Res
      /\ RESERVATION_TTL_SECONDS \in Nat /\ REAPER_INTERVAL_SECONDS \in Nat
  BY DEF LedgerInv, TypeOK
<1>2. ASSUME NEW r \in Res, NEW o \in Offers, Reserve(r, o[1], o[2])
      PROVE  RecoveredInTime'
  <2>1. /\ active' = active \union {r} /\ age' = [age EXCEPT ![r] = 0]
        /\ sleep' = sleep /\ reaperOn' = reaperOn
    BY <1>2 DEF Reserve
  <2> QED
    BY <1>1, <2>1 DEF RecoveredInTime
<1>3. ASSUME NEW r \in Res, Settle(r)
      PROVE  RecoveredInTime'
  <2>1. /\ active' \subseteq active /\ age' = age
        /\ sleep' = sleep /\ reaperOn' = reaperOn
    BY <1>3 DEF Settle, CommitOk, CommitRefused, Rollback, clock
  <2> QED
    BY <2>1 DEF RecoveredInTime
<1>4. CASE Reap
  <2>1. /\ active' = active \ {r \in active : IsExpired(r)} /\ age' = age
        /\ sleep' = REAPER_INTERVAL_SECONDS
    BY <1>4 DEF Reap
  <2>2. \A r \in active' : age'[r] <= RESERVATION_TTL_SECONDS
    BY <1>1, <2>1 DEF IsExpired, AgeCap
  <2> QED
    BY <1>1, <2>1, <2>2 DEF RecoveredInTime, AgeCap
<1>5. CASE StopReaper
  BY <1>5 DEF StopReaper, RecoveredInTime
<1>6. CASE Tick
  <2> SUFFICES ASSUME reaperOn', NEW r \in active'
               PROVE  age'[r] + sleep' <= RESERVATION_TTL_SECONDS + REAPER_INTERVAL_SECONDS
    BY DEF RecoveredInTime
  <2>1. /\ reaperOn /\ r \in active /\ r \in Res
        /\ sleep > 0 /\ sleep' = sleep - 1
    BY <1>1, <1>6 DEF Tick, ledger
  <2>2. age'[r] \in Int /\ age[r] \in Int /\ age'[r] <= age[r] + 1
    BY <1>1, <1>6, <2>1 DEF Tick, AgeCap
  <2>3. age[r] + sleep <= RESERVATION_TTL_SECONDS + REAPER_INTERVAL_SECONDS
    BY <2>1 DEF RecoveredInTime
  <2> QED
    BY <1>1, <2>1, <2>2, <2>3
<1>7. CASE UNCHANGED bmVars
  BY <1>7 DEF bmVars, ledger, clock, RecoveredInTime
<1> QED
  BY <1>2, <1>3, <1>4, <1>5, <1>6, <1>7 DEF Next

\* While the reaper lives, no reservation outlives its TTL by more than one
\* reaper interval.
THEOREM TimelyRecovery == Spec => []RecoveredInTime
<1>1. Init => RecoveredInTime
  BY DEF Init, RecoveredInTime
<1>2. LedgerInv /\ RecoveredInTime /\ [Next]_bmVars => RecoveredInTime'
  BY RecoveryStep
<1> QED
  BY <1>1, <1>2, LedgerCorrect, PTL DEF Spec

\* A settled reservation is never settled again, by its owner or by the reaper,
\* and never comes back to life.
THEOREM SettlementFinal == Spec => SettledOnce
<1> DEFINE Final == \A r \in Res : state[r] \in {"committed", "rolled_back"}
                         => state'[r] = state[r] /\ r \notin active'
<1>1. ASSUME LedgerInv, [Next]_bmVars
      PROVE  Final \/ UNCHANGED bmVars
  <2> SUFFICES ASSUME NEW q \in Res, state[q] \in {"committed", "rolled_back"}, Next
               PROVE  state'[q] = state[q] /\ q \notin active'
    BY <1>1
  <2>1. q \notin active /\ state \in [Res -> {"unborn", "pending", "committed", "rolled_back"}]
    BY <1>1 DEF LedgerInv, StateAgrees, TypeOK
  <2>2. ASSUME NEW r \in Res, NEW o \in Offers, Reserve(r, o[1], o[2])
        PROVE  state'[q] = state[q] /\ q \notin active'
    BY <2>1, <2>2 DEF Reserve
  <2>3. ASSUME NEW r \in Res, Settle(r)
        PROVE  state'[q] = state[q] /\ q \notin active'
    BY <2>1, <2>3 DEF Settle, CommitOk, CommitRefused, Rollback
  <2>4. CASE Reap
    BY <2>1, <2>4 DEF Reap
  <2>5. CASE StopReaper \/ Tick
    BY <2>1, <2>5 DEF StopReaper, Tick, ledger
  <2> QED
    BY <2>2, <2>3, <2>4, <2>5 DEF Next
<1>2. LedgerInv /\ [Next]_bmVars => [Final]_bmVars
  BY <1>1
<1> QED
  BY <1>2, LedgerCorrect, PTL DEF Spec, SettledOnce

-----------------------------------------------------------------------------
\* The refinement mapping's holds.
Holds == [r \in Res |-> [money |-> cost[r], time |-> latency[r], phase |-> Phase(state[r])]]

\* Phases of the four states.
LEMMA PhaseValues ==
  /\ Phase("unborn") = "none"
  /\ Phase("pending") = "held"
  /\ Phase("committed") = "paid"
  /\ Phase("rolled_back") = "void"
BY DEF Phase

\* What the escrow computes from its holds is what the counters say.
LEMMA HeldIsReserved ==
  ASSUME LedgerInv
  PROVE  E!HeldMoney = reserved /\ E!HeldTime = reservedLat
<1>1. E!Held = active
  <2>1. \A r \in Res : Phase(state[r]) = "held" <=> state[r] = "pending"
    BY PhaseValues DEF LedgerInv, TypeOK
  <2> QED
    BY <2>1 DEF E!Held, Res, LedgerInv, StateAgrees
<1>2. [h \in 1..N |-> Holds[h].money] = cost /\ [h \in 1..N |-> Holds[h].time] = latency
  BY DEF Holds, Res, LedgerInv, TypeOK
<1>3. /\ E!HeldMoney = Total(Masked([h \in 1..N |-> Holds[h].money], E!Held), N)
      /\ E!HeldTime = Total(Masked([h \in 1..N |-> Holds[h].time], E!Held), N)
  <2>1. \A w, n : E!Total(w, n) = Total(w, n)
    BY Zenon DEF E!Total, Total, E!PrefixSum, PrefixSum
  <2>2. \A w, A : E!Masked(w, A) = Masked(w, A)
    BY Zenon DEF E!Masked, Masked
  <2> QED
    BY <2>1, <2>2, Zenon DEF E!HeldMoney, E!HeldTime, Holds
<1>4. /\ E!HeldMoney = Total(Masked(cost, active), N)
      /\ E!HeldTime = Total(Masked(latency, active), N)
  BY <1>1, <1>2, <1>3, Zenon
<1> QED
  BY <1>4 DEF LedgerInv, LedgerBalanced

\* Dropping live reservations voids their holds.
LEMMA DropVoids ==
  ASSUME LedgerInv, NEW S, S \subseteq active,
         state' = [q \in Res |-> IF q \in S THEN "rolled_back" ELSE state[q]],
         UNCHANGED <<cost, latency, spent, usedLat>>
  PROVE  E!Next
<1>1. \A h \in S : h \in Res /\ state[h] = "pending"
  BY DEF LedgerInv, StateAgrees
<1>2. \A h \in S : Holds[h].phase = "held"
  BY <1>1, PhaseValues DEF Holds
<1>3. Holds' = [h \in 1..N |-> IF h \in S THEN [Holds[h] EXCEPT !.phase = "void"] ELSE Holds[h]]
  BY <1>1, PhaseValues DEF Holds, Res, LedgerInv, TypeOK
<1>4. E!Void(S)
  BY <1>2, <1>3 DEF E!Void, Holds, Res
<1>5. S \in SUBSET (1..N)
  BY <1>1 DEF Res
<1> QED
  BY <1>4, <1>5 DEF E!Next

\* Admission places a hold that the pools can honour.
LEMMA ReserveHolds ==
  ASSUME LedgerInv, NEW r \in Res, NEW c \in Int, NEW l \in Int, Reserve(r, c, l)
  PROVE  E!Next
<1>1. c \in Nat /\ l \in Nat
  BY DEF Reserve, ValidArgs
<1>2. (E!HeldMoney = reserved)' /\ (E!HeldTime = reservedLat)'
  <2>1. LedgerInv'
    BY ReserveInv
  <2> QED
    BY <2>1, HeldIsReserved, PTL
<1>3. /\ Holds[r].phase = "none"
      /\ Holds'[r].phase = "held"
      /\ Holds'[r].money = c
      /\ Holds'[r].time = l
  BY PhaseValues DEF Holds, Reserve, LedgerInv, TypeOK
<1>4. Holds' = [Holds EXCEPT ![r] = Holds'[r]]
  BY DEF Holds, Reserve, LedgerInv, TypeOK
<1>5. /\ spent + reserved' <= MAX_REMOTE_BUDGET + RESERVE_EPS
      /\ usedLat + reservedLat' <= MAX_CUMULATIVE_LATENCY_MS + RESERVE_EPS
  BY <1>1, BudgetAssumption DEF Reserve, HasRoom, LedgerInv, TypeOK
<1>6. E!Hold(r)
  BY <1>1, <1>2, <1>3, <1>4, <1>5 DEF E!Hold, Holds, Reserve
<1> QED
  BY <1>6 DEF E!Next, Res

\* A commit pays its hold.
LEMMA CommitPays ==
  ASSUME LedgerInv, NEW r \in Res, NEW ac \in Nat, NEW al \in Nat, CommitOk(r, ac, al)
  PROVE  E!Next
<1>1. Holds[r].phase = "held" /\ Holds[r].money = cost[r]
  BY PhaseValues DEF Holds, CommitOk, LedgerInv, StateAgrees
<1>2. Holds' = [Holds EXCEPT ![r].phase = "paid"]
  BY PhaseValues DEF Holds, CommitOk, LedgerInv, TypeOK
<1>3. /\ spent' >= spent
      /\ spent' - spent <= cost[r] + SETTLE_EPS
      /\ usedLat' >= usedLat
      /\ usedLat' <= MAX_CUMULATIVE_LATENCY_MS + SETTLE_EPS
  BY BudgetAssumption DEF CommitOk, CostExceeded, LatencyExceeded, LedgerInv, TypeOK
<1>4. E!Pay(r)
  BY <1>1, <1>2, <1>3 DEF E!Pay, Holds
<1> QED
  BY <1>4 DEF E!Next, Res

\* The budget manager implements the escrow.
THEOREM Refinement == Spec => ImplementsEscrow
<1>1. Init => E!Init
  BY PhaseValues DEF Init, E!Init, Res
<1>2. ASSUME LedgerInv, [Next]_bmVars
      PROVE  [E!Next]_(E!escrowVars)
  <2>1. ASSUME NEW r \in Res, NEW o \in Offers, Reserve(r, o[1], o[2])
        PROVE  E!Next
    <3>1. o[1] \in Int /\ o[2] \in Int
      BY BudgetAssumption
    <3> QED
      BY <1>2, <2>1, <3>1, ReserveHolds
  <2>2. ASSUME NEW r \in Res, Settle(r)
        PROVE  E!Next
    <3>1. ASSUME Rollback(r) \/ \E ac, al : CommitRefused(r, ac, al)
          PROVE  E!Next
      <4>1. /\ {r} \subseteq active
            /\ state' = [q \in Res |-> IF q \in {r} THEN "rolled_back" ELSE state[q]]
            /\ UNCHANGED <<cost, latency, spent, usedLat>>
        BY <1>2, <3>1 DEF Rollback, CommitRefused, LedgerInv, TypeOK
      <4> QED
        BY <1>2, <4>1, DropVoids
    <3>2. ASSUME NEW a \in Actuals, CommitOk(r, a[1], a[2])
          PROVE  E!Next
      <4>1. a[1] \in Nat /\ a[2] \in Nat
        BY BudgetAssumption
      <4> QED
        BY <1>2, <3>2, <4>1, CommitPays
    <3> QED
      BY <2>2, <3>1, <3>2 DEF Settle
  <2>3. CASE Reap
    <3> DEFINE S == {r \in active : IsExpired(r)}
    <3>1. /\ S \subseteq active
          /\ state' = [q \in Res |-> IF q \in S THEN "rolled_back" ELSE state[q]]
          /\ UNCHANGED <<cost, latency, spent, usedLat>>
      BY <2>3 DEF Reap
    <3> HIDE DEF S
    <3>2. E!Next
      BY <1>2, <3>1, DropVoids
    <3> QED
      BY <3>2
  <2>4. CASE StopReaper \/ Tick \/ UNCHANGED bmVars
    <3>1. UNCHANGED <<state, cost, latency, spent, usedLat>>
      BY <2>4 DEF StopReaper, Tick, ledger, bmVars
    <3> QED
      BY <3>1 DEF E!escrowVars
  <2> QED
    BY <1>2, <2>1, <2>2, <2>3, <2>4 DEF Next
<1> QED
  BY <1>1, <1>2, LedgerCorrect, PTL DEF Spec, ImplementsEscrow, E!Spec
=============================================================================
