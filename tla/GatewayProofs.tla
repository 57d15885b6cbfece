---------------------------- MODULE GatewayProofs ----------------------------
(***************************************************************************)
(* POST /inference of app/main.py for any number of requests, any limits    *)
(* and any backends, with every await a possible switch of tasks: the       *)
(* ledger stays safe under its real caller, no slot and no reservation is   *)
(* left behind, a request is charged if and only if it is answered, and     *)
(* the handler keeps its contract with every client.                        *)
(***************************************************************************)
EXTENDS Gateway, SumProofs, FiniteSetTheorems, SequenceTheorems

\* The theorems of the ledger, whose callers are here the requests.
Ledger == INSTANCE BudgetManagerProofs WITH Offers <- {}, Actuals <- {}

LedgerInv ==
    /\ BM!TypeOK
    /\ BM!StateAgrees
    /\ BM!LedgerBalanced
    /\ BM!BudgetSafe
    /\ BM!LatencySafe

-----------------------------------------------------------------------------
\* The ledger inside the gateway

\* What the gateway assumes of its constants is what the ledger assumes.
LEMMA LedgerConstants ==
  /\ N \in Nat
  /\ MAX_REMOTE_BUDGET \in Nat \ {0}
  /\ MAX_CUMULATIVE_LATENCY_MS \in Nat
  /\ RESERVATION_TTL_SECONDS \in Nat
  /\ REAPER_INTERVAL_SECONDS \in Nat \ {0}
  /\ RESERVE_EPS \in Nat
  /\ SETTLE_EPS \in Nat
  /\ {} \subseteq Int \X Int
  /\ {} \subseteq Nat \X Nat
BY GatewayAssumption

\* The local queue has at least one slot.
LEMMA CapacityNat == LOCAL_QUEUE_CAPACITY \in Nat \ {0}
BY GatewayAssumption

\* Estimates are numbers.
LEMMA EstimateNat == Estimates \subseteq Nat
BY GatewayAssumption

\* So is what a backend reports.
LEMMA FiguresNat == RemoteResults \subseteq Nat \X Nat /\ LocalLatencies \subseteq Nat
BY GatewayAssumption

\* The two instances of BudgetManager, of the model and of its proofs, say the
\* same.
LEMMA SameInv == LedgerInv <=> Ledger!LedgerInv
<1>1. BM!TypeOK <=> Ledger!TypeOK
  BY DEF BM!TypeOK, Ledger!TypeOK, BM!Res, Ledger!Res, BM!AgeCap, Ledger!AgeCap
<1>2. BM!StateAgrees <=> Ledger!StateAgrees
  BY DEF BM!StateAgrees, Ledger!StateAgrees, BM!Res, Ledger!Res
<1>3. BM!LedgerBalanced <=> Ledger!LedgerBalanced
  BY Zenon DEF BM!LedgerBalanced, Ledger!LedgerBalanced, BM!Total, Ledger!Total,
               BM!PrefixSum, Ledger!PrefixSum, BM!Masked, Ledger!Masked
<1>4. BM!BudgetSafe <=> Ledger!BudgetSafe
  BY Zenon DEF BM!BudgetSafe, Ledger!BudgetSafe, BM!Count, Ledger!Count,
               BM!Total, Ledger!Total, BM!PrefixSum, Ledger!PrefixSum, BM!Res, Ledger!Res
<1>5. BM!LatencySafe <=> Ledger!LatencySafe
  BY DEF BM!LatencySafe, Ledger!LatencySafe
<1> QED
  BY <1>1, <1>2, <1>3, <1>4, <1>5 DEF LedgerInv, Ledger!LedgerInv

\* They say the same of the next state.
LEMMA SameInvNext == LedgerInv' <=> Ledger!LedgerInv'
BY SameInv, PTL

\* The ledger starts empty.
LEMMA LedgerInit == BM!Init => LedgerInv
<1>1. BM!Init => Ledger!Init
  BY DEF BM!Init, Ledger!Init, BM!Res, Ledger!Res
<1> QED
  BY <1>1, SameInv, LedgerConstants, Ledger!InitInv, Zenon

\* A step that leaves the budget manager alone keeps the ledger.
LEMMA LedgerUntouched ==
  ASSUME LedgerInv, UNCHANGED bmVars
  PROVE  LedgerInv'
<1>1. UNCHANGED Ledger!bmVars
  BY DEF bmVars, Ledger!bmVars, Ledger!ledger, Ledger!clock
<1>2. [Ledger!Next]_(Ledger!bmVars)
  BY <1>1
<1> QED
  BY <1>2, SameInv, SameInvNext, LedgerConstants, Ledger!NextInv, Zenon

\* So does a reservation.
LEMMA ReserveKeeps ==
  ASSUME LedgerInv, NEW r \in Req, NEW c \in Int, NEW l \in Int, BM!Reserve(r, c, l)
  PROVE  LedgerInv'
<1>1. Ledger!Reserve(r, c, l)
  BY DEF BM!Reserve, Ledger!Reserve, BM!ValidArgs, Ledger!ValidArgs, BM!HasRoom, Ledger!HasRoom
<1>2. r \in Ledger!Res
  BY DEF Req, Ledger!Res
<1> QED
  BY <1>1, <1>2, SameInv, SameInvNext, LedgerConstants, Ledger!ReserveInv, Zenon

\* So does a commit, granted or refused, with any figures.
LEMMA CommitKeeps ==
  ASSUME LedgerInv, NEW r \in Req, NEW ac \in Nat, NEW al \in Nat,
         BM!CommitOk(r, ac, al) \/ BM!CommitRefused(r, ac, al)
  PROVE  LedgerInv'
<1>1. r \in Ledger!Res
  BY DEF Req, Ledger!Res
<1>2. CASE BM!CommitOk(r, ac, al)
  <2>1. Ledger!CommitOk(r, ac, al)
    BY <1>2, Zenon
       DEF BM!CommitOk, Ledger!CommitOk, BM!CostExceeded, Ledger!CostExceeded,
           BM!LatencyExceeded, Ledger!LatencyExceeded, BM!clock, Ledger!clock,
           BM!Clamp, Ledger!Clamp
  <2> QED
    BY <1>1, <2>1, SameInv, SameInvNext, LedgerConstants, Ledger!CommitInv, Zenon
<1>3. CASE BM!CommitRefused(r, ac, al)
  <2>1. Ledger!CommitRefused(r, ac, al)
    BY <1>3, Zenon
       DEF BM!CommitRefused, Ledger!CommitRefused, BM!CostExceeded, Ledger!CostExceeded,
           BM!LatencyExceeded, Ledger!LatencyExceeded, BM!clock, Ledger!clock
  <2> QED
    BY <1>1, <2>1, SameInv, SameInvNext, LedgerConstants, Ledger!CommitRefusedInv, Zenon
<1> QED
  BY <1>2, <1>3

\* So does a rollback.
LEMMA RollbackKeeps ==
  ASSUME LedgerInv, NEW r \in Req, BM!Rollback(r)
  PROVE  LedgerInv'
<1>1. r \in Ledger!Res
  BY DEF Req, Ledger!Res
<1>2. Ledger!Rollback(r)
  BY Zenon DEF BM!Rollback, Ledger!Rollback, BM!clock, Ledger!clock, BM!Clamp, Ledger!Clamp
<1> QED
  BY <1>1, <1>2, SameInv, SameInvNext, LedgerConstants, Ledger!RollbackInv, Zenon

\* So do the reaper and the clock.
LEMMA BackgroundKeeps ==
  ASSUME LedgerInv, BM!Reap \/ BM!Tick
  PROVE  LedgerInv'
<1>1. CASE BM!Reap
  <2>1. Ledger!Reap
    BY <1>1, Zenon
       DEF BM!Reap, Ledger!Reap, BM!IsExpired, Ledger!IsExpired, BM!Res, Ledger!Res,
           BM!Clamp, Ledger!Clamp, BM!Total, Ledger!Total, BM!PrefixSum, Ledger!PrefixSum,
           BM!Masked, Ledger!Masked
  <2> QED
    BY <2>1, SameInv, SameInvNext, LedgerConstants, Ledger!ReapInv, Zenon
<1>2. CASE BM!Tick
  <2>1. Ledger!Tick
    BY <1>2, Zenon
       DEF BM!Tick, Ledger!Tick, BM!AgeCap, Ledger!AgeCap, BM!Res, Ledger!Res,
           BM!ledger, Ledger!ledger
  <2> QED
    BY <2>1, SameInv, SameInvNext, LedgerConstants, Ledger!ClockInv, Zenon
<1> QED
  BY <1>1, <1>2

-----------------------------------------------------------------------------
\* The inductive invariant

\* The routes a plan offers, and the plans that route() makes and what is left
\* of them.
Offered == {"LOCAL", "REMOTE", "QUEUE_LOCAL"}
Plans ==
    {<<>>, <<"LOCAL">>, <<"REMOTE">>, <<"QUEUE_LOCAL">>,
     <<"REMOTE", "LOCAL">>, <<"REMOTE", "QUEUE_LOCAL">>}

Quotes == [ask : Nat, tier : CC!Tiers, sla : Nat, depth : Nat, full : BOOLEAN,
           local : Nat, remote : Nat]

\* Where an except branch, a finally or a settled request goes.
Ends == {"record", "fallback", "500", "503", "cancelled"}

Typed ==
    /\ holders \subseteq Req
    /\ est \in [Backends -> Estimates]
    /\ pc \in [Req -> Stages]
    /\ quote \in [Req -> Quotes]
    /\ plan \in [Req -> Plans]
    /\ route \in [Req -> DA!Routes \union {"none"}]
    /\ result \in [Req -> Nat \X Nat]
    /\ goal \in [Req -> Ends \union {"none"}]
    /\ status \in [Req -> {0, 200, 500, 503}]
    /\ running \in Req \union {NoOne}
    /\ billed \in Nat

\* The reservation of r was made and has not been charged.
Uncharged(r) == state[r] \in {"pending", "rolled_back"}

\* r may be answered 200: it is charged, or it is a free local fallback.
Earned(r) ==
    \/ state[r] = "committed"
    \/ state[r] = "rolled_back" /\ route[r] = "QUEUE_LOCAL" /\ result[r][1] = 0

\* What is known of a request at each stage: its reservation, where it is bound
\* for, its answer and its slot.
Journey(r) ==
    /\ status[r] = 0 <=> pc[r] # "done"
    /\ pc[r] \in {"new", "routing"} => state[r] = "unborn"
    /\ pc[r] \in {"admitted", "remote_io", "local_io", "settle", "cleanup", "cancelled"}
          => Uncharged(r)
    /\ pc[r] \in {"fallback", "fallback_io"} => state[r] = "rolled_back"
    /\ pc[r] = "admitted" => route[r] \in Offered
    /\ pc[r] = "local_io" => route[r] # "REMOTE"
    /\ pc[r] = "cleanup" => goal[r] \in {"503", "fallback"}
    /\ pc[r] = "leave" =>
          \/ goal[r] = "record" /\ Earned(r)
          \/ goal[r] = "500" /\ state[r] = "rolled_back"
          \/ goal[r] = "cancelled" /\ Uncharged(r)
    /\ pc[r] = "record" => Earned(r)
    /\ pc[r] = "done" =>
          IF status[r] = 200 THEN Earned(r) ELSE state[r] \in {"unborn", "rolled_back"}
    /\ pc[r] \in {"local_io", "fallback_io", "leave"} => r \in holders
    /\ r \in holders =>
          \/ pc[r] \in {"local_io", "fallback_io", "leave"}
          \/ pc[r] = "settle" /\ route[r] # "REMOTE"

\* The recorded spend and latency are what the committed requests reported.
Committed == {r \in Req : state[r] = "committed"}
Costs == [r \in Req |-> result[r][1]]
Latencies == [r \in Req |-> result[r][2]]
BooksMatch ==
    /\ spent = Total(Masked(Costs, Committed), N)
    /\ usedLat = Total(Masked(Latencies, Committed), N)

\* The inductive invariant.
GatewayInv ==
    /\ LedgerInv
    /\ Typed
    /\ QM!SlotsAgree
    /\ \A r \in Req : Journey(r)
    /\ BooksMatch

-----------------------------------------------------------------------------
\* The operators of the model

\* A product of naturals is a natural.
LEMMA ProductNat == \A x, y \in Nat : x * y \in Nat
OBVIOUS

\* Two one-element sequences make a pair.
LEMMA Pair ==
  ASSUME NEW S, NEW a \in S, NEW b \in S
  PROVE  <<a>> \o <<b>> = <<a, b>>
<1> DEFINE s == <<a>> \o <<b>>
           t == <<a, b>>
<1>1. s \in Seq(S) /\ t \in Seq(S)
  OBVIOUS
<1>2. Len(s) = 2 /\ Len(t) = 2
  OBVIOUS
<1>3. s[1] = a /\ s[2] = b
  OBVIOUS
<1>4. t[1] = a /\ t[2] = b
  OBVIOUS
<1> HIDE DEF s, t
<1>5. \A i \in 1..Len(s) : s[i] = t[i]
  BY <1>2, <1>3, <1>4
<1>6. s = t
  BY <1>1, <1>2, <1>5, SeqEqual
<1> QED
  BY <1>6 DEF s, t

\* What a plan offers next is a route, and what is left of it is a plan.
LEMMA PlanSteps ==
  ASSUME NEW p \in Plans
  PROVE  /\ p \in Seq(DA!Routes)
         /\ Len(p) <= 2
         /\ p # <<>> => Head(p) \in Offered /\ Tail(p) \in Plans
<1>1. CASE p = <<>>
  BY <1>1
<1>2. CASE p \in {<<"LOCAL">>, <<"REMOTE">>, <<"QUEUE_LOCAL">>}
  <2>1. PICK w \in Offered : p = <<w>>
    BY <1>2 DEF Offered
  <2>2. Head(p) = w /\ Tail(p) = <<>> /\ Len(p) = 1
    BY <2>1
  <2> QED
    BY <2>1, <2>2 DEF Plans, Offered, DA!Routes
<1>3. CASE p = <<"REMOTE", "LOCAL">>
  BY <1>3 DEF Plans, Offered, DA!Routes
<1>4. CASE p = <<"REMOTE", "QUEUE_LOCAL">>
  BY <1>4 DEF Plans, Offered, DA!Routes
<1> QED
  BY <1>1, <1>2, <1>3, <1>4 DEF Plans

\* The ways to join an optional remote path and an optional local one.
LEMMA Joined ==
  ASSUME NEW a \in BOOLEAN, NEW b \in BOOLEAN, NEW w \in {"LOCAL", "QUEUE_LOCAL"}
  PROVE  DA!When(a, "REMOTE") \o DA!When(b, w) =
            IF a THEN IF b THEN <<"REMOTE", w>> ELSE <<"REMOTE">>
                 ELSE IF b THEN <<w>> ELSE <<>>
<1>1. <<"REMOTE">> \o <<w>> = <<"REMOTE", w>>
  <2>1. "REMOTE" \in DA!Routes /\ w \in DA!Routes
    BY DEF DA!Routes
  <2> QED
    BY <2>1, Pair
<1>2. <<"REMOTE">> \o <<>> = <<"REMOTE">> /\ <<>> \o <<w>> = <<w>> /\ <<>> \o <<>> = <<>>
  OBVIOUS
<1> QED
  BY <1>1, <1>2 DEF DA!When

\* Every plan route() makes is one of Plans.
LEMMA PlanMade ==
  ASSUME NEW q \in Quotes
  PROVE  DA!Plan(q) \in Plans
<1> DEFINE w == IF DA!LocalWithinSla(q) THEN "LOCAL" ELSE "QUEUE_LOCAL"
<1>1. w \in {"LOCAL", "QUEUE_LOCAL"} /\ "QUEUE_LOCAL" \in {"LOCAL", "QUEUE_LOCAL"}
  OBVIOUS
<1>2. DA!RemoteWithinSla(q) \in BOOLEAN /\ (~q.full) \in BOOLEAN
  BY DEF DA!RemoteWithinSla
<1>3. DA!QualityPlan(q) \in Plans
  <2>1. DA!QualityPlan(q) = DA!When(DA!RemoteWithinSla(q), "REMOTE") \o DA!When(~q.full, w)
    BY DEF DA!QualityPlan
  <2> HIDE DEF w
  <2> QED
    BY <1>1, <1>2, <2>1, Joined DEF Plans
<1>4. DA!FastPlan(q) \in Plans
  <2>1. DA!When(DA!RemoteWithinSla(q), "REMOTE") \o DA!When(~q.full, "QUEUE_LOCAL") \in Plans
    BY <1>1, <1>2, Joined DEF Plans
  <2> QED
    BY <2>1 DEF DA!FastPlan, Plans
<1> QED
  BY <1>3, <1>4 DEF DA!Plan

-----------------------------------------------------------------------------
\* Moving a request

\* The requests other than r see nothing of the step.
Apart(r) ==
    \A q \in Req \ {r} :
        /\ pc'[q] = pc[q] /\ status'[q] = status[q] /\ goal'[q] = goal[q]
        /\ route'[q] = route[q] /\ result'[q] = result[q] /\ state'[q] = state[q]
        /\ q \in holders' <=> q \in holders

\* What the step may do to r: it is not answered yet, and its reservation is
\* left alone, made, charged, or released with no answer but an error.
Moved(r) ==
    /\ pc[r] \notin {"done", "cancelled"}
    /\ \/ /\ state'[r] = state[r]
          /\ state[r] = "committed" => result'[r] = result[r]
          /\ spent' = spent
       \/ /\ state[r] = "unborn" /\ state'[r] = "pending"
          /\ pc'[r] \notin {"done", "cancelled"}
          /\ spent' = spent
       \/ /\ state[r] = "pending" /\ state'[r] = "committed"
          /\ pc'[r] \notin {"done", "cancelled"}
          /\ result'[r] = result[r]
          /\ spent' = spent + result[r][1]
       \/ /\ state[r] = "pending" /\ state'[r] = "rolled_back"
          /\ pc'[r] # "cancelled" /\ status'[r] # 200
          /\ spent' = spent

\* What the two moves of the control assign.
LEMMA Moves ==
  ASSUME Typed, NEW r \in Req
  PROVE  /\ \A s \in Stages : GoTo(r, s) =>
                /\ pc' \in [Req -> Stages]
                /\ running' \in Req \union {NoOne}
                /\ pc'[r] = s
                /\ \A q \in Req \ {r} : pc'[q] = pc[q]
         /\ \A code \in {200, 500, 503} : Answer(r, code) =>
                /\ pc' \in [Req -> Stages]
                /\ status' \in [Req -> {0, 200, 500, 503}]
                /\ running' \in Req \union {NoOne}
                /\ pc'[r] = "done"
                /\ status'[r] = code
                /\ \A q \in Req \ {r} : pc'[q] = pc[q] /\ status'[q] = status[q]
<1>1. \A s \in Stages : GoTo(r, s) =>
                /\ pc' \in [Req -> Stages]
                /\ running' \in Req \union {NoOne}
                /\ pc'[r] = s
                /\ \A q \in Req \ {r} : pc'[q] = pc[q]
  BY DEF Typed, GoTo
<1>2. \A code \in {200, 500, 503} : Answer(r, code) =>
                /\ pc' \in [Req -> Stages]
                /\ status' \in [Req -> {0, 200, 500, 503}]
                /\ running' \in Req \union {NoOne}
                /\ pc'[r] = "done"
                /\ status'[r] = code
                /\ \A q \in Req \ {r} : pc'[q] = pc[q] /\ status'[q] = status[q]
  BY DEF Typed, Answer, Stages
<1> QED
  BY <1>1, <1>2

\* Where a request bound for g arrives, and with which answer.
Stage(g) == IF g \in {"500", "503"} THEN "done" ELSE g
Code(g) == IF g = "500" THEN 500 ELSE IF g = "503" THEN 503 ELSE 0

\* What r gets when it goes to g.
Arrives(r, g) ==
    /\ pc' \in [Req -> Stages]
    /\ status' \in [Req -> {0, 200, 500, 503}]
    /\ running' \in Req \union {NoOne}
    /\ pc'[r] = Stage(g)
    /\ status'[r] = IF Code(g) = 0 THEN status[r] ELSE Code(g)
    /\ \A q \in Req \ {r} : pc'[q] = pc[q] /\ status'[q] = status[q]

\* A request goes to its goal.
LEMMA GoalReached ==
  ASSUME Typed, NEW r \in Req, NEW g \in Ends, ToGoal(r, g)
  PROVE  Arrives(r, g)
<1>1. CASE g = "500"
  BY <1>1, Moves DEF ToGoal, Arrives, Stage, Code
<1>2. CASE g = "503"
  BY <1>2, Moves DEF ToGoal, Arrives, Stage, Code
<1>3. CASE g = "cancelled"
  BY <1>3 DEF ToGoal, Arrives, Stage, Code, Typed, Stages
<1>4. CASE g \in {"record", "fallback"}
  <2>1. GoTo(r, g) /\ UNCHANGED status
    BY <1>4 DEF ToGoal
  <2>2. g \in Stages
    BY <1>4 DEF Stages
  <2> QED
    BY <1>4, <2>1, <2>2, Moves DEF Arrives, Stage, Code, Typed
<1> QED
  BY <1>1, <1>2, <1>3, <1>4 DEF Ends

\* A settled request goes to its goal at once, or through the finally of its
\* slot.
LEMMA LeavesFor ==
  ASSUME Typed, NEW r \in Req, NEW g \in Ends, LeaveFor(r, g)
  PROVE  /\ pc' \in [Req -> Stages]
         /\ status' \in [Req -> {0, 200, 500, 503}]
         /\ running' \in Req \union {NoOne}
         /\ goal' \in [Req -> Ends \union {"none"}]
         /\ r \in holders => pc'[r] = "leave" /\ goal'[r] = g /\ status'[r] = status[r]
         /\ r \notin holders => Arrives(r, g) /\ UNCHANGED goal
         /\ \A q \in Req \ {r} :
               pc'[q] = pc[q] /\ status'[q] = status[q] /\ goal'[q] = goal[q]
<1>1. CASE r \in holders
  <2>1. GoTo(r, "leave") /\ goal' = [goal EXCEPT ![r] = g] /\ UNCHANGED status
    BY <1>1 DEF LeaveFor
  <2>2. "leave" \in Stages
    BY DEF Stages
  <2> QED
    BY <1>1, <2>1, <2>2, Moves DEF Typed
<1>2. CASE r \notin holders
  <2>1. ToGoal(r, g) /\ UNCHANGED goal
    BY <1>2 DEF LeaveFor
  <2>2. Arrives(r, g)
    BY <2>1, GoalReached
  <2> QED
    BY <1>2, <2>1, <2>2 DEF Arrives, Typed
<1> QED
  BY <1>1, <1>2

\* An except branch goes to its goal at once, or to a rollback first.
LEMMA CleansUp ==
  ASSUME Typed, NEW r \in Req, NEW g \in Ends, CleanUpThen(r, g)
  PROVE  /\ pc' \in [Req -> Stages]
         /\ status' \in [Req -> {0, 200, 500, 503}]
         /\ running' \in Req \union {NoOne}
         /\ goal' \in [Req -> Ends \union {"none"}]
         /\ goal'[r] = g
         /\ state[r] = "pending" => pc'[r] = "cleanup" /\ status'[r] = status[r]
         /\ state[r] # "pending" => Arrives(r, g)
         /\ \A q \in Req \ {r} :
               pc'[q] = pc[q] /\ status'[q] = status[q] /\ goal'[q] = goal[q]
<1>1. goal' = [goal EXCEPT ![r] = g]
  BY DEF CleanUpThen
<1>2. CASE state[r] = "pending"
  <2>1. GoTo(r, "cleanup") /\ UNCHANGED status
    BY <1>2 DEF CleanUpThen
  <2>2. "cleanup" \in Stages
    BY DEF Stages
  <2> QED
    BY <1>1, <1>2, <2>1, <2>2, Moves DEF Typed
<1>3. CASE state[r] # "pending"
  <2>1. ToGoal(r, g)
    BY <1>3 DEF CleanUpThen
  <2>2. Arrives(r, g)
    BY <2>1, GoalReached
  <2> QED
    BY <1>1, <1>3, <2>2 DEF Arrives, Typed
<1> QED
  BY <1>2, <1>3

-----------------------------------------------------------------------------
\* What a step has to show

\* The slots: the callers inside one are finitely many.
LEMMA SlotCount ==
  ASSUME Typed
  PROVE  /\ IsFiniteSet(holders)
         /\ Cardinality(holders) \in Nat
         /\ \A r \in holders : Cardinality(holders \ {r}) = Cardinality(holders) - 1
         /\ \A r : r \notin holders => Cardinality(holders \union {r}) = Cardinality(holders) + 1
<1>1. IsFiniteSet(Req)
  BY GatewayAssumption, FS_Interval DEF Req
<1>2. IsFiniteSet(holders)
  BY <1>1, FS_Subset DEF Typed
<1> QED
  BY <1>2, FS_CardinalityType, FS_AddElement, FS_RemoveElement

\* The queue monitor's own instance counts alike.
LEMMA SlotsCounted ==
  /\ QM!Cardinality(holders) = Cardinality(holders)
  /\ (QM!Cardinality(holders) = Cardinality(holders))'
BY Zenon DEF QM!Cardinality, Cardinality

\* Neither the counter nor the semaphore leaves its range.
LEMMA SlotRange ==
  ASSUME Typed, QM!SlotsAgree
  PROVE  activeCount \in 0..LOCAL_QUEUE_CAPACITY /\ semaphore \in 0..LOCAL_QUEUE_CAPACITY
<1>1. Cardinality(holders) \in Nat
  BY SlotCount
<1>2. activeCount \in Nat
  BY <1>1, SlotsCounted DEF QM!SlotsAgree
<1> QED
  BY <1>2, CapacityNat DEF QM!SlotsAgree

\* The estimates are amounts.
LEMMA EstimatesTyped ==
  ASSUME Typed
  PROVE  est["local"] \in Nat /\ est["remote"] \in Nat
<1>1. est \in [Backends -> Estimates]
  BY DEF Typed
<1>2. "local" \in Backends /\ "remote" \in Backends
  BY DEF Backends
<1> QED
  BY <1>1, <1>2, EstimateNat

\* acquire() lets one more request in.
LEMMA AcquireSlot ==
  ASSUME Typed, QM!SlotsAgree, NEW r \in Req, r \notin holders, QM!Acquire(r)
  PROVE  /\ QM!SlotsAgree'
         /\ holders' \subseteq Req
         /\ r \in holders'
         /\ \A q \in Req \ {r} : q \in holders' <=> q \in holders
<1>1. holders' = holders \union {r}
  BY DEF QM!Acquire
<1>2. Cardinality(holders') = Cardinality(holders) + 1
  BY <1>1, SlotCount
<1>3. activeCount \in Nat /\ semaphore \in Nat
  BY SlotRange, CapacityNat
<1>4. QM!SlotsAgree'
  BY <1>2, <1>3, CapacityNat, SlotsCounted DEF QM!SlotsAgree, QM!Acquire
<1> QED
  BY <1>1, <1>4 DEF Typed

\* release() lets one out, and finds it counted.
LEMMA ReleaseSlot ==
  ASSUME Typed, QM!SlotsAgree, NEW r \in Req, r \in holders, QM!Release(r)
  PROVE  /\ QM!SlotsAgree'
         /\ holders' \subseteq Req
         /\ r \notin holders'
         /\ \A q \in Req \ {r} : q \in holders' <=> q \in holders
<1>1. holders' = holders \ {r}
  BY DEF QM!Release
<1>2. Cardinality(holders') = Cardinality(holders) - 1
  BY <1>1, SlotCount
<1>3. activeCount \in Nat /\ semaphore \in Nat
  BY SlotRange, CapacityNat
<1>4. activeCount > 0
  <2>1. Cardinality(holders) # 0
    BY SlotCount, FS_EmptySet
  <2> QED
    BY <1>3, <2>1, SlotsCounted DEF QM!SlotsAgree
<1>5. QM!SlotsAgree'
  BY <1>2, <1>3, <1>4, CapacityNat, SlotsCounted DEF QM!SlotsAgree, QM!Release
<1> QED
  BY <1>1, <1>5 DEF Typed

\* What the ledger's invariant says of the reservations' states.
LEMMA StateTyped ==
  ASSUME LedgerInv
  PROVE  /\ state \in [Req -> {"unborn", "pending", "committed", "rolled_back"}]
         /\ \A r \in Req : r \in active <=> state[r] = "pending"
         /\ spent \in Nat /\ usedLat \in Nat
BY DEF LedgerInv, BM!TypeOK, BM!StateAgrees, BM!Res, Req

\* The figures the requests report are amounts.
LEMMA FiguresTyped ==
  ASSUME Typed
  PROVE  /\ Costs \in [1..N -> Nat] /\ Latencies \in [1..N -> Nat]
         /\ \A r \in Req : /\ Costs[r] = result[r][1] /\ Latencies[r] = result[r][2]
                           /\ result[r][1] \in Nat /\ result[r][2] \in Nat
BY DEF Typed, Costs, Latencies, Req

\* The books stay matched when the same requests are committed and none of them
\* reports anew.
LEMMA BooksKept ==
  ASSUME BooksMatch, UNCHANGED <<spent, usedLat>>, Committed' = Committed,
         \A r \in Committed : result'[r] = result[r]
  PROVE  BooksMatch'
<1>1. Masked(Costs, Committed)' = Masked(Costs, Committed)
  BY DEF Masked, Costs, Committed
<1>2. Masked(Latencies, Committed)' = Masked(Latencies, Committed)
  BY DEF Masked, Latencies, Committed
<1> QED
  BY <1>1, <1>2, Zenon DEF BooksMatch

\* A step of r that other requests do not see keeps what is known of them.
LEMMA OthersKept ==
  ASSUME \A q \in Req : Journey(q), NEW r \in Req, Apart(r), Journey(r)'
  PROVE  \A q \in Req : Journey(q)'
<1> SUFFICES ASSUME NEW q \in Req \ {r}
             PROVE  Journey(q)'
  OBVIOUS
<1> QED
  BY DEF Journey, Uncharged, Earned, Apart

\* A step of r that charges nothing.
LEMMA StepKeeps ==
  ASSUME GatewayInv, NEW r \in Req, Apart(r), LedgerInv', Typed', QM!SlotsAgree',
         Journey(r)', Moved(r), UNCHANGED <<spent, usedLat>>,
         state'[r] = "committed" <=> state[r] = "committed"
  PROVE  GatewayInv' /\ Apart(r) /\ Moved(r)
<1>1. \A q \in Req : Journey(q)'
  BY OthersKept DEF GatewayInv
<1>2. Committed' = Committed /\ \A q \in Committed : result'[q] = result[q]
  BY DEF Committed, Apart, Moved
<1>3. BooksMatch'
  BY <1>2, BooksKept DEF GatewayInv
<1> QED
  BY <1>1, <1>3 DEF GatewayInv

\* A step of r that leaves the ledger and the slots alone.
LEMMA QuietKeeps ==
  ASSUME GatewayInv, NEW r \in Req, UNCHANGED <<bmVars, qmVars>>, Apart(r), Typed',
         Journey(r)', pc[r] \notin {"done", "cancelled"},
         state[r] = "committed" => result'[r] = result[r]
  PROVE  GatewayInv' /\ Apart(r) /\ Moved(r)
<1>1. LedgerInv'
  BY LedgerUntouched DEF GatewayInv
<1>2. QM!SlotsAgree'
  BY DEF GatewayInv, QM!SlotsAgree, qmVars
<1>3. Moved(r)
  BY DEF Moved, bmVars
<1> QED
  BY <1>1, <1>2, <1>3, StepKeeps DEF bmVars

-----------------------------------------------------------------------------
\* The actions keep the invariant

\* The gateway starts with an empty ledger and nobody inside.
LEMMA GatewayInit == Init => GatewayInv
<1> SUFFICES ASSUME Init
             PROVE  GatewayInv
  OBVIOUS
<1>1. LedgerInv
  BY LedgerInit DEF Init
<1>2. DA!NoQuote \in Quotes
  BY DEF DA!NoQuote, DA!Quote, Quotes, CC!Tiers
<1>3. Typed
  BY <1>2, GatewayAssumption DEF Init, QM!Init, Typed, Plans, Ends, Stages
<1>4. QM!SlotsAgree
  <2>1. Cardinality({}) = 0
    BY FS_EmptySet
  <2>2. holders = {} /\ activeCount = 0 /\ semaphore = LOCAL_QUEUE_CAPACITY
    BY DEF Init, QM!Init
  <2> QED
    BY <2>1, <2>2, CapacityNat, SlotsCounted DEF QM!SlotsAgree
<1>5. \A r \in Req : state[r] = "unborn"
  BY DEF Init, BM!Init, BM!Res, Req
<1>6. \A r \in Req : Journey(r)
  BY <1>5 DEF Init, QM!Init, Journey
<1>7. BooksMatch
  <2>1. Committed = {}
    BY <1>5 DEF Committed
  <2>2. N \in Nat /\ spent = 0 /\ usedLat = 0
    BY GatewayAssumption DEF Init, BM!Init
  <2> QED
    BY <1>3, <2>1, <2>2, FiguresTyped, MaskedEmpty DEF BooksMatch
<1> QED
  BY <1>1, <1>3, <1>4, <1>6, <1>7 DEF GatewayInv

\* A request arrives; what route() reads makes a plan.
LEMMA ArriveStep ==
  ASSUME GatewayInv, NEW r \in Req, NEW ask \in DOMAIN Asks, NEW sla \in Slas,
         Arrive(r, ask, sla)
  PROVE  GatewayInv' /\ Apart(r) /\ Moved(r)
<1> DEFINE q == DA!Quote(ask, CC!TierOf(Asks[ask]), sla, activeCount, QM!IsAtCapacity,
                         est["local"], est["remote"])
<1>1. q \in Quotes
  <2>1. ask \in Nat /\ sla \in Nat /\ Asks[ask] \in CC!Ask
    BY GatewayAssumption
  <2>2. CC!TierOf(Asks[ask]) \in CC!Tiers
    BY <2>1 DEF CC!Ask, CC!TierOf, CC!Classify, CC!Tiers
  <2>3. activeCount \in Nat
    BY SlotRange, CapacityNat DEF GatewayInv
  <2>4. est["local"] \in Nat /\ est["remote"] \in Nat
    BY EstimatesTyped DEF GatewayInv
  <2>5. est["local"] * (activeCount + 1) \in Nat
    BY <2>3, <2>4, ProductNat
  <2>6. QM!IsAtCapacity \in BOOLEAN
    BY DEF QM!IsAtCapacity
  <2> QED
    BY <2>1, <2>2, <2>3, <2>4, <2>5, <2>6 DEF DA!Quote, Quotes
<1>2. DA!Plan(q) \in Plans
  BY <1>1, PlanMade
<1>3. /\ pc[r] = "new"
      /\ quote' = [quote EXCEPT ![r] = q]
      /\ plan' = [plan EXCEPT ![r] = DA!Plan(q)]
      /\ GoTo(r, "routing")
      /\ UNCHANGED <<bmVars, qmVars, est, route, result, goal, status, billed>>
  BY DEF Arrive, At
<1> HIDE DEF q
<1>4. "routing" \in Stages
  BY DEF Stages
<1>5. Typed
  BY DEF GatewayInv
<1>6. Typed'
  BY <1>1, <1>2, <1>3, <1>4, <1>5, Moves DEF Typed, qmVars
<1>7. Apart(r)
  BY <1>3, <1>4, <1>5, Moves DEF Apart, bmVars, qmVars
<1>8. Journey(r)'
  BY <1>3, <1>4, <1>5, Moves DEF GatewayInv, Journey, bmVars, qmVars
<1> QED
  BY <1>3, <1>6, <1>7, <1>8, QuietKeeps
\* try_reserve grants a path.
LEMMA AdmitStep ==
  ASSUME GatewayInv, NEW r \in Req, Admit(r)
  PROVE  GatewayInv' /\ Apart(r) /\ Moved(r)
<1>1. /\ pc[r] = "routing"
      /\ plan[r] # <<>>
      /\ BM!Reserve(r, PathCost(r), PathLatency(r))
      /\ route' = [route EXCEPT ![r] = Path(r)]
      /\ plan' = [plan EXCEPT ![r] = <<>>]
      /\ quote' = [quote EXCEPT ![r] = DA!NoQuote]
      /\ GoTo(r, "admitted")
      /\ UNCHANGED <<qmVars, est, result, goal, status, billed>>
  BY DEF Admit, At
<1>2. Typed /\ LedgerInv
  BY DEF GatewayInv
<1>3. Path(r) \in Offered
  <2>1. plan[r] \in Plans
    BY <1>2 DEF Typed
  <2> QED
    BY <1>1, <2>1, PlanSteps DEF Path
<1>4. PathCost(r) \in Int /\ PathLatency(r) \in Int
  <2>1. PathCost(r) \in Int
    BY GatewayAssumption DEF PathCost, DA!AskedCost
  <2>2. quote[r].remote \in Nat /\ quote[r].local \in Nat /\ quote[r].depth \in Nat
    BY <1>2 DEF Typed, Quotes
  <2>3. est["local"] \in Nat
    BY <1>2, EstimatesTyped
  <2>4. est["local"] * (quote[r].depth + 1) \in Int
    BY <2>2, <2>3
  <2> QED
    BY <1>3, <2>1, <2>2, <2>4 DEF PathLatency, DA!AskedLatency, Offered
<1>5. LedgerInv'
  BY <1>1, <1>2, <1>4, ReserveKeeps
<1>6. state' = [state EXCEPT ![r] = "pending"] /\ UNCHANGED <<spent, usedLat>>
  BY <1>1 DEF BM!Reserve
<1>7. "admitted" \in Stages /\ <<>> \in Plans /\ Path(r) \in DA!Routes
  BY <1>3 DEF Stages, Plans, Offered, DA!Routes
<1>8. DA!NoQuote \in Quotes
  BY DEF DA!NoQuote, DA!Quote, Quotes, CC!Tiers
<1>9. Typed'
  BY <1>1, <1>2, <1>7, <1>8, Moves DEF Typed, qmVars
<1>10. QM!SlotsAgree'
  BY <1>1 DEF GatewayInv, QM!SlotsAgree, qmVars
<1>11. Apart(r)
  BY <1>1, <1>2, <1>6, <1>7, Moves, StateTyped DEF Apart, qmVars, Typed
<1>12. state[r] = "unborn" /\ state'[r] = "pending"
  BY <1>1, <1>2, <1>6, StateTyped DEF GatewayInv, Journey
<1>13. Journey(r)'
  <2>1. pc'[r] = "admitted" /\ route'[r] = Path(r) /\ status'[r] = status[r]
    BY <1>1, <1>2, <1>7, Moves DEF Typed
  <2>2. status[r] = 0 /\ r \notin holders'
    BY <1>1 DEF GatewayInv, Journey, qmVars
  <2> QED
    BY <1>3, <1>12, <2>1, <2>2 DEF Journey, Uncharged
<1>14. Moved(r)
  <2>1. pc'[r] = "admitted"
    BY <1>1, <1>2, <1>7, Moves
  <2> QED
    BY <1>1, <1>6, <1>12, <2>1 DEF Moved
<1> QED
  BY <1>5, <1>6, <1>9, <1>10, <1>11, <1>12, <1>13, <1>14, StepKeeps

\* try_reserve refuses a path.
LEMMA RefuseStep ==
  ASSUME GatewayInv, NEW r \in Req, Refuse(r)
  PROVE  GatewayInv' /\ Apart(r) /\ Moved(r)
<1>1. /\ pc[r] = "routing"
      /\ plan[r] # <<>>
      /\ plan' = [plan EXCEPT ![r] = Tail(plan[r])]
      /\ GoTo(r, "routing")
      /\ UNCHANGED <<bmVars, qmVars, est, quote, route, result, goal, status, billed>>
  BY DEF Refuse, At
<1>2. Typed
  BY DEF GatewayInv
<1>3. Tail(plan[r]) \in Plans
  <2>1. plan[r] \in Plans
    BY <1>2 DEF Typed
  <2> QED
    BY <1>1, <2>1, PlanSteps
<1>4. "routing" \in Stages
  BY DEF Stages
<1>5. Typed'
  BY <1>1, <1>2, <1>3, <1>4, Moves DEF Typed, qmVars
<1>6. Apart(r)
  BY <1>1, <1>2, <1>4, Moves DEF Apart, bmVars, qmVars
<1>7. Journey(r)'
  BY <1>1, <1>2, <1>4, Moves DEF GatewayInv, Journey, bmVars, qmVars
<1> QED
  BY <1>1, <1>5, <1>6, <1>7, QuietKeeps

\* No path is left.
LEMMA FailFastStep ==
  ASSUME GatewayInv, NEW r \in Req, FailFast(r)
  PROVE  GatewayInv' /\ Apart(r) /\ Moved(r)
<1>1. /\ pc[r] = "routing"
      /\ route' = [route EXCEPT ![r] = "FAIL_FAST"]
      /\ quote' = [quote EXCEPT ![r] = DA!NoQuote]
      /\ Answer(r, 503)
      /\ UNCHANGED <<bmVars, qmVars, est, plan, result, goal, billed>>
  BY DEF FailFast, At
<1>2. Typed
  BY DEF GatewayInv
<1>3. DA!NoQuote \in Quotes /\ "FAIL_FAST" \in DA!Routes
  BY DEF DA!NoQuote, DA!Quote, Quotes, CC!Tiers, DA!Routes
<1>4. Typed'
  BY <1>1, <1>2, <1>3, Moves DEF Typed, qmVars
<1>5. Apart(r)
  BY <1>1, <1>2, Moves DEF Apart, bmVars, qmVars, Typed
<1>6. Journey(r)'
  BY <1>1, <1>2, Moves DEF GatewayInv, Journey, bmVars, qmVars
<1> QED
  BY <1>1, <1>4, <1>5, <1>6, QuietKeeps
\* A remote call starts.
LEMMA StartRemoteStep ==
  ASSUME GatewayInv, NEW r \in Req, StartRemote(r)
  PROVE  GatewayInv' /\ Apart(r) /\ Moved(r)
<1>1. /\ pc[r] = "admitted"
      /\ GoTo(r, "remote_io")
      /\ UNCHANGED <<bmVars, qmVars, est, reqVars, billed>>
  BY DEF StartRemote, At
<1>2. Typed
  BY DEF GatewayInv
<1>3. "remote_io" \in Stages
  BY DEF Stages
<1>4. Typed'
  BY <1>1, <1>2, <1>3, Moves DEF Typed, qmVars, reqVars
<1>5. Apart(r)
  BY <1>1, <1>2, <1>3, Moves DEF Apart, bmVars, qmVars, reqVars
<1>6. Journey(r)'
  BY <1>1, <1>2, <1>3, Moves DEF GatewayInv, Journey, Uncharged, bmVars, qmVars, reqVars
<1> QED
  BY <1>1, <1>4, <1>5, <1>6, QuietKeeps DEF reqVars

\* A request enters a slot, for its reserved local call or for its fallback.
LEMMA EnterSlot ==
  ASSUME GatewayInv, NEW r \in Req, NEW s \in {"local_io", "fallback_io"},
         QM!Acquire(r), GoTo(r, s), UNCHANGED <<bmVars, est, reqVars, billed>>,
         IF s = "local_io" THEN pc[r] = "admitted" /\ route[r] # "REMOTE" ELSE pc[r] = "fallback"
  PROVE  GatewayInv' /\ Apart(r) /\ Moved(r)
<1>1. Typed /\ LedgerInv /\ QM!SlotsAgree
  BY DEF GatewayInv
<1>2. s \in Stages
  BY DEF Stages
<1>3. r \notin holders
  BY DEF GatewayInv, Journey
<1>4. QM!SlotsAgree' /\ holders' \subseteq Req /\ r \in holders'
  BY <1>1, <1>3, AcquireSlot
<1>5. \A q \in Req \ {r} : q \in holders' <=> q \in holders
  BY <1>1, <1>3, AcquireSlot
<1>6. LedgerInv'
  BY <1>1, LedgerUntouched
<1>7. Typed'
  BY <1>1, <1>2, <1>4, Moves DEF Typed, reqVars
<1>8. Apart(r)
  BY <1>1, <1>2, <1>5, Moves DEF Apart, bmVars, reqVars
<1>9. Journey(r)'
  BY <1>1, <1>2, <1>4, Moves DEF GatewayInv, Journey, Uncharged, bmVars, reqVars
<1>10. Moved(r)
  BY DEF Moved, bmVars, reqVars
<1> QED
  BY <1>4, <1>6, <1>7, <1>8, <1>9, <1>10, StepKeeps DEF bmVars

\* A local call starts, in a slot.
LEMMA StartLocalStep ==
  ASSUME GatewayInv, NEW r \in Req, StartLocal(r)
  PROVE  GatewayInv' /\ Apart(r) /\ Moved(r)
<1>1. QM!Acquire(r) /\ GoTo(r, "local_io") /\ UNCHANGED <<bmVars, est, reqVars, billed>>
  BY DEF StartLocal
<1>2. pc[r] = "admitted" /\ route[r] # "REMOTE"
  BY DEF StartLocal, At
<1> QED
  BY <1>1, <1>2, EnterSlot

\* The local fallback starts, in a slot.
LEMMA FallbackStartStep ==
  ASSUME GatewayInv, NEW r \in Req, FallbackStart(r)
  PROVE  GatewayInv' /\ Apart(r) /\ Moved(r)
<1>1. QM!Acquire(r) /\ GoTo(r, "fallback_io") /\ UNCHANGED <<bmVars, est, reqVars, billed>>
  BY DEF FallbackStart
<1>2. pc[r] = "fallback"
  BY DEF FallbackStart, At
<1> QED
  BY <1>1, <1>2, EnterSlot

\* An except branch before anything is settled: slot() raised, or the remote
\* call failed.
LEMMA ExceptStep ==
  ASSUME GatewayInv, NEW r \in Req, NEW g \in {"503", "fallback"},
         pc[r] \in {"admitted", "remote_io"}, CleanUpThen(r, g),
         UNCHANGED <<bmVars, qmVars, est, quote, plan, route, result, billed>>
  PROVE  GatewayInv' /\ Apart(r) /\ Moved(r)
<1>1. Typed /\ g \in Ends
  BY DEF GatewayInv, Ends
<1>2. Typed'
  BY <1>1, CleansUp DEF Typed, qmVars
<1>3. Apart(r)
  BY <1>1, CleansUp DEF Apart, bmVars, qmVars
<1>4. status[r] = 0 /\ Uncharged(r) /\ r \notin holders
  BY DEF GatewayInv, Journey
<1>5. goal'[r] = g /\ r \notin holders' /\ state'[r] = state[r]
  BY <1>1, <1>4, CleansUp DEF bmVars, qmVars
<1>6. CASE state[r] = "pending"
  <2>1. pc'[r] = "cleanup" /\ status'[r] = 0
    BY <1>1, <1>4, <1>6, CleansUp
  <2>2. Journey(r)'
    BY <1>4, <1>5, <2>1 DEF Journey, Uncharged
  <2> QED
    BY <1>2, <1>3, <2>2, QuietKeeps
<1>7. CASE state[r] # "pending"
  <2>1. pc'[r] = Stage(g) /\ status'[r] = IF Code(g) = 0 THEN 0 ELSE Code(g)
    BY <1>1, <1>4, <1>7, CleansUp DEF Arrives
  <2>2. state'[r] = "rolled_back"
    BY <1>4, <1>5, <1>7 DEF Uncharged
  <2>3. Journey(r)'
    BY <1>5, <2>1, <2>2 DEF Journey, Uncharged, Stage, Code
  <2> QED
    BY <1>2, <1>3, <2>3, QuietKeeps
<1> QED
  BY <1>6, <1>7

\* slot() raises.
LEMMA SlotRefusedStep ==
  ASSUME GatewayInv, NEW r \in Req, SlotRefused(r)
  PROVE  GatewayInv' /\ Apart(r) /\ Moved(r)
BY ExceptStep DEF SlotRefused, At

\* The remote call fails.
LEMMA RemoteFailsStep ==
  ASSUME GatewayInv, NEW r \in Req, RemoteFails(r)
  PROVE  GatewayInv' /\ Apart(r) /\ Moved(r)
BY ExceptStep DEF RemoteFails, At

\* A backend answers a reserved call.
LEMMA ReturnStep ==
  ASSUME GatewayInv, NEW r \in Req, NEW x \in Nat \X Nat,
         pc[r] \in {"remote_io", "local_io"},
         result' = [result EXCEPT ![r] = x], billed' \in Nat, GoTo(r, "settle"),
         UNCHANGED <<bmVars, qmVars, est, quote, plan, route, goal, status>>
  PROVE  GatewayInv' /\ Apart(r) /\ Moved(r)
<1>1. Typed /\ "settle" \in Stages
  BY DEF GatewayInv, Stages
<1>2. Typed'
  BY <1>1, Moves DEF Typed, qmVars
<1>3. Apart(r)
  BY <1>1, Moves DEF Apart, bmVars, qmVars, Typed
<1>4. Journey(r)'
  BY <1>1, Moves DEF GatewayInv, Journey, Uncharged, bmVars, qmVars
<1>5. state[r] # "committed"
  BY DEF GatewayInv, Journey, Uncharged
<1> QED
  BY <1>2, <1>3, <1>4, <1>5, QuietKeeps

\* The remote backend answers.
LEMMA RemoteReturnsStep ==
  ASSUME GatewayInv, NEW r \in Req, NEW x \in RemoteResults, RemoteReturns(r, x)
  PROVE  GatewayInv' /\ Apart(r) /\ Moved(r)
<1>1. x \in Nat \X Nat
  BY FiguresNat
<1>2. billed' \in Nat
  BY <1>1 DEF GatewayInv, Typed, RemoteReturns
<1> QED
  BY <1>1, <1>2, ReturnStep DEF RemoteReturns, At

\* The local backend answers.
LEMMA LocalReturnsStep ==
  ASSUME GatewayInv, NEW r \in Req, NEW l \in LocalLatencies, LocalReturns(r, l)
  PROVE  GatewayInv' /\ Apart(r) /\ Moved(r)
<1>1. <<0, l>> \in Nat \X Nat
  BY FiguresNat
<1>2. billed' \in Nat
  BY DEF GatewayInv, Typed, LocalReturns
<1> QED
  BY <1>1, <1>2, ReturnStep DEF LocalReturns, At

\* The local fallback answers: free of charge, in no ledger.
LEMMA FallbackReturnsStep ==
  ASSUME GatewayInv, NEW r \in Req, NEW l \in LocalLatencies, FallbackReturns(r, l)
  PROVE  GatewayInv' /\ Apart(r) /\ Moved(r)
<1>1. /\ pc[r] = "fallback_io"
      /\ result' = [result EXCEPT ![r] = <<0, l>>]
      /\ route' = [route EXCEPT ![r] = "QUEUE_LOCAL"]
      /\ goal' = [goal EXCEPT ![r] = "record"]
      /\ GoTo(r, "leave")
      /\ UNCHANGED <<bmVars, qmVars, est, quote, plan, status, billed>>
  BY DEF FallbackReturns, At
<1>2. Typed /\ "leave" \in Stages /\ "record" \in Ends /\ "QUEUE_LOCAL" \in DA!Routes
  BY DEF GatewayInv, Stages, Ends, DA!Routes
<1>3. <<0, l>> \in Nat \X Nat
  BY FiguresNat
<1>4. Typed'
  BY <1>1, <1>2, <1>3, Moves DEF Typed, qmVars
<1>5. Apart(r)
  BY <1>1, <1>2, Moves DEF Apart, bmVars, qmVars, Typed
<1>6. /\ pc'[r] = "leave" /\ goal'[r] = "record" /\ route'[r] = "QUEUE_LOCAL"
      /\ result'[r][1] = 0 /\ status'[r] = status[r]
  BY <1>1, <1>2, Moves DEF Typed
<1>7. /\ status[r] = 0 /\ state[r] = "rolled_back" /\ state'[r] = state[r]
      /\ r \in holders'
  BY <1>1 DEF GatewayInv, Journey, bmVars, qmVars
<1>8. Journey(r)'
  BY <1>6, <1>7 DEF Journey, Earned
<1> QED
  BY <1>1, <1>4, <1>5, <1>7, <1>8, QuietKeeps
\* A committed request adds what it reported to the books.
LEMMA BooksGrow ==
  ASSUME GatewayInv, NEW r \in Req, state[r] # "committed",
         state' = [state EXCEPT ![r] = "committed"],
         spent' = spent + result[r][1], usedLat' = usedLat + result[r][2],
         UNCHANGED result
  PROVE  BooksMatch'
<1> DEFINE C == Committed \union {r}
           One == {r}
<1>1. Typed /\ N \in Nat /\ r \in 1..N
  BY GatewayAssumption DEF GatewayInv, Req
<1>2. Committed' = C
  BY StateTyped DEF GatewayInv, Committed
<1>3. One \subseteq C /\ C \ One = Committed
  BY DEF Committed
<1>4. Costs' = Costs /\ Latencies' = Latencies
  BY DEF Costs, Latencies
<1>5. Costs \in [1..N -> Nat] /\ Latencies \in [1..N -> Nat]
  BY <1>1, FiguresTyped
<1>6. Costs[r] = result[r][1] /\ Latencies[r] = result[r][2]
  BY <1>1, FiguresTyped
<1>7. Total(Masked(Costs, One), N) = Costs[r] /\ Total(Masked(Latencies, One), N) = Latencies[r]
  BY <1>1, <1>5, MaskedSingle
<1> HIDE DEF C, One
<1>8. Total(Masked(Costs, C), N) = Total(Masked(Costs, Committed), N) + result[r][1]
  <2>1. Total(Masked(Costs, C), N)
           = Total(Masked(Costs, C \ One), N) + Total(Masked(Costs, One), N)
    BY <1>1, <1>3, <1>5, MaskedSplit
  <2> QED
    BY <1>3, <1>6, <1>7, <2>1
<1>9. Total(Masked(Latencies, C), N) = Total(Masked(Latencies, Committed), N) + result[r][2]
  <2>1. Total(Masked(Latencies, C), N)
           = Total(Masked(Latencies, C \ One), N) + Total(Masked(Latencies, One), N)
    BY <1>1, <1>3, <1>5, MaskedSplit
  <2> QED
    BY <1>3, <1>6, <1>7, <2>1
<1>10. spent' = Total(Masked(Costs, C), N) /\ usedLat' = Total(Masked(Latencies, C), N)
  BY <1>8, <1>9 DEF GatewayInv, BooksMatch
<1>11. /\ Total(Masked(Costs, Committed), N)' = Total(Masked(Costs, C), N)
      /\ Total(Masked(Latencies, Committed), N)' = Total(Masked(Latencies, C), N)
  BY <1>2, <1>4, Zenon DEF Total, PrefixSum, Masked
<1> QED
  BY <1>10, <1>11 DEF BooksMatch

\* commit() records the figures: the request is bound for its answer.
LEMMA CommitStep ==
  ASSUME GatewayInv, NEW r \in Req, Commit(r)
  PROVE  GatewayInv' /\ Apart(r) /\ Moved(r)
<1>1. /\ pc[r] = "settle"
      /\ BM!CommitOk(r, result[r][1], result[r][2])
      /\ LeaveFor(r, "record")
      /\ UNCHANGED <<qmVars, est, quote, plan, route, result, billed>>
  BY DEF Commit, At
<1>2. Typed /\ LedgerInv /\ QM!SlotsAgree /\ "record" \in Ends
  BY DEF GatewayInv, Ends
<1>3. result[r][1] \in Nat /\ result[r][2] \in Nat
  BY <1>2, FiguresTyped
<1>4. LedgerInv'
  BY <1>1, <1>2, <1>3, CommitKeeps
<1>5. /\ state' = [state EXCEPT ![r] = "committed"]
      /\ spent' = spent + result[r][1] /\ usedLat' = usedLat + result[r][2]
  BY <1>1 DEF BM!CommitOk
<1>6. state[r] = "pending" /\ state'[r] = "committed"
  BY <1>1, <1>2, <1>5, StateTyped DEF BM!CommitOk
<1>7. BooksMatch'
  BY <1>1, <1>5, <1>6, BooksGrow
<1>8. Typed'
  BY <1>1, <1>2, LeavesFor DEF Typed, qmVars
<1>9. QM!SlotsAgree'
  BY <1>1, <1>2 DEF QM!SlotsAgree, qmVars
<1>10. Apart(r)
  BY <1>1, <1>2, <1>5, LeavesFor, StateTyped DEF Apart, qmVars
<1>11. Journey(r)'
  <2>1. status[r] = 0 /\ (r \in holders' <=> r \in holders)
    BY <1>1 DEF GatewayInv, Journey, qmVars
  <2>2. r \in holders => pc'[r] = "leave" /\ goal'[r] = "record" /\ status'[r] = 0
    BY <1>1, <1>2, <2>1, LeavesFor
  <2>3. r \notin holders => pc'[r] = "record" /\ status'[r] = 0
    BY <1>1, <1>2, <2>1, LeavesFor DEF Arrives, Stage, Code
  <2> QED
    BY <1>6, <2>1, <2>2, <2>3 DEF Journey, Earned
<1>12. \A q \in Req : Journey(q)'
  BY <1>10, <1>11, OthersKept DEF GatewayInv
<1>13. Moved(r)
  <2>1. pc'[r] \in {"leave", "record"}
    BY <1>1, <1>2, LeavesFor DEF Arrives, Stage
  <2> QED
    BY <1>1, <1>5, <1>6, <2>1 DEF Moved
<1> QED
  BY <1>4, <1>7, <1>8, <1>9, <1>10, <1>12, <1>13 DEF GatewayInv

\* A commit that raised: the request is bound for its 500, with its reservation
\* rolled back, by the commit or by the reaper before it.
LEMMA UncommittedStep ==
  ASSUME GatewayInv, NEW r \in Req, pc[r] = "settle", LeaveFor(r, "500"), LedgerInv',
         UNCHANGED <<spent, usedLat, qmVars, est, quote, plan, route, result, billed>>,
         state'[r] = "rolled_back", \A q \in Req \ {r} : state'[q] = state[q]
  PROVE  GatewayInv' /\ Apart(r) /\ Moved(r)
<1>1. Typed /\ QM!SlotsAgree /\ "500" \in Ends
  BY DEF GatewayInv, Ends
<1>2. Typed'
  BY <1>1, LeavesFor DEF Typed, qmVars
<1>3. QM!SlotsAgree'
  BY <1>1 DEF QM!SlotsAgree, qmVars
<1>4. Apart(r)
  BY <1>1, LeavesFor DEF Apart, qmVars
<1>5. status[r] = 0 /\ (r \in holders' <=> r \in holders) /\ state[r] # "committed"
  BY DEF GatewayInv, Journey, Uncharged, qmVars
<1>6. r \in holders => pc'[r] = "leave" /\ goal'[r] = "500" /\ status'[r] = 0
  BY <1>1, <1>5, LeavesFor
<1>7. r \notin holders => pc'[r] = "done" /\ status'[r] = 500
  BY <1>1, <1>5, LeavesFor DEF Arrives, Stage, Code
<1>8. Journey(r)'
  BY <1>5, <1>6, <1>7 DEF Journey
<1>9. Moved(r)
  <2>1. state[r] \in {"pending", "rolled_back"}
    BY DEF GatewayInv, Journey, Uncharged
  <2> QED
    BY <1>6, <1>7, <2>1 DEF Moved
<1> QED
  BY <1>2, <1>3, <1>4, <1>5, <1>8, <1>9, StepKeeps

\* commit() refuses the figures and rolls back.
LEMMA CommitExceededStep ==
  ASSUME GatewayInv, NEW r \in Req, CommitExceeded(r)
  PROVE  GatewayInv' /\ Apart(r) /\ Moved(r)
<1>1. BM!CommitRefused(r, result[r][1], result[r][2])
  BY DEF CommitExceeded
<1>2. Typed /\ LedgerInv
  BY DEF GatewayInv
<1>3. result[r][1] \in Nat /\ result[r][2] \in Nat
  BY <1>2, FiguresTyped
<1>4. LedgerInv'
  BY <1>1, <1>2, <1>3, CommitKeeps
<1>5. state' = [state EXCEPT ![r] = "rolled_back"] /\ UNCHANGED <<spent, usedLat>>
  BY <1>1 DEF BM!CommitRefused
<1>6. state'[r] = "rolled_back" /\ \A q \in Req \ {r} : state'[q] = state[q]
  BY <1>2, <1>5, StateTyped
<1> QED
  BY <1>4, <1>5, <1>6, UncommittedStep DEF CommitExceeded, At

\* commit() comes after the reaper.
LEMMA CommitExpiredStep ==
  ASSUME GatewayInv, NEW r \in Req, CommitExpired(r)
  PROVE  GatewayInv' /\ Apart(r) /\ Moved(r)
<1>1. pc[r] = "settle" /\ r \notin active /\ UNCHANGED bmVars
  BY DEF CommitExpired, At
<1>2. LedgerInv /\ LedgerInv'
  BY <1>1, LedgerUntouched DEF GatewayInv
<1>3. state[r] = "rolled_back"
  BY <1>1, <1>2, StateTyped DEF GatewayInv, Journey, Uncharged
<1> QED
  BY <1>1, <1>2, <1>3, UncommittedStep DEF CommitExpired, bmVars

\* The finally of slot(): the request leaves and goes where it was bound for.
LEMMA LeaveStep ==
  ASSUME GatewayInv, NEW r \in Req, Leave(r)
  PROVE  GatewayInv' /\ Apart(r) /\ Moved(r)
<1>1. /\ pc[r] = "leave"
      /\ QM!Release(r)
      /\ ToGoal(r, goal[r])
      /\ UNCHANGED <<bmVars, est, quote, plan, route, result, goal, billed>>
  BY DEF Leave, At
<1>2. Typed /\ LedgerInv /\ QM!SlotsAgree
  BY DEF GatewayInv
<1>3. r \in holders /\ status[r] = 0
  BY <1>1 DEF GatewayInv, Journey
<1>4. \/ goal[r] = "record" /\ Earned(r)
      \/ goal[r] = "500" /\ state[r] = "rolled_back"
      \/ goal[r] = "cancelled" /\ Uncharged(r)
  BY <1>1 DEF GatewayInv, Journey
<1>5. goal[r] \in Ends
  BY <1>4 DEF Ends
<1>6. Arrives(r, goal[r])
  BY <1>1, <1>2, <1>5, GoalReached
<1>7. QM!SlotsAgree' /\ holders' \subseteq Req /\ r \notin holders'
  BY <1>1, <1>2, <1>3, ReleaseSlot
<1>8. \A q \in Req \ {r} : q \in holders' <=> q \in holders
  BY <1>1, <1>2, <1>3, ReleaseSlot
<1>9. LedgerInv'
  BY <1>1, <1>2, LedgerUntouched
<1>10. Typed'
  BY <1>1, <1>2, <1>6, <1>7 DEF Typed, Arrives
<1>11. Apart(r)
  BY <1>1, <1>6, <1>8 DEF Apart, Arrives, bmVars
<1>12. Journey(r)'
  <2>1. pc'[r] = Stage(goal[r])
    BY <1>6 DEF Arrives
  <2>2. status'[r] = Code(goal[r])
    BY <1>3, <1>6 DEF Arrives
  <2>3. state'[r] = state[r] /\ route'[r] = route[r] /\ result'[r] = result[r]
    BY <1>1 DEF bmVars
  <2>4. Earned(r)' <=> Earned(r)
    BY <2>3 DEF Earned
  <2> QED
    BY <1>4, <1>7, <2>1, <2>2, <2>3, <2>4 DEF Journey, Stage, Code, Uncharged
<1>13. Moved(r)
  BY <1>1 DEF Moved, bmVars
<1> QED
  BY <1>1, <1>7, <1>9, <1>10, <1>11, <1>12, <1>13, StepKeeps DEF bmVars
\* The rollback of an except branch.
LEMMA CleanUpStep ==
  ASSUME GatewayInv, NEW r \in Req, CleanUp(r)
  PROVE  GatewayInv' /\ Apart(r) /\ Moved(r)
<1>1. /\ pc[r] = "cleanup"
      /\ BM!Rollback(r)
      /\ ToGoal(r, goal[r])
      /\ UNCHANGED <<qmVars, est, quote, plan, route, result, goal, billed>>
  BY DEF CleanUp, At
<1>2. Typed /\ LedgerInv /\ QM!SlotsAgree
  BY DEF GatewayInv
<1>3. goal[r] \in {"503", "fallback"} /\ status[r] = 0 /\ r \notin holders
  BY <1>1 DEF GatewayInv, Journey
<1>4. Arrives(r, goal[r])
  BY <1>1, <1>2, <1>3, GoalReached DEF Ends
<1>5. LedgerInv'
  BY <1>1, <1>2, RollbackKeeps
<1>6. state' = [state EXCEPT ![r] = "rolled_back"] /\ UNCHANGED <<spent, usedLat>>
  BY <1>1 DEF BM!Rollback
<1>7. state[r] = "pending" /\ state'[r] = "rolled_back"
  BY <1>1, <1>2, <1>6, StateTyped DEF BM!Rollback
<1>8. Typed'
  BY <1>1, <1>2, <1>4 DEF Typed, Arrives, qmVars
<1>9. QM!SlotsAgree'
  BY <1>1, <1>2 DEF QM!SlotsAgree, qmVars
<1>10. Apart(r)
  BY <1>1, <1>2, <1>4, <1>6, StateTyped DEF Apart, Arrives, qmVars
<1>11. Journey(r)'
  <2>1. pc'[r] = Stage(goal[r]) /\ status'[r] = Code(goal[r]) /\ r \notin holders'
    BY <1>1, <1>3, <1>4 DEF Arrives, qmVars
  <2> QED
    BY <1>3, <1>7, <2>1 DEF Journey, Stage, Code
<1>12. Moved(r)
  <2>1. pc'[r] # "cancelled" /\ status'[r] # 200
    BY <1>3, <1>4 DEF Arrives, Stage, Code
  <2> QED
    BY <1>1, <1>6, <1>7, <2>1 DEF Moved
<1> QED
  BY <1>5, <1>6, <1>7, <1>8, <1>9, <1>10, <1>11, <1>12, StepKeeps

\* An error answer to a request whose reservation is gone.
LEMMA ErrorStep ==
  ASSUME GatewayInv, NEW r \in Req, NEW code \in {500, 503},
         pc[r] \in {"cleanup", "fallback"}, state[r] = "rolled_back", Answer(r, code),
         UNCHANGED <<bmVars, qmVars, est, quote, plan, route, result, goal, billed>>
  PROVE  GatewayInv' /\ Apart(r) /\ Moved(r)
<1>1. Typed
  BY DEF GatewayInv
<1>2. Typed'
  BY <1>1, Moves DEF Typed, qmVars
<1>3. Apart(r)
  BY <1>1, Moves DEF Apart, bmVars, qmVars
<1>4. pc'[r] = "done" /\ status'[r] = code
  BY <1>1, Moves
<1>5. r \notin holders' /\ state'[r] = "rolled_back"
  BY DEF GatewayInv, Journey, bmVars, qmVars
<1>6. Journey(r)'
  BY <1>4, <1>5 DEF Journey
<1> QED
  BY <1>2, <1>3, <1>6, QuietKeeps

\* The rollback comes after the reaper.
LEMMA CleanUpExpiredStep ==
  ASSUME GatewayInv, NEW r \in Req, CleanUpExpired(r)
  PROVE  GatewayInv' /\ Apart(r) /\ Moved(r)
<1>1. pc[r] = "cleanup" /\ r \notin active
  BY DEF CleanUpExpired, At
<1>2. state[r] = "rolled_back"
  BY <1>1, StateTyped DEF GatewayInv, Journey, Uncharged
<1> QED
  BY <1>1, <1>2, ErrorStep DEF CleanUpExpired

\* The fallback finds no slot.
LEMMA FallbackRefusedStep ==
  ASSUME GatewayInv, NEW r \in Req, FallbackRefused(r)
  PROVE  GatewayInv' /\ Apart(r) /\ Moved(r)
<1>1. pc[r] = "fallback"
  BY DEF FallbackRefused, At
<1>2. state[r] = "rolled_back"
  BY <1>1 DEF GatewayInv, Journey
<1> QED
  BY <1>1, <1>2, ErrorStep DEF FallbackRefused

\* The latency is recorded and the answer sent.
LEMMA RecordStep ==
  ASSUME GatewayInv, NEW r \in Req, Record(r)
  PROVE  GatewayInv' /\ Apart(r) /\ Moved(r)
<1>1. /\ pc[r] = "record"
      /\ Answer(r, 200)
      /\ UNCHANGED <<bmVars, qmVars, quote, plan, route, result, goal, billed>>
  BY DEF Record, At
<1>2. Typed
  BY DEF GatewayInv
<1>3. est' \in [Backends -> Estimates]
  <2>1. est \in [Backends -> Estimates]
    BY <1>2 DEF Typed
  <2> DEFINE b == IF route[r] = "REMOTE" THEN "remote" ELSE "local"
  <2>2. PICK e \in Estimates : est' = [est EXCEPT ![b] = e]
    BY DEF Record
  <2> HIDE DEF b
  <2> QED
    BY <2>1, <2>2
<1>4. Typed'
  BY <1>1, <1>2, <1>3, Moves DEF Typed, qmVars
<1>5. Apart(r)
  BY <1>1, <1>2, Moves DEF Apart, bmVars, qmVars
<1>6. pc'[r] = "done" /\ status'[r] = 200
  BY <1>1, <1>2, Moves
<1>7. Earned(r)' /\ r \notin holders'
  BY <1>1 DEF GatewayInv, Journey, Earned, bmVars, qmVars
<1>8. Journey(r)'
  BY <1>6, <1>7 DEF Journey
<1> QED
  BY <1>1, <1>4, <1>5, <1>8, QuietKeeps

\* A cancellation at a backend call: only the slot's finally runs.
LEMMA CancelStep ==
  ASSUME GatewayInv, NEW r \in Req, Cancel(r)
  PROVE  GatewayInv' /\ Apart(r) /\ Moved(r)
<1>1. /\ pc[r] \in IOStages
      /\ LeaveFor(r, "cancelled")
      /\ UNCHANGED <<bmVars, qmVars, est, quote, plan, route, result, billed>>
  BY DEF Cancel, At
<1>2. Typed /\ "cancelled" \in Ends
  BY DEF GatewayInv, Ends
<1>3. Typed'
  BY <1>1, <1>2, LeavesFor DEF Typed, qmVars
<1>4. Apart(r)
  BY <1>1, <1>2, LeavesFor DEF Apart, bmVars, qmVars
<1>5. status[r] = 0 /\ Uncharged(r) /\ (r \in holders' <=> r \in holders) /\ state'[r] = state[r]
  BY <1>1 DEF GatewayInv, Journey, Uncharged, IOStages, bmVars, qmVars
<1>6. r \in holders => pc'[r] = "leave" /\ goal'[r] = "cancelled" /\ status'[r] = 0
  BY <1>1, <1>2, <1>5, LeavesFor
<1>7. r \notin holders => pc'[r] = "cancelled" /\ status'[r] = 0
  BY <1>1, <1>2, <1>5, LeavesFor DEF Arrives, Stage, Code
<1>8. Journey(r)'
  BY <1>5, <1>6, <1>7 DEF Journey, Uncharged
<1>9. pc[r] \notin {"done", "cancelled"}
  BY <1>1 DEF IOStages
<1> QED
  BY <1>1, <1>3, <1>4, <1>8, <1>9, QuietKeeps

\* The reaper rolls back under any request, at any stage; the clock moves.
LEMMA BackgroundStep ==
  ASSUME GatewayInv, Background
  PROVE  GatewayInv'
<1>1. /\ BM!Reap \/ BM!Tick
      /\ UNCHANGED <<qmVars, est, pc, reqVars, running, billed>>
  BY DEF Background
<1>2. Typed /\ LedgerInv /\ QM!SlotsAgree /\ BooksMatch
  BY DEF GatewayInv
<1>3. LedgerInv'
  BY <1>1, <1>2, BackgroundKeeps
<1>4. Typed'
  BY <1>1, <1>2 DEF Typed, qmVars, reqVars
<1>5. QM!SlotsAgree'
  BY <1>1, <1>2 DEF QM!SlotsAgree, qmVars
<1>6. /\ UNCHANGED <<spent, usedLat>>
      /\ \A r \in Req : state'[r] = state[r] \/ (state[r] = "pending" /\ state'[r] = "rolled_back")
  <2>1. CASE BM!Tick
    BY <2>1 DEF BM!Tick, BM!ledger
  <2>2. CASE BM!Reap
    BY <1>2, <2>2, StateTyped DEF BM!Reap, BM!Res, Req
  <2> QED
    BY <1>1, <2>1, <2>2
<1>7. \A r \in Req : Journey(r)'
  <2> SUFFICES ASSUME NEW r \in Req
               PROVE  Journey(r)'
    OBVIOUS
  <2>1. Journey(r)
    BY DEF GatewayInv
  <2>2. state'[r] = state[r] \/ (state[r] = "pending" /\ state'[r] = "rolled_back")
    BY <1>6
  <2> QED
    BY <1>1, <2>1, <2>2 DEF Journey, Uncharged, Earned, qmVars, reqVars
<1>8. Committed' = Committed
  BY <1>6 DEF Committed
<1>9. BooksMatch'
  BY <1>1, <1>2, <1>6, <1>8, BooksKept DEF reqVars
<1> QED
  BY <1>3, <1>4, <1>5, <1>7, <1>9 DEF GatewayInv

\* A step of a request keeps the invariant and concerns that request only.
LEMMA RequestStep ==
  ASSUME GatewayInv, NEW r \in Req, Arrival(r) \/ Advance(r) \/ Cancel(r)
  PROVE  GatewayInv' /\ Apart(r) /\ Moved(r)
<1>1. CASE Arrival(r)
  BY <1>1, ArriveStep DEF Arrival
<1>2. CASE Routing(r)
  BY <1>2, AdmitStep, RefuseStep, FailFastStep DEF Routing
<1>3. CASE Starting(r)
  BY <1>3, StartRemoteStep, StartLocalStep, SlotRefusedStep DEF Starting
<1>4. CASE BackendReturns(r)
  BY <1>4, RemoteReturnsStep, LocalReturnsStep, RemoteFailsStep, FallbackReturnsStep
     DEF BackendReturns
<1>5. CASE Settling(r)
  BY <1>5, CommitStep, CommitExceededStep, CommitExpiredStep, CleanUpStep,
     CleanUpExpiredStep, FallbackRefusedStep, FallbackStartStep, LeaveStep, RecordStep
     DEF Settling
<1> QED
  BY <1>1, <1>2, <1>3, <1>4, <1>5, CancelStep DEF Advance

\* Every step keeps the invariant.
LEMMA GatewayNext == GatewayInv /\ [Next]_vars => GatewayInv'
<1> SUFFICES ASSUME GatewayInv, [Next]_vars
             PROVE  GatewayInv'
  OBVIOUS
<1>1. CASE UNCHANGED vars
  <2>1. LedgerInv'
    BY <1>1, LedgerUntouched DEF vars, GatewayInv
  <2>2. Typed' /\ QM!SlotsAgree'
    BY <1>1 DEF vars, qmVars, reqVars, GatewayInv, Typed, QM!SlotsAgree
  <2>3. \A r \in Req : Journey(r)'
    BY <1>1 DEF vars, bmVars, qmVars, reqVars, GatewayInv, Journey, Uncharged, Earned
  <2>4. Committed' = Committed /\ UNCHANGED <<spent, usedLat, result>>
    BY <1>1 DEF vars, bmVars, reqVars, Committed
  <2>5. BooksMatch'
    BY <2>4, BooksKept DEF GatewayInv
  <2> QED
    BY <2>1, <2>2, <2>3, <2>5 DEF GatewayInv
<1> QED
  BY <1>1, RequestStep, BackgroundStep DEF Next

\* The invariant holds throughout.
LEMMA GatewayCorrect == Spec => []GatewayInv
BY GatewayInit, GatewayNext, PTL DEF Spec

-----------------------------------------------------------------------------
\* What follows for every run

\* The handler's variables stay in their types: in particular the counter of
\* local requests and the semaphore stay within the capacity.
THEOREM HandlerTypes == Spec => []TypeOK
<1>1. GatewayInv => TypeOK
  <2> SUFFICES ASSUME GatewayInv
               PROVE  TypeOK
    OBVIOUS
  <2>1. Typed /\ BM!TypeOK /\ QM!SlotsAgree
    BY DEF GatewayInv, LedgerInv
  <2>2. \A r \in Req : plan[r] \in Seq(DA!Routes) /\ Len(plan[r]) <= 2
    BY <2>1, PlanSteps DEF Typed
  <2> QED
    BY <2>1, <2>2, SlotRange DEF TypeOK, Typed
<1> QED
  BY <1>1, GatewayCorrect, PTL

\* Every slot taken is given back on every way out of the handler, and the
\* monitor's counters show exactly the requests inside.
THEOREM SlotsReturned == Spec => []SlotsMatch
<1>1. GatewayInv => SlotsMatch
  BY DEF GatewayInv, Journey, SlotsMatch
<1> QED
  BY <1>1, GatewayCorrect, PTL

\* No answered request leaves a reservation behind.
THEOREM NoneOrphaned == Spec => []NoOrphan
<1>1. ASSUME GatewayInv, NEW r \in active
      PROVE  pc[r] \in InFlight \union {"cancelled"}
  <2>1. r \in Req
    BY <1>1 DEF GatewayInv, LedgerInv, BM!TypeOK, BM!Res, Req
  <2>2. state[r] = "pending" /\ pc[r] \in Stages /\ Journey(r)
    BY <1>1, <2>1, StateTyped DEF GatewayInv, Typed
  <2> QED
    BY <2>2 DEF Journey, Earned, InFlight, Stages
<1>2. GatewayInv => NoOrphan
  BY <1>1 DEF NoOrphan
<1> QED
  BY <1>2, GatewayCorrect, PTL

\* A client is charged if and only if it is answered, or was served for free by
\* the local fallback.
THEOREM FairCharge == Spec => []ChargedIffAnswered
<1>1. ASSUME GatewayInv, NEW r \in Req
      PROVE  /\ state[r] = "committed" => pc[r] \in {"leave", "record"} \/ status[r] = 200
             /\ status[r] = 200 => Earned(r)
  <2>1. Journey(r) /\ pc[r] \in Stages
    BY <1>1 DEF GatewayInv, Typed
  <2> QED
    BY <2>1 DEF Journey, Uncharged, Stages
<1>2. GatewayInv => ChargedIffAnswered
  BY <1>1 DEF ChargedIffAnswered, Earned
<1> QED
  BY <1>2, GatewayCorrect, PTL

\* The ledger is safe under the handler, its one real caller.
THEOREM LedgerSafeInUse == Spec => []LedgerSafe
<1>1. GatewayInv => LedgerSafe
  BY DEF GatewayInv, LedgerInv, LedgerSafe
<1> QED
  BY <1>1, GatewayCorrect, PTL

\* Between requests, the answers add up to the recorded spend and latency.
THEOREM BooksBalance == Spec => []AnswersMatchLedger
<1> DEFINE Answers == {r \in Req : status[r] = 200}
           Recorded == {r \in Answers : state[r] = "committed"}
<1>1. ASSUME GatewayInv, \A r \in Req : pc[r] \notin {"leave", "record"}
      PROVE  /\ spent = Total(Masked([r \in Req |-> result[r][1]], Answers), N)
             /\ usedLat = Total(Masked([r \in Req |-> result[r][2]], Recorded), N)
  <2>1. \A r \in Req : /\ status[r] = 200 => Earned(r)
                       /\ state[r] = "committed" => status[r] = 200
    <3> SUFFICES ASSUME NEW r \in Req
                 PROVE  /\ status[r] = 200 => Earned(r)
                        /\ state[r] = "committed" => status[r] = 200
      OBVIOUS
    <3>1. Journey(r) /\ pc[r] \in Stages \ {"leave", "record"}
      BY <1>1 DEF GatewayInv, Typed
    <3> QED
      BY <3>1 DEF Journey, Uncharged, Stages
  <2>2. Recorded = Committed
    BY <2>1 DEF Committed
  <2>3. Masked(Costs, Answers) = Masked(Costs, Committed)
    <3>1. \A r \in Req : IF r \in Answers THEN Costs[r] = IF r \in Committed THEN Costs[r] ELSE 0
                                         ELSE r \notin Committed
      BY <2>1 DEF Committed, Costs, Earned
    <3>2. DOMAIN Costs = Req
      BY DEF Costs
    <3> HIDE DEF Answers
    <3> QED
      BY <3>1, <3>2 DEF Masked
  <2>4. BooksMatch
    BY <1>1 DEF GatewayInv
  <2> HIDE DEF Answers, Recorded
  <2>5. spent = Total(Masked(Costs, Answers), N) /\ usedLat = Total(Masked(Latencies, Recorded), N)
    BY <2>2, <2>3, <2>4 DEF BooksMatch
  <2> QED
    BY <2>5 DEF Costs, Latencies
<1>2. GatewayInv => AnswersMatchLedger
  BY <1>1 DEF AnswersMatchLedger
<1> QED
  BY <1>2, GatewayCorrect, PTL

-----------------------------------------------------------------------------
\* The contract

\* What Contract sees of the gateway.
OwedMoney == [r \in Req |-> Money(state[r])]
OwedReply == [r \in Req |-> Reply(pc[r], status[r])]
OwedCharge == [r \in Req |-> IF state[r] = "committed" THEN result[r][1] ELSE 0]

\* The values the mapping takes for a reservation's state.
LEMMA MoneyValues ==
  /\ Money("unborn") = "none"
  /\ Money("pending") = "held"
  /\ Money("committed") = "charged"
  /\ Money("rolled_back") = "returned"
BY DEF Money

\* The values it takes for a request's stage and status.
LEMMA ReplyValues ==
  /\ \A code : Reply("cancelled", code) = "gone"
  /\ \A s \in Stages \ {"cancelled"} :
        Reply(s, 0) = "none" /\ Reply(s, 200) = "answer"
            /\ Reply(s, 500) = "error" /\ Reply(s, 503) = "error"
BY DEF Reply

\* A request not yet answered has no reply, and one neither answered nor
\* cancelled has status 0.
LEMMA NoReply ==
  ASSUME GatewayInv, NEW r \in Req, pc[r] \notin {"done", "cancelled"}
  PROVE  OwedReply[r] = "none"
<1>1. status[r] = 0 /\ pc[r] \in Stages \ {"cancelled"}
  BY DEF GatewayInv, Journey, Typed
<1> QED
  BY <1>1, ReplyValues DEF OwedReply

\* A step that concerns r only changes the contract's view of r only.
LEMMA OneClient ==
  ASSUME NEW r \in Req, Apart(r)
  PROVE  /\ OwedMoney' = [OwedMoney EXCEPT ![r] = Money(state'[r])]
         /\ OwedReply' = [OwedReply EXCEPT ![r] = Reply(pc'[r], status'[r])]
         /\ OwedCharge' = [OwedCharge EXCEPT
               ![r] = IF state'[r] = "committed" THEN result'[r][1] ELSE 0]
<1>1. \A q \in Req \ {r} : /\ state'[q] = state[q] /\ pc'[q] = pc[q]
                           /\ status'[q] = status[q] /\ result'[q] = result[q]
  BY DEF Apart
<1>2. OwedMoney' = [OwedMoney EXCEPT ![r] = Money(state'[r])]
  BY <1>1 DEF OwedMoney
<1>3. OwedReply' = [OwedReply EXCEPT ![r] = Reply(pc'[r], status'[r])]
  BY <1>1 DEF OwedReply
<1>4. OwedCharge' = [OwedCharge EXCEPT
               ![r] = IF state'[r] = "committed" THEN result'[r][1] ELSE 0]
  BY <1>1 DEF OwedCharge
<1> QED
  BY <1>2, <1>3, <1>4

\* The contract's actions, in terms of what it sees.
LEMMA ContractActions ==
  ASSUME NEW r \in Req
  PROVE  /\ /\ OwedMoney[r] = "none" /\ OwedReply[r] = "none"
            /\ OwedMoney' = [OwedMoney EXCEPT ![r] = "held"]
            /\ UNCHANGED <<OwedReply, OwedCharge, spent>>
            => Owed!Next
         /\ /\ OwedMoney[r] = "held" /\ OwedReply[r] = "none"
            /\ OwedMoney' = [OwedMoney EXCEPT ![r] = "charged"]
            /\ OwedCharge'[r] \in Nat
            /\ OwedCharge' = [OwedCharge EXCEPT ![r] = OwedCharge'[r]]
            /\ spent' = spent + OwedCharge'[r]
            /\ UNCHANGED OwedReply
            => Owed!Next
         /\ /\ OwedReply[r] = "none" /\ OwedMoney[r] \in {"charged", "returned"}
            /\ OwedReply' = [OwedReply EXCEPT ![r] = "answer"]
            /\ UNCHANGED <<OwedMoney, OwedCharge, spent>>
            => Owed!Next
         /\ /\ OwedReply[r] = "none" /\ OwedMoney[r] # "charged"
            /\ OwedReply' = [OwedReply EXCEPT ![r] = "error"]
            /\ OwedMoney' = [OwedMoney EXCEPT ![r] = IF @ = "held" THEN "returned" ELSE @]
            /\ UNCHANGED <<OwedCharge, spent>>
            => Owed!Next
         /\ /\ OwedReply[r] = "none" /\ OwedMoney[r] \in {"held", "returned"}
            /\ OwedReply' = [OwedReply EXCEPT ![r] = "gone"]
            /\ UNCHANGED <<OwedMoney, OwedCharge, spent>>
            => Owed!Next
BY Zenon DEF Owed!Next, Owed!Hold, Owed!Charge, Owed!Answer, Owed!Fail, Owed!Abandon,
             OwedMoney, OwedReply, OwedCharge

\* Amounts given back, of one request or of all that expired.
LEMMA ContractReturn ==
  ASSUME NEW S \in SUBSET Req, \A r \in S : OwedMoney[r] = "held",
         OwedMoney' = [r \in Req |-> IF r \in S THEN "returned" ELSE OwedMoney[r]],
         UNCHANGED <<OwedReply, OwedCharge, spent>>
  PROVE  Owed!Next
BY Zenon DEF Owed!Next, Owed!Return, OwedMoney, OwedReply, OwedCharge
\* What the contract sees is of its types.
LEMMA OwedTypes ==
  ASSUME GatewayInv
  PROVE  /\ OwedMoney \in [Req -> {"none", "held", "charged", "returned"}]
         /\ OwedReply \in [Req -> {"none", "answer", "error", "gone"}]
         /\ OwedCharge \in [Req -> Nat]
<1>1. Typed /\ LedgerInv
  BY DEF GatewayInv
<1>2. OwedMoney \in [Req -> {"none", "held", "charged", "returned"}]
  BY <1>1, StateTyped, MoneyValues DEF OwedMoney
<1>3. OwedReply \in [Req -> {"none", "answer", "error", "gone"}]
  <2>1. \A r \in Req : pc[r] \in Stages /\ status[r] \in {0, 200, 500, 503}
    BY <1>1 DEF Typed
  <2>2. \A r \in Req : Reply(pc[r], status[r]) \in {"none", "answer", "error", "gone"}
    BY <2>1, ReplyValues
  <2> QED
    BY <2>2 DEF OwedReply
<1>4. OwedCharge \in [Req -> Nat]
  BY <1>1, FiguresTyped DEF OwedCharge
<1> QED
  BY <1>2, <1>3, <1>4

\* Every step of a request is a step of its contract, or none.
LEMMA RequestKeepsContract ==
  ASSUME GatewayInv, GatewayInv', NEW r \in Req, Apart(r), Moved(r)
  PROVE  Owed!Next \/ UNCHANGED <<OwedMoney, OwedReply, OwedCharge, spent>>
<1> DEFINE reply == Reply(pc'[r], status'[r])
           charge == IF state'[r] = "committed" THEN result'[r][1] ELSE 0
<1>1. /\ OwedMoney' = [OwedMoney EXCEPT ![r] = Money(state'[r])]
      /\ OwedReply' = [OwedReply EXCEPT ![r] = reply]
      /\ OwedCharge' = [OwedCharge EXCEPT ![r] = charge]
  BY OneClient
<1>2. OwedReply[r] = "none"
  BY NoReply DEF Moved
<1>3. /\ OwedMoney[r] = Money(state[r])
      /\ OwedCharge[r] = IF state[r] = "committed" THEN result[r][1] ELSE 0
  BY DEF OwedMoney, OwedCharge
<1>4. /\ OwedMoney \in [Req -> {"none", "held", "charged", "returned"}]
      /\ OwedReply \in [Req -> {"none", "answer", "error", "gone"}]
      /\ OwedCharge \in [Req -> Nat]
  BY OwedTypes
<1>5. state[r] \in {"unborn", "pending", "committed", "rolled_back"}
  BY StateTyped DEF GatewayInv
<1>6. pc'[r] \in Stages /\ status'[r] \in {0, 200, 500, 503} /\ Journey(r)'
  BY DEF GatewayInv, Typed
<1>7. /\ pc'[r] \notin {"done", "cancelled"} => reply = "none"
      /\ pc'[r] = "cancelled" => reply = "gone"
      /\ pc'[r] = "done" => reply = IF status'[r] = 200 THEN "answer" ELSE "error"
  BY <1>6, ReplyValues DEF Journey
<1> HIDE DEF reply
<1>8. CASE state'[r] = state[r]
  <2>1. charge = OwedCharge[r] /\ spent' = spent
    BY <1>3, <1>8 DEF Moved
  <2> HIDE DEF charge
  <2>2. OwedMoney' = OwedMoney /\ OwedCharge' = OwedCharge
    BY <1>1, <1>3, <1>4, <1>8, <2>1
  <2>3. CASE pc'[r] \notin {"done", "cancelled"}
    BY <1>1, <1>2, <1>4, <1>7, <2>1, <2>2, <2>3
  <2>4. CASE pc'[r] = "cancelled"
    <3>1. state[r] \in {"pending", "rolled_back"}
      BY <1>6, <1>8, <2>4 DEF Journey, Uncharged
    <3>2. OwedMoney[r] \in {"held", "returned"}
      BY <1>3, <3>1, MoneyValues
    <3> QED
      BY <1>1, <1>2, <1>7, <2>1, <2>2, <2>4, <3>2, ContractActions
  <2>5. CASE pc'[r] = "done" /\ status'[r] = 200
    <3>1. state[r] \in {"committed", "rolled_back"}
      BY <1>6, <1>8, <2>5 DEF Journey, Earned
    <3>2. OwedMoney[r] \in {"charged", "returned"}
      BY <1>3, <3>1, MoneyValues
    <3> QED
      BY <1>1, <1>2, <1>7, <2>1, <2>2, <2>5, <3>2, ContractActions
  <2>6. CASE pc'[r] = "done" /\ status'[r] # 200
    <3>1. state[r] \in {"unborn", "rolled_back"}
      BY <1>6, <1>8, <2>6 DEF Journey
    <3>2. OwedMoney[r] \in {"none", "returned"}
      BY <1>3, <3>1, MoneyValues
    <3>3. OwedMoney' = [OwedMoney EXCEPT ![r] = IF @ = "held" THEN "returned" ELSE @]
      BY <1>4, <2>2, <3>2
    <3> QED
      BY <1>1, <1>2, <1>7, <2>1, <2>2, <2>6, <3>2, <3>3, ContractActions
  <2> QED
    BY <2>3, <2>4, <2>5, <2>6
<1>9. CASE state[r] = "unborn" /\ state'[r] = "pending"
  <2>1. pc'[r] \notin {"done", "cancelled"} /\ spent' = spent /\ charge = 0
    BY <1>9 DEF Moved
  <2>2. OwedMoney[r] = "none" /\ OwedMoney' = [OwedMoney EXCEPT ![r] = "held"]
    BY <1>1, <1>3, <1>9, MoneyValues
  <2>3. OwedReply' = OwedReply
    BY <1>1, <1>2, <1>4, <1>7, <2>1
  <2>4. OwedCharge' = OwedCharge
    BY <1>1, <1>3, <1>4, <1>9, <2>1
  <2> QED
    BY <1>2, <2>1, <2>2, <2>3, <2>4, ContractActions
<1>10. CASE state[r] = "pending" /\ state'[r] = "committed"
  <2>1. /\ pc'[r] \notin {"done", "cancelled"}
        /\ charge = result[r][1]
        /\ spent' = spent + result[r][1]
    BY <1>10 DEF Moved
  <2>2. result[r][1] \in Nat
    BY FiguresTyped DEF GatewayInv
  <2> HIDE DEF charge
  <2>3. OwedMoney[r] = "held" /\ OwedMoney' = [OwedMoney EXCEPT ![r] = "charged"]
    BY <1>1, <1>3, <1>10, MoneyValues
  <2>4. OwedReply' = OwedReply
    BY <1>1, <1>2, <1>4, <1>7, <2>1
  <2>5. /\ OwedCharge'[r] \in Nat
        /\ OwedCharge' = [OwedCharge EXCEPT ![r] = OwedCharge'[r]]
        /\ spent' = spent + OwedCharge'[r]
    BY <1>1, <1>4, <2>1, <2>2
  <2> QED
    BY <1>2, <2>3, <2>4, <2>5, ContractActions
<1>11. CASE state[r] = "pending" /\ state'[r] = "rolled_back"
  <2>1. pc'[r] # "cancelled" /\ status'[r] # 200 /\ spent' = spent /\ charge = 0
    BY <1>11 DEF Moved
  <2>2. OwedMoney[r] = "held" /\ OwedMoney' = [OwedMoney EXCEPT ![r] = "returned"]
    BY <1>1, <1>3, <1>11, MoneyValues
  <2>3. OwedCharge' = OwedCharge
    BY <1>1, <1>3, <1>4, <1>11, <2>1
  <2>4. CASE pc'[r] = "done"
    <3>1. OwedReply' = [OwedReply EXCEPT ![r] = "error"]
      BY <1>1, <1>7, <2>1, <2>4
    <3>2. OwedMoney' = [OwedMoney EXCEPT ![r] = IF @ = "held" THEN "returned" ELSE @]
      BY <2>2
    <3> QED
      BY <1>2, <2>1, <2>2, <2>3, <3>1, <3>2, ContractActions
  <2>5. CASE pc'[r] # "done"
    <3>1. OwedReply' = OwedReply
      BY <1>1, <1>2, <1>4, <1>7, <2>1, <2>5
    <3> DEFINE S == {r}
    <3>2. OwedMoney' = [q \in Req |-> IF q \in S THEN "returned" ELSE OwedMoney[q]]
      BY <1>4, <2>2
    <3>3. S \in SUBSET Req /\ \A q \in S : OwedMoney[q] = "held"
      BY <2>2
    <3> HIDE DEF S
    <3> QED
      BY <2>1, <2>3, <3>1, <3>2, <3>3, ContractReturn
  <2> QED
    BY <2>4, <2>5
<1> QED
  BY <1>8, <1>9, <1>10, <1>11 DEF Moved

\* The reaper gives back what it expires; the clock is no step of the contract.
LEMMA BackgroundKeepsContract ==
  ASSUME GatewayInv, Background
  PROVE  Owed!Next \/ UNCHANGED <<OwedMoney, OwedReply, OwedCharge, spent>>
<1>1. UNCHANGED <<pc, status, result>>
  BY DEF Background, reqVars
<1>2. OwedReply' = OwedReply
  BY <1>1 DEF OwedReply
<1>3. CASE BM!Tick
  BY <1>1, <1>2, <1>3 DEF BM!Tick, BM!ledger, OwedMoney, OwedCharge
<1>4. CASE BM!Reap
  <2> DEFINE S == {r \in active : BM!IsExpired(r)}
  <2>1. /\ state' = [r \in Req |-> IF r \in S THEN "rolled_back" ELSE state[r]]
        /\ spent' = spent
    BY <1>4 DEF BM!Reap, BM!Res, Req
  <2>2. S \in SUBSET Req /\ \A r \in S : state[r] = "pending"
    BY StateTyped DEF GatewayInv, LedgerInv, BM!TypeOK, BM!Res, Req
  <2> HIDE DEF S
  <2>3. \A r \in S : OwedMoney[r] = "held"
    BY <2>2, MoneyValues DEF OwedMoney
  <2>4. OwedMoney' = [r \in Req |-> IF r \in S THEN "returned" ELSE OwedMoney[r]]
    BY <2>1, MoneyValues DEF OwedMoney
  <2>5. OwedCharge' = OwedCharge
    BY <1>1, <2>1, <2>2 DEF OwedCharge
  <2> QED
    BY <1>2, <2>1, <2>2, <2>3, <2>4, <2>5, ContractReturn
<1> QED
  BY <1>3, <1>4 DEF Background

\* The gateway keeps the contract: routes, slots, fallbacks, refused and expired
\* commits, the reaper and cancellations are all steps the contract allows.
THEOREM ContractKept == Spec => ImplementsContract
<1>1. Init => Owed!Init
  <2> SUFFICES ASSUME Init
               PROVE  Owed!Init
    OBVIOUS
  <2>1. /\ spent = 0
        /\ \A r \in Req : state[r] = "unborn" /\ pc[r] = "new" /\ status[r] = 0
    BY DEF Init, BM!Init, BM!Res, Req
  <2>2. "new" \in Stages \ {"cancelled"}
    BY DEF Stages
  <2>3. /\ OwedMoney = [c \in Req |-> "none"]
        /\ OwedReply = [c \in Req |-> "none"]
        /\ OwedCharge = [c \in Req |-> 0]
    BY <2>1, <2>2, MoneyValues, ReplyValues DEF OwedMoney, OwedReply, OwedCharge
  <2> QED
    BY <2>1, <2>3 DEF Owed!Init, OwedMoney, OwedReply, OwedCharge
<1>2. GatewayInv /\ GatewayInv' /\ [Next]_vars => [Owed!Next]_(Owed!contractVars)
  <2> SUFFICES ASSUME GatewayInv, GatewayInv', [Next]_vars
               PROVE  [Owed!Next]_(Owed!contractVars)
    OBVIOUS
  <2>1. CASE UNCHANGED vars
    BY <2>1 DEF vars, bmVars, reqVars, Owed!contractVars
  <2>2. CASE Next
    <3>1. Owed!Next \/ UNCHANGED <<OwedMoney, OwedReply, OwedCharge, spent>>
      BY <2>2, RequestStep, RequestKeepsContract, BackgroundKeepsContract DEF Next
    <3> QED
      BY <3>1 DEF Owed!contractVars, OwedMoney, OwedReply, OwedCharge
  <2> QED
    BY <2>1, <2>2
<1> QED
  BY <1>1, <1>2, GatewayCorrect, PTL DEF Spec, ImplementsContract, Owed!Spec

-----------------------------------------------------------------------------
(***************************************************************************)
(* What the handler owes to asyncio: no lock here is ever held across a     *)
(* suspension, so taking one does not suspend (LockMaySuspend = FALSE), and *)
(* a request keeps the event loop from one backend call to the next.  Then  *)
(* what route() read is still true when it decides, for any number of       *)
(* requests, any limits and any backends.                                   *)
(***************************************************************************)

\* Where a request does not keep the loop.
Idle == IOStages \union {"new", "done", "cancelled"}

\* The paths a plan has left.
OffersRemote(p) == p \in {<<"REMOTE">>, <<"REMOTE", "LOCAL">>, <<"REMOTE", "QUEUE_LOCAL">>}
OffersLocal(p) == p \in Plans \ {<<>>, <<"REMOTE">>}

\* What route() read of the request, the queue and the estimates still holds.
Fresh(r) ==
    /\ quote[r].ask \in DOMAIN Asks
    /\ quote[r].tier = CC!TierOf(Asks[quote[r].ask])
    /\ quote[r].full <=> QM!IsAtCapacity
    /\ quote[r].local = est["local"] * (quote[r].depth + 1)

\* The plan has no path it should not have, and a path it lacks is closed.
Sound(r) ==
    /\ OffersRemote(plan[r]) =>
          quote[r].tier = "QUALITY" \/ quote[r].full \/ quote[r].local > quote[r].sla
    /\ OffersLocal(plan[r]) => ~quote[r].full
    /\ quote[r].tier = "QUALITY" => OffersRemote(plan[r]) \/ ~RemoteOpen(r)
    /\ OffersLocal(plan[r]) \/ ~LocalOpen(r)

\* A request admitted to local has its slot waiting.
Seated(r) == route[r] \in {"LOCAL", "QUEUE_LOCAL"} => ~QM!IsAtCapacity

\* A request between two backend calls keeps the loop; so nothing has changed
\* since it was routed.
LoopInv ==
    \A r \in Req :
        /\ pc[r] \notin Idle => running = r
        /\ pc[r] = "routing" => Fresh(r) /\ Sound(r)
        /\ pc[r] = "admitted" => Seated(r)

-----------------------------------------------------------------------------
\* Plans

\* What a plan and its rest offer.
LEMMA PlanRest ==
  ASSUME NEW p \in Plans, p # <<>>
  PROVE  \/ /\ Head(p) = "REMOTE" /\ OffersRemote(p)
            /\ ~OffersRemote(Tail(p))
            /\ OffersLocal(Tail(p)) <=> OffersLocal(p)
         \/ /\ Head(p) \in {"LOCAL", "QUEUE_LOCAL"} /\ OffersLocal(p)
            /\ ~OffersRemote(p)
            /\ Tail(p) = <<>>
<1>1. CASE p = <<"LOCAL">>
  BY <1>1 DEF Plans, OffersRemote, OffersLocal
<1>2. CASE p = <<"QUEUE_LOCAL">>
  BY <1>2 DEF Plans, OffersRemote, OffersLocal
<1>3. CASE p = <<"REMOTE">>
  <2>1. Head(p) = "REMOTE" /\ Tail(p) = <<>>
    BY <1>3
  <2> QED
    BY <1>3, <2>1 DEF Plans, OffersRemote, OffersLocal
<1>4. CASE p = <<"REMOTE", "LOCAL">>
  <2>1. Head(p) = "REMOTE" /\ Tail(p) = <<"LOCAL">>
    BY <1>4
  <2> QED
    BY <1>4, <2>1 DEF Plans, OffersRemote, OffersLocal
<1>5. CASE p = <<"REMOTE", "QUEUE_LOCAL">>
  <2>1. Head(p) = "REMOTE" /\ Tail(p) = <<"QUEUE_LOCAL">>
    BY <1>5
  <2> QED
    BY <1>5, <2>1 DEF Plans, OffersRemote, OffersLocal
<1> QED
  BY <1>1, <1>2, <1>3, <1>4, <1>5 DEF Plans

\* An exhausted plan offers nothing.
LEMMA NothingLeft == ~OffersRemote(<<>>) /\ ~OffersLocal(<<>>)
BY DEF OffersRemote, OffersLocal

\* What each of the plans offers.
LEMMA PlanKinds ==
  ASSUME NEW w \in {"LOCAL", "QUEUE_LOCAL"}
  PROVE  /\ OffersRemote(<<"REMOTE", w>>) /\ OffersLocal(<<"REMOTE", w>>)
         /\ ~OffersRemote(<<w>>) /\ OffersLocal(<<w>>)
         /\ OffersRemote(<<"REMOTE">>) /\ ~OffersLocal(<<"REMOTE">>)
<1>1. OffersRemote(<<"REMOTE", w>>) /\ OffersLocal(<<"REMOTE", w>>)
  BY DEF OffersRemote, OffersLocal, Plans
<1>2. ~OffersRemote(<<w>>) /\ OffersLocal(<<w>>)
  BY DEF OffersRemote, OffersLocal, Plans
<1>3. OffersRemote(<<"REMOTE">>) /\ ~OffersLocal(<<"REMOTE">>)
  BY DEF OffersRemote, OffersLocal
<1> QED
  BY <1>1, <1>2, <1>3

\* What joining an optional remote path and an optional local one offers.
LEMMA JoinedOffers ==
  ASSUME NEW a \in BOOLEAN, NEW b \in BOOLEAN, NEW w \in {"LOCAL", "QUEUE_LOCAL"}
  PROVE  /\ OffersRemote(DA!When(a, "REMOTE") \o DA!When(b, w)) <=> a
         /\ OffersLocal(DA!When(a, "REMOTE") \o DA!When(b, w)) <=> b
<1>1. DA!When(a, "REMOTE") \o DA!When(b, w)
         = IF a THEN IF b THEN <<"REMOTE", w>> ELSE <<"REMOTE">>
                ELSE IF b THEN <<w>> ELSE <<>>
  BY Joined
<1> QED
  BY <1>1, PlanKinds, NothingLeft

\* What the plan of route() offers.
LEMMA PlanOffers ==
  ASSUME NEW q \in Quotes
  PROVE  /\ OffersLocal(DA!Plan(q)) <=> ~q.full
         /\ OffersRemote(DA!Plan(q)) => q.tier = "QUALITY" \/ q.full \/ ~DA!LocalWithinSla(q)
         /\ q.tier = "QUALITY" => (OffersRemote(DA!Plan(q)) <=> DA!RemoteWithinSla(q))
<1> DEFINE w == IF DA!LocalWithinSla(q) THEN "LOCAL" ELSE "QUEUE_LOCAL"
           a == DA!RemoteWithinSla(q)
           b == ~q.full
<1>1. w \in {"LOCAL", "QUEUE_LOCAL"} /\ "QUEUE_LOCAL" \in {"LOCAL", "QUEUE_LOCAL"}
  OBVIOUS
<1>2. a \in BOOLEAN /\ b \in BOOLEAN
  BY DEF DA!RemoteWithinSla
<1>3. DA!QualityPlan(q) = DA!When(a, "REMOTE") \o DA!When(b, w)
  BY DEF DA!QualityPlan
<1>4. DA!FastPlan(q) = IF b /\ DA!LocalWithinSla(q) THEN <<"LOCAL">>
                       ELSE DA!When(a, "REMOTE") \o DA!When(b, "QUEUE_LOCAL")
  BY DEF DA!FastPlan
<1>5. OffersLocal(<<"LOCAL">>) /\ ~OffersRemote(<<"LOCAL">>)
  BY DEF OffersLocal, OffersRemote, Plans
<1>6. DA!Plan(q) = IF q.tier = "QUALITY" THEN DA!QualityPlan(q) ELSE DA!FastPlan(q)
  BY DEF DA!Plan
<1> HIDE DEF w, a
<1>7. (OffersRemote(DA!QualityPlan(q)) <=> a) /\ (OffersLocal(DA!QualityPlan(q)) <=> b)
  BY <1>1, <1>2, <1>3, JoinedOffers
<1>8. OffersLocal(DA!FastPlan(q)) <=> b
  BY <1>1, <1>2, <1>4, <1>5, JoinedOffers
<1>9. OffersRemote(DA!FastPlan(q)) => ~b \/ ~DA!LocalWithinSla(q)
  BY <1>4, <1>5
<1> QED
  BY <1>6, <1>7, <1>8, <1>9 DEF a

-----------------------------------------------------------------------------
\* Who has the loop

\* After its step r waits for a backend, is through, or keeps the loop.
Kept(r) == pc'[r] \in Idle \/ running' = r

\* r goes on to a stage past its routing.
Onward(r) == Kept(r) /\ pc'[r] \notin {"routing", "admitted"}

\* The moves of the control keep the loop.
LEMMA KeptByMoves ==
  ASSUME Typed, NEW r \in Req, LockMaySuspend = FALSE
  PROVE  /\ \A s \in Stages : GoTo(r, s) => Kept(r) /\ pc'[r] = s
         /\ \A code \in {200, 500, 503} : Answer(r, code) => Onward(r)
         /\ \A g \in Ends : ToGoal(r, g) => Onward(r)
<1>1. ASSUME NEW s \in Stages, GoTo(r, s)
      PROVE  Kept(r) /\ pc'[r] = s
  <2>1. pc'[r] = s
    BY <1>1, Moves
  <2>2. s \notin IOStages => running' = r
    BY <1>1, Zenon DEF GoTo
  <2> QED
    BY <2>1, <2>2 DEF Kept, Idle
<1>2. \A code \in {200, 500, 503} : Answer(r, code) => Onward(r)
  BY DEF Typed, Answer, Onward, Kept, Idle
<1>3. ASSUME NEW g \in Ends, ToGoal(r, g)
      PROVE  Onward(r)
  <2>1. CASE g \in {"record", "fallback"}
    <3>1. GoTo(r, g) /\ g \in Stages
      BY <1>3, <2>1 DEF ToGoal, Stages
    <3> QED
      BY <1>1, <2>1, <3>1 DEF Onward
  <2>2. CASE g = "cancelled"
    BY <1>3, <2>2 DEF ToGoal, Typed, Onward, Kept, Idle
  <2>3. CASE g = "500"
    BY <1>2, <1>3, <2>3 DEF ToGoal
  <2>4. CASE g = "503"
    BY <1>2, <1>3, <2>4 DEF ToGoal
  <2> QED
    BY <2>1, <2>2, <2>3, <2>4 DEF Ends
<1> QED
  BY <1>1, <1>2, <1>3

\* A move to a later stage is a step onward.
LEMMA OnwardByMove ==
  ASSUME Typed, NEW r \in Req, LockMaySuspend = FALSE,
         NEW s \in {"remote_io", "local_io", "settle", "fallback_io", "leave", "cleanup"},
         GoTo(r, s)
  PROVE  Onward(r)
<1>1. s \in Stages /\ s \notin {"routing", "admitted"}
  BY DEF Stages
<1>2. Kept(r) /\ pc'[r] = s
  BY <1>1, KeptByMoves
<1> QED
  BY <1>1, <1>2 DEF Onward

\* So do the ways through a finally and an except branch.
LEMMA KeptByExits ==
  ASSUME Typed, NEW r \in Req, NEW g \in Ends, LockMaySuspend = FALSE,
         LeaveFor(r, g) \/ CleanUpThen(r, g)
  PROVE  Onward(r)
<1>1. GoTo(r, "leave") \/ GoTo(r, "cleanup") \/ ToGoal(r, g)
  BY Zenon DEF LeaveFor, CleanUpThen
<1>2. CASE GoTo(r, "leave")
  BY <1>2, OnwardByMove
<1>3. CASE GoTo(r, "cleanup")
  BY <1>3, OnwardByMove
<1>4. CASE ToGoal(r, g)
  BY <1>4, KeptByMoves
<1> QED
  BY <1>1, <1>2, <1>3, <1>4

\* When r can take a step, every other request is idle.
LEMMA OwnTurn ==
  ASSUME LoopInv, NEW r \in Req, running \in {NoOne, r}
  PROVE  \A q \in Req \ {r} : pc[q] \in Idle
<1>1. NoOne \notin Req
  BY GatewayAssumption DEF NoOne, Req
<1> QED
  BY <1>1 DEF LoopInv

\* What a step of r has to show.
LEMMA LoopKept ==
  ASSUME LoopInv, NEW r \in Req, running \in {NoOne, r}, Apart(r), Kept(r),
         pc'[r] = "routing" => Fresh(r)' /\ Sound(r)',
         pc'[r] = "admitted" => Seated(r)'
  PROVE  LoopInv'
<1>1. \A q \in Req \ {r} : pc'[q] \in Idle
  BY OwnTurn DEF Apart
<1>2. \A q \in Req \ {r} : pc'[q] # "routing" /\ pc'[q] # "admitted"
  BY <1>1 DEF Idle, IOStages
<1> QED
  BY <1>1, <1>2 DEF LoopInv, Kept

-----------------------------------------------------------------------------
\* The actions that route

\* route() reads the queue and the estimates and plans.
LEMMA ArriveLoop ==
  ASSUME GatewayInv, GatewayInv', LoopInv, LockMaySuspend = FALSE, NEW r \in Req,
         NEW ask \in DOMAIN Asks, NEW sla \in Slas, Arrive(r, ask, sla), Apart(r)
  PROVE  LoopInv'
<1> DEFINE q == DA!Quote(ask, CC!TierOf(Asks[ask]), sla, activeCount, QM!IsAtCapacity,
                         est["local"], est["remote"])
<1>1. Typed /\ Typed'
  BY DEF GatewayInv
<1>2. /\ running \in {NoOne, r}
      /\ quote' = [quote EXCEPT ![r] = q]
      /\ plan' = [plan EXCEPT ![r] = DA!Plan(q)]
      /\ GoTo(r, "routing")
      /\ UNCHANGED <<bmVars, qmVars, est>>
  BY DEF Arrive, At
<1>3. /\ q.ask = ask /\ q.tier = CC!TierOf(Asks[ask]) /\ q.sla = sla
      /\ q.full = QM!IsAtCapacity /\ q.remote = est["remote"]
      /\ q.local = est["local"] * (activeCount + 1) /\ q.depth = activeCount
  BY DEF DA!Quote
<1> HIDE DEF q
<1>4. quote'[r] = q /\ plan'[r] = DA!Plan(q)
  BY <1>1, <1>2 DEF Typed
<1>5. q \in Quotes
  BY <1>1, <1>4 DEF Typed
<1>6. QM!IsAtCapacity' <=> QM!IsAtCapacity
  BY <1>2 DEF QM!IsAtCapacity, qmVars
<1>7. Fresh(r)'
  BY <1>2, <1>3, <1>4, <1>6 DEF Fresh
<1>8. Sound(r)'
  <2>1. /\ OffersLocal(plan'[r]) <=> ~q.full
        /\ OffersRemote(plan'[r]) => q.tier = "QUALITY" \/ q.full \/ ~DA!LocalWithinSla(q)
        /\ q.tier = "QUALITY" => (OffersRemote(plan'[r]) <=> DA!RemoteWithinSla(q))
    BY <1>4, <1>5, PlanOffers
  <2>2. q.local \in Nat /\ q.sla \in Nat
    BY <1>5 DEF Quotes
  <2>3. ~DA!LocalWithinSla(q) => q.local > q.sla
    BY <2>2 DEF DA!LocalWithinSla
  <2>4. RemoteOpen(r)' => DA!RemoteWithinSla(q)
    BY <1>4 DEF RemoteOpen, DA!RemoteWithinSla
  <2>5. LocalOpen(r)' => ~q.full
    BY <1>3, <1>6 DEF LocalOpen
  <2> QED
    BY <1>4, <2>1, <2>3, <2>4, <2>5 DEF Sound
<1>9. Kept(r) /\ pc'[r] = "routing"
  BY <1>1, <1>2, KeptByMoves DEF Stages
<1> QED
  BY <1>2, <1>7, <1>8, <1>9, LoopKept

\* A granted path is the decision; a local one has its slot waiting.
LEMMA AdmitLoop ==
  ASSUME GatewayInv, LoopInv, LockMaySuspend = FALSE, NEW r \in Req, Admit(r), Apart(r)
  PROVE  LoopInv'
<1>1. Typed
  BY DEF GatewayInv
<1>2. /\ running \in {NoOne, r} /\ pc[r] = "routing" /\ plan[r] # <<>>
      /\ route' = [route EXCEPT ![r] = Head(plan[r])]
      /\ GoTo(r, "admitted")
      /\ UNCHANGED qmVars
  BY DEF Admit, At, Path
<1>3. route'[r] = Head(plan[r]) /\ plan[r] \in Plans
  BY <1>1, <1>2 DEF Typed
<1>4. Fresh(r) /\ Sound(r)
  BY <1>2 DEF LoopInv
<1>5. Head(plan[r]) \in {"LOCAL", "QUEUE_LOCAL"} => OffersLocal(plan[r])
  BY <1>2, <1>3, PlanRest
<1>6. Seated(r)'
  BY <1>2, <1>3, <1>4, <1>5 DEF Seated, Fresh, Sound, QM!IsAtCapacity, qmVars
<1>7. Kept(r) /\ pc'[r] = "admitted"
  BY <1>1, <1>2, KeptByMoves DEF Stages
<1> QED
  BY <1>2, <1>6, <1>7, LoopKept

\* A refused path is closed; the rest of the plan is left.
LEMMA RefuseLoop ==
  ASSUME GatewayInv, LoopInv, LockMaySuspend = FALSE, NEW r \in Req, Refuse(r), Apart(r)
  PROVE  LoopInv'
<1>1. Typed
  BY DEF GatewayInv
<1>2. /\ running \in {NoOne, r} /\ pc[r] = "routing" /\ plan[r] # <<>>
      /\ ~BM!HasRoom(PathCost(r), PathLatency(r))
      /\ plan' = [plan EXCEPT ![r] = Tail(plan[r])]
      /\ GoTo(r, "routing")
      /\ UNCHANGED <<bmVars, qmVars, est, quote>>
  BY DEF Refuse, At
<1>3. plan'[r] = Tail(plan[r]) /\ plan[r] \in Plans
  BY <1>1, <1>2 DEF Typed
<1>4. Fresh(r) /\ Sound(r)
  BY <1>2 DEF LoopInv
<1>5. Fresh(r)'
  BY <1>2, <1>4 DEF Fresh, QM!IsAtCapacity, qmVars
<1>6. (RemoteOpen(r)' <=> RemoteOpen(r)) /\ (LocalOpen(r)' <=> LocalOpen(r))
  BY <1>2 DEF RemoteOpen, LocalOpen, BM!HasRoom, QM!IsAtCapacity, bmVars, qmVars
<1>7. ASSUME Head(plan[r]) = "REMOTE"
      PROVE  Sound(r)'
  <2>1. PathCost(r) = COST_PER_REMOTE_REQUEST /\ PathLatency(r) = quote[r].remote
    BY <1>7 DEF PathCost, PathLatency, Path, DA!AskedCost, DA!AskedLatency
  <2>2. ~RemoteOpen(r)
    BY <1>2, <2>1 DEF RemoteOpen
  <2>3. ~OffersRemote(Tail(plan[r])) /\ (OffersLocal(Tail(plan[r])) <=> OffersLocal(plan[r]))
    BY <1>2, <1>3, <1>7, PlanRest
  <2> QED
    BY <1>2, <1>3, <1>4, <1>6, <2>2, <2>3 DEF Sound
<1>8. ASSUME Head(plan[r]) # "REMOTE"
      PROVE  Sound(r)'
  <2>1. Head(plan[r]) \in {"LOCAL", "QUEUE_LOCAL"} /\ ~OffersRemote(plan[r]) /\ Tail(plan[r]) = <<>>
    BY <1>2, <1>3, <1>8, PlanRest
  <2>2. PathCost(r) = 0 /\ PathLatency(r) = quote[r].local
    BY <1>4, <2>1 DEF PathCost, PathLatency, Path, DA!AskedCost, DA!AskedLatency, Fresh
  <2>3. ~LocalOpen(r)
    BY <1>2, <2>2 DEF LocalOpen
  <2> QED
    BY <1>2, <1>3, <1>4, <1>6, <2>1, <2>3, NothingLeft DEF Sound
<1>9. Sound(r)' /\ Kept(r) /\ pc'[r] = "routing"
  BY <1>1, <1>2, <1>7, <1>8, KeptByMoves DEF Stages
<1> QED
  BY <1>2, <1>5, <1>9, LoopKept
-----------------------------------------------------------------------------
\* Every step

\* Past its routing a request only goes on.
LEMMA OnwardSteps ==
  ASSUME GatewayInv, LockMaySuspend = FALSE, NEW r \in Req,
         \/ FailFast(r) \/ Starting(r) \/ BackendReturns(r) \/ Settling(r) \/ Cancel(r)
  PROVE  Onward(r) /\ running \in {NoOne, r}
<1>1. Typed
  BY DEF GatewayInv
<1>2. {"503", "fallback", "record", "500", "cancelled"} \subseteq Ends
  BY DEF Ends
<1>3. CASE FailFast(r)
  BY <1>1, <1>3, KeptByMoves DEF FailFast, At
<1>4. CASE Starting(r)
  <2>1. CASE StartRemote(r)
    <3>1. GoTo(r, "remote_io") /\ running \in {NoOne, r}
      BY <2>1 DEF StartRemote, At
    <3> QED
      BY <1>1, <3>1, OnwardByMove
  <2>2. CASE StartLocal(r)
    <3>1. GoTo(r, "local_io") /\ running \in {NoOne, r}
      BY <2>2 DEF StartLocal, At
    <3> QED
      BY <1>1, <3>1, OnwardByMove
  <2>3. CASE SlotRefused(r)
    BY <1>1, <1>2, <2>3, KeptByExits DEF SlotRefused, At
  <2> QED
    BY <1>4, <2>1, <2>2, <2>3 DEF Starting
<1>5. CASE BackendReturns(r)
  <2>1. CASE \E x \in RemoteResults : RemoteReturns(r, x)
    <3>1. GoTo(r, "settle") /\ running \in {NoOne, r}
      BY <2>1 DEF RemoteReturns, At
    <3> QED
      BY <1>1, <3>1, OnwardByMove
  <2>2. CASE \E l \in LocalLatencies : LocalReturns(r, l)
    <3>1. GoTo(r, "settle") /\ running \in {NoOne, r}
      BY <2>2 DEF LocalReturns, At
    <3> QED
      BY <1>1, <3>1, OnwardByMove
  <2>3. CASE RemoteFails(r)
    BY <1>1, <1>2, <2>3, KeptByExits DEF RemoteFails, At
  <2>4. CASE \E l \in LocalLatencies : FallbackReturns(r, l)
    <3>1. GoTo(r, "leave") /\ running \in {NoOne, r}
      BY <2>4 DEF FallbackReturns, At
    <3> QED
      BY <1>1, <3>1, OnwardByMove
  <2> QED
    BY <1>5, <2>1, <2>2, <2>3, <2>4 DEF BackendReturns
<1>6. CASE Settling(r)
  <2>1. CASE Commit(r) \/ CommitExceeded(r) \/ CommitExpired(r)
    BY <1>1, <1>2, <2>1, KeptByExits DEF Commit, CommitExceeded, CommitExpired, At
  <2>2. CASE CleanUp(r) \/ Leave(r)
    <3>1. goal[r] \in Ends
      BY <2>2 DEF CleanUp, Leave, At, GatewayInv, Journey, Ends
    <3> QED
      BY <1>1, <2>2, <3>1, KeptByMoves DEF CleanUp, Leave, At
  <2>3. CASE CleanUpExpired(r) \/ FallbackRefused(r) \/ Record(r)
    <3>1. Answer(r, 500) \/ Answer(r, 503) \/ Answer(r, 200)
      BY <2>3, Zenon DEF CleanUpExpired, FallbackRefused, Record
    <3>2. running \in {NoOne, r}
      BY <2>3 DEF CleanUpExpired, FallbackRefused, Record, At
    <3>3. \A code \in {200, 500, 503} : Answer(r, code) => Onward(r)
      BY <1>1, KeptByMoves
    <3>4. Onward(r)
      BY <3>1, <3>3, Zenon
    <3> QED
      BY <3>2, <3>4
  <2>4. CASE FallbackStart(r)
    <3>1. GoTo(r, "fallback_io") /\ running \in {NoOne, r}
      BY <2>4 DEF FallbackStart, At
    <3> QED
      BY <1>1, <3>1, OnwardByMove
  <2> QED
    BY <1>6, <2>1, <2>2, <2>3, <2>4 DEF Settling
<1>7. CASE Cancel(r)
  BY <1>1, <1>2, <1>7, KeptByExits DEF Cancel, At
<1> QED
  BY <1>3, <1>4, <1>5, <1>6, <1>7

\* Every step keeps the loop's invariant.
LEMMA LoopNext ==
  ASSUME LockMaySuspend = FALSE
  PROVE  GatewayInv /\ GatewayInv' /\ LoopInv /\ [Next]_vars => LoopInv'
<1> SUFFICES ASSUME GatewayInv, GatewayInv', LoopInv, [Next]_vars
             PROVE  LoopInv'
  OBVIOUS
<1>1. CASE UNCHANGED vars
  BY <1>1 DEF vars, bmVars, qmVars, reqVars, LoopInv, Fresh, Sound, Seated, RemoteOpen,
              LocalOpen, BM!HasRoom, QM!IsAtCapacity
<1>2. ASSUME NEW r \in Req, Arrival(r) \/ Advance(r) \/ Cancel(r)
      PROVE  LoopInv'
  <2>1. Apart(r)
    BY <1>2, RequestStep
  <2>2. CASE Arrival(r)
    BY <2>1, <2>2, ArriveLoop DEF Arrival
  <2>3. CASE Admit(r) \/ Refuse(r)
    BY <2>1, <2>3, AdmitLoop, RefuseLoop
  <2>4. CASE FailFast(r) \/ Starting(r) \/ BackendReturns(r) \/ Settling(r) \/ Cancel(r)
    <3>1. Onward(r) /\ running \in {NoOne, r}
      BY <2>4, OnwardSteps
    <3> QED
      BY <2>1, <3>1, LoopKept DEF Onward
  <2> QED
    BY <1>2, <2>2, <2>3, <2>4 DEF Advance, Routing
<1>3. CASE Background
  <2>1. running = NoOne /\ UNCHANGED <<pc, running>>
    BY <1>3 DEF Background
  <2>2. NoOne \notin Req
    BY GatewayAssumption DEF NoOne, Req
  <2>3. \A r \in Req : pc[r] \in Idle
    BY <2>1, <2>2 DEF LoopInv
  <2> QED
    BY <2>1, <2>3 DEF LoopInv, Idle, IOStages
<1> QED
  BY <1>1, <1>2, <1>3 DEF Next

\* Nobody has the loop at first.
LEMMA LoopInit == Init => LoopInv
BY DEF Init, LoopInv, Idle

\* The invariant holds throughout.
LEMMA LoopCorrect ==
  ASSUME LockMaySuspend = FALSE
  PROVE  Spec => []LoopInv
<1>1. GatewayInv /\ GatewayInv' /\ LoopInv /\ [Next]_vars => LoopInv'
  BY LoopNext
<1> QED
  BY <1>1, LoopInit, GatewayCorrect, PTL DEF Spec

-----------------------------------------------------------------------------
\* What follows when a lock that is free is taken without suspending

\* A request admitted to local finds its slot: slot() never raises.
THEOREM SlotAwaits == LockMaySuspend = FALSE => (Spec => []NoCapacityRace)
<1> SUFFICES ASSUME LockMaySuspend = FALSE
             PROVE  Spec => []NoCapacityRace
  OBVIOUS
<1>1. LoopInv => NoCapacityRace
  BY DEF LoopInv, Seated, NoCapacityRace
<1> QED
  BY <1>1, LoopCorrect, PTL

\* A request fails fast only when its paths are closed.
THEOREM PathsExhausted == LockMaySuspend = FALSE => (Spec => []NoPathLeft)
<1> SUFFICES ASSUME LockMaySuspend = FALSE
             PROVE  Spec => []NoPathLeft
  OBVIOUS
<1>1. LoopInv => NoPathLeft
  BY NothingLeft DEF LoopInv, Sound, NoPathLeft, FailingFast
<1> QED
  BY <1>1, LoopCorrect, PTL

\* The tier the client asked for, or its prompt shows, steers the request.
THEOREM TierObeyed == LockMaySuspend = FALSE => (Spec => []TierSteers)
<1> SUFFICES ASSUME LockMaySuspend = FALSE
             PROVE  Spec => []TierSteers
  OBVIOUS
<1>1. ASSUME GatewayInv, LoopInv, NEW r \in Req, pc[r] = "routing", plan[r] # <<>>
      PROVE  LET ask == Asks[quote[r].ask]
                 auto == ask.tier = "auto"
             IN  /\ ask.tier = "QUALITY" \/ (auto /\ ask.prompt.quality)
                       => Path(r) = "REMOTE" \/ ~RemoteOpen(r)
                 /\ ask.tier = "FAST" \/ (auto /\ ask.prompt.fast /\ ~ask.prompt.quality)
                       => Path(r) # "REMOTE" \/ QM!IsAtCapacity \/ quote[r].local > quote[r].sla
  <2> DEFINE ask == Asks[quote[r].ask]
  <2>1. Fresh(r) /\ Sound(r) /\ plan[r] \in Plans
    BY <1>1 DEF LoopInv, GatewayInv, Typed
  <2>2. Path(r) = "REMOTE" <=> OffersRemote(plan[r])
    BY <1>1, <2>1, PlanRest DEF Path
  <2>3. quote[r].tier = CC!TierOf(ask)
    BY <2>1 DEF Fresh
  <2> HIDE DEF ask
  <2>4. ASSUME ask.tier = "QUALITY" \/ (ask.tier = "auto" /\ ask.prompt.quality)
        PROVE  quote[r].tier = "QUALITY"
    BY <2>3, <2>4 DEF CC!TierOf, CC!Classify
  <2>5. ASSUME ask.tier = "FAST" \/ (ask.tier = "auto" /\ ask.prompt.fast /\ ~ask.prompt.quality)
        PROVE  quote[r].tier # "QUALITY"
    BY <2>3, <2>5 DEF CC!TierOf, CC!Classify
  <2>6. ask.tier = "QUALITY" \/ (ask.tier = "auto" /\ ask.prompt.quality)
            => Path(r) = "REMOTE" \/ ~RemoteOpen(r)
    BY <2>1, <2>2, <2>4 DEF Sound
  <2>7. ask.tier = "FAST" \/ (ask.tier = "auto" /\ ask.prompt.fast /\ ~ask.prompt.quality)
            => Path(r) # "REMOTE" \/ QM!IsAtCapacity \/ quote[r].local > quote[r].sla
    BY <2>1, <2>2, <2>5 DEF Sound, Fresh
  <2> QED
    BY <2>6, <2>7, Zenon DEF ask
<1>2. GatewayInv /\ LoopInv => TierSteers
  BY <1>1 DEF TierSteers
<1> QED
  BY <1>2, GatewayCorrect, LoopCorrect, PTL
=============================================================================
