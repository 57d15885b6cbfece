------------------------------- MODULE Gateway -------------------------------
(***************************************************************************)
(* app/main.py, POST /inference: requests 1..N, each an asyncio task, that  *)
(* route and reserve (decision_agent.py), run a backend without any lock,   *)
(* settle (budget_manager.py), leave their local slot (queue_monitor.py)    *)
(* and record a latency (latency_tracker.py, abstracted to the estimates it *)
(* can give).  The budget manager's reaper and clock run beside them.       *)
(*                                                                          *)
(* asyncio switches tasks only where an await really suspends.  Backend     *)
(* calls do; taking a lock that nobody holds does not, and no lock here is  *)
(* ever held across a suspension.  With LockMaySuspend = FALSE a request    *)
(* keeps the event loop (running) from one backend call to the next, which  *)
(* is what CPython does.  With LockMaySuspend = TRUE every await of a lock  *)
(* may switch tasks: more interleavings, so what holds there does not lean  *)
(* on that detail.                                                          *)
(***************************************************************************)
EXTENDS Integers, Sequences, FiniteSets, Sums

CONSTANTS
    N, MAX_REMOTE_BUDGET, MAX_CUMULATIVE_LATENCY_MS, RESERVATION_TTL_SECONDS,
    REAPER_INTERVAL_SECONDS, RESERVE_EPS, SETTLE_EPS,   \* see BudgetManager
    LOCAL_QUEUE_CAPACITY, COST_PER_REMOTE_REQUEST, TOKEN_THRESHOLD,
    Asks,               \* what a client may ask: a sequence of tiers and prompts
    Slas,               \* latency_budget_ms a client may send
    Estimates,          \* values LatencyTracker.get_estimate may return
    InitEstimate,       \* the estimate of each backend at start-up
    RemoteResults,      \* <<cost, latency>> a remote call may report
    LocalLatencies,     \* latency a local call may report
    LockMaySuspend,
    MayCancel           \* tasks may be cancelled

CC == INSTANCE ComplexityClassifier

Req == 1..N
Backends == {"local", "remote"}
NoOne == 0

ASSUME GatewayAssumption ==
    /\ N \in Nat
    /\ MAX_REMOTE_BUDGET \in Nat \ {0}
    /\ MAX_CUMULATIVE_LATENCY_MS \in Nat
    /\ RESERVATION_TTL_SECONDS \in Nat
    /\ REAPER_INTERVAL_SECONDS \in Nat \ {0}
    /\ RESERVE_EPS \in Nat
    /\ SETTLE_EPS \in Nat
    /\ LOCAL_QUEUE_CAPACITY \in Nat \ {0}
    /\ COST_PER_REMOTE_REQUEST \in Nat \ {0}
    /\ TOKEN_THRESHOLD \in Nat
    /\ Asks \in Seq(CC!Ask)
    /\ Slas \subseteq Nat
    /\ Estimates \subseteq Nat \ {0}
    /\ InitEstimate \in [Backends -> Estimates]
    /\ RemoteResults \subseteq Nat \X Nat
    /\ LocalLatencies \subseteq Nat
    /\ \A l \in LocalLatencies : \E e \in Estimates : e >= l
    /\ \A x \in RemoteResults : \E e \in Estimates : e >= x[2]
    /\ LockMaySuspend \in BOOLEAN
    /\ MayCancel \in BOOLEAN

VARIABLES
    state, active, cost, latency, age, reserved, reservedLat, spent, usedLat,
    reaperOn, sleep,                    \* the budget manager
    activeCount, semaphore, holders,    \* the queue monitor
    est,        \* [Backends -> Estimates], what get_estimate returns
    pc,         \* where each request is
    quote,      \* what route() works on: the request's tier and SLA, and its reads
    plan,       \* the paths left to try
    route,      \* the decision
    result,     \* <<actual_cost, actual_latency_ms>>
    goal,       \* where to go after cleaning up or leaving the slot
    status,     \* HTTP status of the answer, 0 while there is none
    running,    \* the request that keeps the event loop, or NoOne
    billed      \* what the remote provider charged for the calls it answered

BM == INSTANCE BudgetManager WITH Offers <- {}, Actuals <- {}
QM == INSTANCE QueueMonitor WITH Callers <- Req
DA == INSTANCE DecisionAgent

bmVars == <<state, active, cost, latency, age, reserved, reservedLat, spent,
            usedLat, reaperOn, sleep>>
qmVars == <<activeCount, semaphore, holders>>
reqVars == <<quote, plan, route, result, goal, status>>
vars == <<bmVars, qmVars, est, pc, reqVars, running, billed>>

Stages == {"new", "routing", "admitted", "remote_io", "local_io", "settle",
           "leave", "cleanup", "fallback", "fallback_io", "record", "done",
           "cancelled"}

\* Where a request is between its admission and its answer.
InFlight == Stages \ {"new", "routing", "done", "cancelled"}

\* Where a request waits for a backend, the only real suspension points.
IOStages == {"remote_io", "local_io", "fallback_io"}

TypeOK ==
    /\ BM!TypeOK
    /\ activeCount \in 0..LOCAL_QUEUE_CAPACITY
    /\ semaphore \in 0..LOCAL_QUEUE_CAPACITY
    /\ holders \subseteq Req
    /\ est \in [Backends -> Estimates]
    /\ pc \in [Req -> Stages]
    /\ \A r \in Req : plan[r] \in Seq(DA!Routes) /\ Len(plan[r]) <= 2
    /\ route \in [Req -> DA!Routes \union {"none"}]
    /\ status \in [Req -> {0, 200, 500, 503}]
    /\ running \in Req \union {NoOne}
    /\ billed \in Nat

Init ==
    /\ BM!Init
    /\ QM!Init
    /\ est = InitEstimate
    /\ pc = [r \in Req |-> "new"]
    /\ quote = [r \in Req |-> DA!NoQuote]
    /\ plan = [r \in Req |-> <<>>]
    /\ route = [r \in Req |-> "none"]
    /\ result = [r \in Req |-> <<0, 0>>]
    /\ goal = [r \in Req |-> "none"]
    /\ status = [r \in Req |-> 0]
    /\ running = NoOne
    /\ billed = 0

-----------------------------------------------------------------------------
\* Control

\* Request r may take a step at stage s.
At(r, s) ==
    /\ pc[r] = s
    /\ running \in {NoOne, r}

\* r goes on to stage s, keeping the loop unless s waits for a backend.
GoTo(r, s) ==
    /\ pc' = [pc EXCEPT ![r] = s]
    /\ running' = IF LockMaySuspend \/ s \in IOStages THEN NoOne ELSE r

\* r is answered.
Answer(r, code) ==
    /\ pc' = [pc EXCEPT ![r] = "done"]
    /\ status' = [status EXCEPT ![r] = code]
    /\ running' = NoOne

\* r goes to its goal: an HTTP status, or another stage.
ToGoal(r, g) ==
    CASE g = "500"       -> Answer(r, 500)
      [] g = "503"       -> Answer(r, 503)
      [] g = "cancelled" -> /\ pc' = [pc EXCEPT ![r] = "cancelled"]
                            /\ running' = NoOne
                            /\ UNCHANGED status
      [] OTHER           -> GoTo(r, g) /\ UNCHANGED status

-----------------------------------------------------------------------------
\* Phase 1: route and reserve

\* The request arrives and route() makes its advisory reads.
Arrive(r, ask, sla) ==
    LET q == DA!Quote(ask, CC!TierOf(Asks[ask]), sla, activeCount, QM!IsAtCapacity, est["local"], est["remote"]) IN
    /\ At(r, "new")
    /\ quote' = [quote EXCEPT ![r] = q]
    /\ plan' = [plan EXCEPT ![r] = DA!Plan(q)]
    /\ GoTo(r, "routing")
    /\ UNCHANGED <<bmVars, qmVars, est, route, result, goal, status, billed>>

Path(r) == Head(plan[r])
PathCost(r) == DA!AskedCost(Path(r))
PathLatency(r) == DA!AskedLatency(Path(r), quote[r], est["local"])

\* Mutant: an await that suspends between the reservation and the backend call.
Admit_Suspends(r) ==
    /\ At(r, "routing")
    /\ plan[r] # <<>>
    /\ BM!Reserve(r, PathCost(r), PathLatency(r))
    /\ route' = [route EXCEPT ![r] = Path(r)]
    /\ plan' = [plan EXCEPT ![r] = <<>>]
    /\ quote' = [quote EXCEPT ![r] = DA!NoQuote]
    /\ pc' = [pc EXCEPT ![r] = "admitted"]
    /\ running' = NoOne
    /\ UNCHANGED <<qmVars, est, result, goal, status, billed>>

\* try_reserve grants the path: it is the decision.
Admit(r) ==
    /\ At(r, "routing")
    /\ plan[r] # <<>>
    /\ BM!Reserve(r, PathCost(r), PathLatency(r))
    /\ route' = [route EXCEPT ![r] = Path(r)]
    /\ plan' = [plan EXCEPT ![r] = <<>>]
    /\ quote' = [quote EXCEPT ![r] = DA!NoQuote]
    /\ GoTo(r, "admitted")
    /\ UNCHANGED <<qmVars, est, result, goal, status, billed>>

\* try_reserve returns None: the next path.
Refuse(r) ==
    /\ At(r, "routing")
    /\ plan[r] # <<>>
    /\ ~BM!HasRoom(PathCost(r), PathLatency(r))
    /\ plan' = [plan EXCEPT ![r] = Tail(plan[r])]
    /\ GoTo(r, "routing")
    /\ UNCHANGED <<bmVars, qmVars, est, quote, route, result, goal, status, billed>>

\* No path is left: 503.
FailFast(r) ==
    /\ At(r, "routing")
    /\ plan[r] = <<>>
    /\ route' = [route EXCEPT ![r] = "FAIL_FAST"]
    /\ quote' = [quote EXCEPT ![r] = DA!NoQuote]
    /\ Answer(r, 503)
    /\ UNCHANGED <<bmVars, qmVars, est, plan, result, goal, billed>>

-----------------------------------------------------------------------------
\* Backend I/O

StartRemote(r) ==
    /\ At(r, "admitted")
    /\ route[r] = "REMOTE"
    /\ GoTo(r, "remote_io")
    /\ UNCHANGED <<bmVars, qmVars, est, reqVars, billed>>

StartLocal(r) ==
    /\ At(r, "admitted")
    /\ route[r] \in {"LOCAL", "QUEUE_LOCAL"}
    /\ QM!Acquire(r)
    /\ GoTo(r, "local_io")
    /\ UNCHANGED <<bmVars, est, reqVars, billed>>

\* Mutant: the except branch forgets the reservation.
CleanUpThen_NoRollback(r, g) ==
    /\ goal' = [goal EXCEPT ![r] = g]
    /\ ToGoal(r, g)

\* An except branch that rolls back a reservation still pending, then goes to g.
CleanUpThen(r, g) ==
    /\ goal' = [goal EXCEPT ![r] = g]
    /\ IF state[r] = "pending"
         THEN GoTo(r, "cleanup") /\ UNCHANGED status
         ELSE ToGoal(r, g)

\* slot() raises RuntimeError: the slot free at routing time is taken by now.
SlotRefused(r) ==
    /\ At(r, "admitted")
    /\ route[r] \in {"LOCAL", "QUEUE_LOCAL"}
    /\ QM!IsAtCapacity
    /\ CleanUpThen(r, "503")
    /\ UNCHANGED <<bmVars, qmVars, est, quote, plan, route, result, billed>>

\* The backend answers; the remote provider charges for its answer.
RemoteReturns(r, x) ==
    /\ At(r, "remote_io")
    /\ result' = [result EXCEPT ![r] = x]
    /\ billed' = billed + x[1]
    /\ GoTo(r, "settle")
    /\ UNCHANGED <<bmVars, qmVars, est, quote, plan, route, goal, status>>

LocalReturns(r, l) ==
    /\ At(r, "local_io")
    /\ result' = [result EXCEPT ![r] = <<0, l>>]
    /\ GoTo(r, "settle")
    /\ UNCHANGED <<bmVars, qmVars, est, quote, plan, route, goal, status, billed>>

\* RemoteInferenceError.
RemoteFails(r) ==
    /\ At(r, "remote_io")
    /\ CleanUpThen(r, "fallback")
    /\ UNCHANGED <<bmVars, qmVars, est, quote, plan, route, result, billed>>

-----------------------------------------------------------------------------
\* Phase 2: settle

\* Mutant: a slot without try/finally.
LeaveFor_NoFinally(r, g) == ToGoal(r, g) /\ UNCHANGED goal

\* After settling, through the slot's finally if r is in one, to g.
LeaveFor(r, g) ==
    IF r \in holders
      THEN GoTo(r, "leave") /\ goal' = [goal EXCEPT ![r] = g] /\ UNCHANGED status
      ELSE ToGoal(r, g) /\ UNCHANGED goal

Commit(r) ==
    /\ At(r, "settle")
    /\ BM!CommitOk(r, result[r][1], result[r][2])
    /\ LeaveFor(r, "record")
    /\ UNCHANGED <<qmVars, est, quote, plan, route, result, billed>>

\* commit() raised Actual{Cost,Latency}ExceededReservationError.
CommitExceeded(r) ==
    /\ At(r, "settle")
    /\ BM!CommitRefused(r, result[r][1], result[r][2])
    /\ LeaveFor(r, "500")
    /\ UNCHANGED <<qmVars, est, quote, plan, route, result, billed>>

\* Mutant: InvalidReservationStateError is swallowed and the answer is sent.
CommitExpired_Swallowed(r) ==
    /\ At(r, "settle")
    /\ r \notin active
    /\ LeaveFor(r, "record")
    /\ UNCHANGED <<bmVars, qmVars, est, quote, plan, route, result, billed>>

\* commit() raised InvalidReservationStateError: the reaper was faster.  The
\* catch-all finds nothing pending to roll back.
CommitExpired(r) ==
    /\ At(r, "settle")
    /\ r \notin active
    /\ LeaveFor(r, "500")
    /\ UNCHANGED <<bmVars, qmVars, est, quote, plan, route, result, billed>>

\* The finally of slot().
Leave(r) ==
    /\ At(r, "leave")
    /\ QM!Release(r)
    /\ ToGoal(r, goal[r])
    /\ UNCHANGED <<bmVars, est, quote, plan, route, result, goal, billed>>

\* rollback() of an except branch.
CleanUp(r) ==
    /\ At(r, "cleanup")
    /\ BM!Rollback(r)
    /\ ToGoal(r, goal[r])
    /\ UNCHANGED <<qmVars, est, quote, plan, route, result, goal, billed>>

\* rollback() raised InvalidReservationStateError inside the except branch: the
\* reaper came between the state test and the lock.  The framework answers 500.
CleanUpExpired(r) ==
    /\ At(r, "cleanup")
    /\ r \notin active
    /\ Answer(r, 500)
    /\ UNCHANGED <<bmVars, qmVars, est, quote, plan, route, result, goal, billed>>

-----------------------------------------------------------------------------
\* Local fallback after a remote failure: no reservation, nothing committed.

\* Mutant: a loop that waits for a slot without ever yielding.
FallbackRefused_Spins(r) ==
    /\ At(r, "fallback")
    /\ QM!IsAtCapacity
    /\ GoTo(r, "fallback")
    /\ UNCHANGED <<bmVars, qmVars, est, reqVars, billed>>

\* At capacity, at the test or in slot(), the answer is 503 alike.
FallbackRefused(r) ==
    /\ At(r, "fallback")
    /\ QM!IsAtCapacity
    /\ Answer(r, 503)
    /\ UNCHANGED <<bmVars, qmVars, est, quote, plan, route, result, goal, billed>>

FallbackStart(r) ==
    /\ At(r, "fallback")
    /\ QM!Acquire(r)
    /\ GoTo(r, "fallback_io")
    /\ UNCHANGED <<bmVars, est, reqVars, billed>>

FallbackReturns(r, l) ==
    /\ At(r, "fallback_io")
    /\ result' = [result EXCEPT ![r] = <<0, l>>]
    /\ route' = [route EXCEPT ![r] = "QUEUE_LOCAL"]
    /\ goal' = [goal EXCEPT ![r] = "record"]
    /\ GoTo(r, "leave")
    /\ UNCHANGED <<bmVars, qmVars, est, quote, plan, status, billed>>

-----------------------------------------------------------------------------
\* lt.record() and the 200 answer.  get_estimate is the larger of the moving
\* average and the window's maximum, and the window holds the new sample.
Record(r) ==
    LET b == IF route[r] = "REMOTE" THEN "remote" ELSE "local" IN
    /\ At(r, "record")
    /\ \E e \in Estimates :
          /\ e >= result[r][2]
          /\ est' = [est EXCEPT ![b] = e]
    /\ Answer(r, 200)
    /\ UNCHANGED <<bmVars, qmVars, quote, plan, route, result, goal, billed>>

\* CancelledError at a backend call.  It is no Exception: no branch of the
\* handler catches it, only the slot's finally runs.
Cancel(r) ==
    /\ MayCancel
    /\ \E s \in IOStages : At(r, s)
    /\ LeaveFor(r, "cancelled")
    /\ UNCHANGED <<bmVars, qmVars, est, quote, plan, route, result, billed>>

\* The reaper and the clock, when no request keeps the loop.
Background ==
    /\ running = NoOne
    /\ BM!Reap \/ BM!Tick
    /\ UNCHANGED <<qmVars, est, pc, reqVars, running, billed>>

-----------------------------------------------------------------------------
\* Requests are numbered in the order they arrive.
Arrival(r) ==
    /\ \A q \in Req : q < r => pc[q] # "new"
    /\ \E ask \in DOMAIN Asks, sla \in Slas : Arrive(r, ask, sla)

Routing(r) == Admit(r) \/ Refuse(r) \/ FailFast(r)

Starting(r) == StartRemote(r) \/ StartLocal(r) \/ SlotRefused(r)

BackendReturns(r) ==
    \/ \E x \in RemoteResults : RemoteReturns(r, x)
    \/ \E l \in LocalLatencies : LocalReturns(r, l)
    \/ RemoteFails(r)
    \/ \E l \in LocalLatencies : FallbackReturns(r, l)

Settling(r) ==
    \/ Commit(r) \/ CommitExceeded(r) \/ CommitExpired(r)
    \/ CleanUp(r) \/ CleanUpExpired(r)
    \/ FallbackRefused(r) \/ FallbackStart(r)
    \/ Leave(r)
    \/ Record(r)

\* The steps of a request that asyncio and the backends' timeouts guarantee.
Advance(r) == Routing(r) \/ Starting(r) \/ BackendReturns(r) \/ Settling(r)

Next ==
    \/ \E r \in Req : Arrival(r) \/ Advance(r) \/ Cancel(r)
    \/ Background

Spec == Init /\ [][Next]_vars

\* The loop runs every ready task, every backend call ends (they all carry a
\* timeout), time passes and a due reaper runs.  Clients need not come.
FairSpec ==
    /\ Spec
    /\ \A r \in Req : WF_vars(Advance(r))
    /\ WF_vars(Background)

-----------------------------------------------------------------------------
\* Properties

\* The queue's counter and semaphore match the requests inside a slot, and
\* those are exactly the requests at a stage that runs inside one, on every
\* path out of it: answers, refused or expired commits, and cancellation.
SlotsMatch ==
    /\ QM!SlotsAgree
    /\ \A r \in Req :
          /\ pc[r] \in {"local_io", "fallback_io", "leave"} => r \in holders
          /\ r \in holders =>
                \/ pc[r] \in {"local_io", "fallback_io", "leave"}
                \/ pc[r] = "settle" /\ route[r] # "REMOTE"

\* A live reservation belongs to a request in flight, or to a cancelled one:
\* no answered request leaves money or latency locked.
NoOrphan == \A r \in active : pc[r] \in InFlight \union {"cancelled"}

\* A request is charged if and only if its client gets its answer: an error or
\* a cancellation is never charged, and a 200 is always backed by a commit,
\* except the local fallback, which is free.
ChargedIffAnswered ==
    \A r \in Req :
        /\ state[r] = "committed" =>
              pc[r] \in {"leave", "record"} \/ status[r] = 200
        /\ status[r] = 200 =>
              \/ state[r] = "committed"
              \/ state[r] = "rolled_back" /\ route[r] = "QUEUE_LOCAL" /\ result[r][1] = 0

\* Whenever no commit is still on its way to its client, the costs reported in
\* the 200 answers add up to the recorded spend, and their latencies to the
\* recorded latency, those of the local fallback apart: it runs unreserved and
\* its latency is in no ledger.
AnswersMatchLedger ==
    LET Answers == {r \in Req : status[r] = 200}
        Recorded == {r \in Answers : state[r] = "committed"}
    IN  (\A r \in Req : pc[r] \notin {"leave", "record"}) =>
            /\ spent = Total(Masked([r \in Req |-> result[r][1]], Answers), N)
            /\ usedLat = Total(Masked([r \in Req |-> result[r][2]], Recorded), N)

\* The ledger's own invariants, under the callers it really has.
LedgerSafe == BM!StateAgrees /\ BM!LedgerBalanced /\ BM!BudgetSafe /\ BM!LatencySafe

\* Because nothing suspends between the capacity test of route() and slot(), a
\* request admitted to local always finds its slot: the RuntimeError branch of
\* the handler guards against a race asyncio does not have.
NoCapacityRace ==
    \A r \in Req :
        pc[r] = "admitted" /\ route[r] \in {"LOCAL", "QUEUE_LOCAL"} => ~QM!IsAtCapacity

\* A path is open: the budget manager would grant it and its backend can take
\* the request.
RemoteOpen(r) ==
    /\ quote[r].remote <= quote[r].sla
    /\ BM!HasRoom(COST_PER_REMOTE_REQUEST, quote[r].remote)
LocalOpen(r) ==
    /\ ~QM!IsAtCapacity
    /\ BM!HasRoom(0, quote[r].local)

\* r is about to be answered FAIL_FAST by route().
FailingFast(r) == pc[r] = "routing" /\ plan[r] = <<>>

\* A QUALITY request fails fast only when every path is closed, a FAST one only
\* when at least the local path is.
NoPathLeft ==
    \A r \in Req : FailingFast(r) =>
        ~LocalOpen(r) /\ (quote[r].tier = "QUALITY" => ~RemoteOpen(r))

\* The tier steers the request: one that asks for quality, itself or by a signal
\* in its prompt, is offered local only when remote is closed, and one with a
\* fast signal alone is offered remote only when local would miss its SLA.
TierSteers ==
    \A r \in Req : pc[r] = "routing" /\ plan[r] # <<>> =>
        LET ask == Asks[quote[r].ask]
            auto == ask.tier = "auto"
        IN  /\ ask.tier = "QUALITY" \/ (auto /\ ask.prompt.quality)
                  => Path(r) = "REMOTE" \/ ~RemoteOpen(r)
            /\ ask.tier = "FAST" \/ (auto /\ ask.prompt.fast /\ ~ask.prompt.quality)
                  => Path(r) # "REMOTE" \/ QM!IsAtCapacity \/ quote[r].local > quote[r].sla

\* Every request that came in is answered or cancelled.
Answered == \A r \in Req : (pc[r] # "new") ~> (pc[r] \in {"done", "cancelled"})

\* What each request owes and is owed, in the terms of Contract.
Money(st) ==
    CASE st = "unborn"      -> "none"
      [] st = "pending"     -> "held"
      [] st = "committed"   -> "charged"
      [] st = "rolled_back" -> "returned"

Reply(stage, code) ==
    IF stage = "cancelled" THEN "gone"
    ELSE CASE code = 0            -> "none"
           [] code = 200          -> "answer"
           [] code \in {500, 503} -> "error"

Owed == INSTANCE Contract WITH
    Clients <- Req,
    money <- [r \in Req |-> Money(state[r])],
    reply <- [r \in Req |-> Reply(pc[r], status[r])],
    charge <- [r \in Req |-> IF state[r] = "committed" THEN result[r][1] ELSE 0],
    ledger <- spent

\* Routes, slots, retries, fallbacks, the reaper and cancellation together keep
\* the contract with every client.
ImplementsContract == Owed!Spec

-----------------------------------------------------------------------------
\* What the documentation says and the code does not do

\* main.py: "If ANY exception - including asyncio.CancelledError - occurs after
\* a reservation is made, rollback() is called before propagating."
CancelRollsBack == \A r \in Req : pc[r] = "cancelled" => r \notin active

\* decision_agent.py: FAIL_FAST means "all paths exhausted".
FailFastMeansExhausted ==
    \A r \in Req : FailingFast(r) => ~RemoteOpen(r) /\ ~LocalOpen(r)

\* config.py: "Hard cap on cumulative remote spend across the lifetime of the
\* process."  Counted at the provider, not in the ledger.
ProviderBillCapped == billed <= MAX_REMOTE_BUDGET
=============================================================================
