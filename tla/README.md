# A formal model of the AI-Routing gateway

The gateway (`src/app`) answers `POST /inference` from a free, slow, bounded
local model or from a paid remote one. One Python process runs every request as
an asyncio task. Two caps must hold whatever the tasks do: money spent on the
remote backend, and the sum of the latencies served. This directory holds TLA+
modules translated from that code, TLC configurations that check them on small
instances, and TLAPS proofs for all instances.

## 1. Inventory

| Component (source) | State | Operations | Correct when |
|---|---|---|---|
| Budget manager (`budget_manager.py`) | two running counters per cap (reserved, used), a dictionary of live reservations, each reservation's own state and age, a reaper task | `try_reserve`, `commit` (recorded, refused, invalid), `rollback`, reaper scan, `start_reaper`/`stop_reaper` | counters equal what live reservations hold; caps hold; each reservation settles once; abandoned ones come back |
| Queue monitor (`queue_monitor.py`) | a counter read without lock, a semaphore | `acquire`, `release`, `slot` | counter, semaphore and the tasks inside a slot agree; no wait for a permit while the lock is held |
| Decision agent (`decision_agent.py`) | none | `route` with a list of paths for each tier | a request fails fast only when no path is open |
| Inference handler (`main.py`) | the local variables of each task | route, execute, settle, fall back, record, answer; except branches; cancellation | every way out settles the reservation and leaves the slot; charged if and only if answered |
| Backends (`backends.py`) | none between calls | local call (Ollama, then mock), remote call (retries, mock, injected failure) | beside its I/O operations a call waits for a bounded time; local never fails; the reported latency is what the caller waited |
| Latency tracker (`latency_tracker.py`) | moving average and sliding window per backend | `record`, `get_estimate`, `reset` | exact average; spikes are seen at once and forgotten after the window |
| Application state (`main.py`: `lifespan`, `run_start`) | the managers now in `app.state`, their reaper, `route_counts` | start-up, replacement of all managers at `run_start`, shutdown | a request settles with the managers it began with; exactly the current managers have a reaper |
| Event bus and SSE (`event_bus.py`, `main.py`) | a queue of at most 64 events per client; `route_counts` | subscribe, publish, drop oldest, unsubscribe; the stream's loop | clients see events in order and lose only the oldest; a queue lives as long as its stream; each decision is counted once |
| Observability (`observability.py`) | a ring of lock events | log calls, some of which publish | - |
| Classifier (`complexity_classifier.py`) | none | `classify` | the tier steers the choice of a path as documented |
| Load generator (`load_generator.py`) | the progress of one run, the limits it judges by, its verdict | health, reset, summary, burst, gather, metrics, verdict | PASS and FAIL mean what they say; a run ends |
| Status, summary and trace endpoints, dashboard, launcher, tests | - | - | - |

**Interactions.** The handler calls the decision agent, which reads the queue
monitor and the latency tracker *without a lock* and then asks the budget
manager for a reservation, path after path. The handler runs a backend with no
lock held, commits or rolls back through the reservation object, and leaves the
slot in the `finally` of `slot()`. The reaper, a task of its own, may settle a
reservation under the handler's feet. Every method of a manager runs under that
manager's `asyncio.Lock` without suspending inside it, so it is atomic; for the
queue monitor, which awaits a semaphore under its lock, `QueueLock` shows that.
`POST /run_start` swaps all managers while requests run; a handler keeps the
ones it read at its entry. The handler's log calls publish to the event bus.

**What is hard here.** A reservation is settled by two parties (owner and
reaper) that race. State is checked (`reservation.state`, `is_at_capacity`)
before an await and used after it. Counters are cached next to the dictionary
they summarise and are decremented in five places, three of which clamp at zero
and two of which do not. Float tolerances differ between admission (1e-12) and
settlement (1e-9). Cancellation goes past every `except` branch. Timeouts of
calls and reservations are configured apart. Managers are replaced under
requests in flight. A stream's clean-up depends on where its generator is
suspended when the client goes. `PROJECT.json` lists these as
hazards, at their lines.

## 2. Modules

| Module | Models | Its state and actions |
|---|---|---|
| `Sums` | sums over the reservations 1..n, Python's `max(0.0, x)`, powers | operators only |
| `BudgetManager` | `budget_manager.py` | `state` is each `Reservation._state`, `active` the dictionary's keys, `reserved`, `reservedLat`, `spent`, `usedLat` the four counters; `age`, `sleep` and `reaperOn` are the clock. `Reserve`, `CommitOk`, `CommitRefused`, `Rollback`, `Reap`, `StopReaper`, `Tick` |
| `Escrow` | what the budget manager promises | holds over two pools: `Hold`, `Pay`, `Void`; no counters, clock or reaper |
| `QueueMonitor` | `queue_monitor.py` | `activeCount`, `semaphore`, and the history variable `holders`; `Acquire`, `Release` |
| `QueueLock` | `queue_monitor.py`, await by await | `pc` is where each task is in `acquire`, the slot or `release`, `lock` who holds `_lock`; `Enter`, `TakeLock`, `Test`, `TakePermit`, `Finish`, `Give`, `Cancel`. Refines `QueueMonitor` |
| `ComplexityClassifier` | `complexity_classifier.py` | operators: the tier of a prompt and of a request |
| `DecisionAgent` | `decision_agent.py` | operators: the list of paths a request tries and what each asks for |
| `Gateway` | the handler of `main.py`, composed of `BudgetManager`, `QueueMonitor`, `DecisionAgent` and `ComplexityClassifier` by `INSTANCE` | `pc` is where a request is in the handler, `goal` where an except branch or a `finally` leads, `running` which task keeps the event loop; one action per piece of the handler between two awaits |
| `Contract` | what `POST /inference` owes a client | money held, charged or returned, and a reply: `Hold`, `Charge`, `Return`, `Answer`, `Fail`, `Abandon`. `Gateway` refines it |
| `AppState` | `lifespan`, `run_start` and `/metrics` of `main.py` | per generation of managers `spent`, `reserved`, `usedLat`, `reservedLat`, `slots` and whether its reaper lives; per request `stage`, `home` (its generation), `res`; admission, `Finish`, `RemoteFails`, `Cancel`, `Expire`, `RunStart`, `Shutdown` |
| `LoadGenerator` | `run_demo` and `evaluate_verdict`, against `AppState` | `step` of the client, the `limits` it judges by, `lost` requests, `verdict`; one action per call it makes and one where its failure is handled apart |
| `EventBus` | `event_bus.py`, the publishing calls of `observability.py`, `GET /events`, `route_counts` | `log` of everything published, `queues`, `subscribers`, `stream` (where each generator is), `got`, `counts`; publishing, `Connect`, `Disconnect`, the generator's `Turn`, `CancelStream`. Refines `SharedLog` |
| `SharedLog` | what the event bus promises | one log of which the newest events are kept and a cursor per reader: `Publish`, `Join`, `Leave`, `Read` |
| `Backends` | one call of `backends.py` against a clock | `phase`, `attempt`, `ops` (the I/O operations so far: connecting, writing, each read), `elapsed`, and the code's own `started` and `reported`. httpx applies its timeout to an operation, not to the exchange: `GoesOn` is an operation that does not end it |
| `LatencyTracker` | `latency_tracker.py` | `ema` as an exact fraction, `windows`, and `history`, the records since the last reset; `Record`, `Reset` |
| `MC*` | values for TLC | - |
| `SumProofs`, `BudgetManagerProofs`, `QueueLockProofs`, `GatewayProofs`, `LoadGeneratorProofs`, `EventBusProofs`, `BackendsProofs`, `LatencyTrackerProofs` | proofs | - |

Operators named `Definition_Word` are mutants: `Definition` with a plausible bug
in it. Replacing a definition by its mutant makes the property it is listed with
in `PROJECT.json` fail, which shows that the property depends on that code. No
specification uses them.

**Abstractions.** Money and latency are integers; the unit is small enough for
the two tolerances to be the constants `RESERVE_EPS` and `SETTLE_EPS`. Rounding
inside float sums is not modelled. Reservation ids are 1..N in the order of
creation. Seconds are the clock's unit. Tokens, prices, log lines and response
texts are left out. A prompt is what the classifier looks at: whether a quality
and whether a fast pattern matches, and its number of words. In `Gateway` the
latency tracker is reduced to what `LatencyTracker` checks as `SpikeWindow`:
after a record the estimate is at least the new sample. `Gateway` numbers
requests by arrival. `AppState` keeps of one generation what crosses
generations: the SLA and the clock are choices there (routing may refuse, a
reservation may expire), every reservation holds the same latency, a commit takes
any actual cost up to the reserved one and any latency within the cap (the
tolerances are left out), and the detail is in `BudgetManager` and `Gateway`.
Starlette, which drives the streams of `EventBus`, is external: it
may cancel the stream of a client that has gone, and need not.

**Scheduling.** asyncio switches tasks only where an await suspends; an
uncontended lock does not. `LockMaySuspend = FALSE` is that exact behaviour (a
request keeps the loop from one backend call to the next). `LockMaySuspend =
TRUE` allows a switch at every lock as well, a superset; the safety run uses it,
so its results do not rest on that detail of CPython. Cancellation is delivered
where a task is suspended, at a backend call.

## 3. Runs

| Run | Checks | Bounds |
|---|---|---|
| `budget` | all safety properties of the ledger, that it implements `Escrow`, and that funds come back (`FundsComeBack`) | 3 reservations; costs and caps such that the third reservation is blocked once by money and once by latency, actual costs below, at and past the tolerance; TTL 1, interval 2 |
| `gateway` | slots, reservations, charges and answers agree on every path, with cancellation, expiry and a switch at every await; the handler implements `Contract` | 3 requests, 1 local slot, room for one remote call and two small latencies; TTL 0 so that expiry hits at every stage; an SLA both backends meet (the tight one is in `gateway_loop`) |
| `gateway_loop` | what exact asyncio scheduling gives: `NoCapacityRace`, which paths a FAIL_FAST has ruled out (`NoPathLeft`), how the tier steers the choice (`TierSteers`), and that every request is `Answered` | 3 requests, a tight and a wide SLA, seven asks: the client's tier against the prompt's signals, both signals, each alone, none in a short and in a long prompt |
| `slots` | acquire never waits for a permit under the lock, so no release waits behind it and no cancellation loses a slot; nobody is stuck; the atomic `QueueMonitor` is a sound view | 4 tasks, 2 slots: both slots taken, one task at the test and one behind the lock |
| `verdict` | a reset does not mix generations, one reaper runs, a PASS is honest, a FAIL has a cause, what an abandoned request holds comes back, a run ends | a burst of 2 requests and a foreign one, one reset (by the load generator or by anyone else), 1 slot, budget for one remote call, latency for two reservations or one answer, hard-coded limits below the server's |
| `events` | order and loss of a stream, that the private queues act as cursors into one log (`SharedLog`), when a queue is on the bus, what the counters count, that a client who left is unsubscribed | 2 clients, queues of 2, 3 events: a queue overflows, and one client lags while the other does not |
| `backends` | what a call waits for, how often it tries, how it ends and the latency it reports | the production timeouts, every duration in seconds, up to 3 operations of a call that do not end an exchange: all in one attempt or spread over the attempts |
| `latency` | exact average; a spike is seen at once and forgotten after the window | 4 records per backend, window 2, alpha 1/4 (the default) |

Three requests are the least in which one holds the slot, one holds the budget
and one is refused by both. `verdict` checks all of `evaluate_verdict` across
generations and clients.

`verdict` and `events` run with `CHECK_DEADLOCK FALSE`: a server that has shut
down with its client at the end, and a bus whose clients are gone and whose
bound on events is reached, have nothing left to do.

**Fairness.** `budget` assumes that time passes and that asyncio runs a
timer that is due, nothing about callers. `gateway_loop` assumes in addition
that each task that can step does (asyncio's ready queue is FIFO and no task
blocks the loop) and that backend calls end. The latter is an assumption about
the peers: attempts and pauses are bounded and every operation has a timeout
(`CallBounded`), but a peer that goes on sending a little within each timeout can
hold a call for as long as it likes. `slots` assumes weak fairness of a task's
steps and strong fairness of taking the lock, because
`asyncio.Lock` serves its waiters first come first served. `verdict` assumes
that the client's calls return, that a living reaper runs and that the burst's
120 s timeout strikes (httpx applies it, too, to each operation, and the server
sends an answer in one piece); backends need not answer.
`events` assumes only that a generator that can go on does. Clients need not
come, nobody has to be cancelled, to leave, to reset or to shut down, and
Starlette's cancellation is not assumed.

### Disagreements between code and documentation

Each is a run with `expect: violation` and an entry under `findings`.

* `CancelRollsBack`: the handler has no `finally`, and `except Exception` does
  not catch `CancelledError`; a cancelled request leaves its reservation to the
  reaper, against the header of `main.py`.
* `FailFastMeansExhausted`: a FAST request refused by the latency cap on its
  local path fails without trying a remote path that would be granted. For
  QUALITY requests the documented meaning does hold (`NoPathLeft`).
* `ProviderBillCapped`: a remote answer that arrives after its reservation was
  reaped is paid but not recorded, and the freed reservation admits another
  call; the bill passes the cap. The default settings allow it: the TTL is 45 s,
  said to cover "a slow remote API under retry (3 attempts × 10s)"
  (`config.py:62`), but the timeout is 30 s and applies to each I/O operation.
  Two attempts that time out and a third that answers pass the TTL; so does one
  attempt with a slow connection and a slow answer.
* `CountedOnce`: `route_counts` is incremented by the handler and again by every
  stream that delivers the decision, possibly after a reset.

Observations that have no run of their own:

* A commit that meets the latency cap answers 500; `load_generator.py:20`
  promises 503 for overflow.
* The local fallback after a remote failure is neither reserved nor committed,
  so the latencies answered can pass the cap of `config.py:27`;
  `AnswersMatchLedger` states the sum exactly.
* The capacity of the local queue holds per generation. After a reset, requests
  of the old generation and of the new run side by side, so more than
  `LOCAL_QUEUE_CAPACITY` may execute (`config.py:43`).
* `lifespan` stops the reaper of the manager it made; after a reset the current
  one is left to the end of the process (`OneReaper`).
* A stream cancelled before its first chunk, which is yielded outside the `try`,
  leaves its queue on the bus (`OnBusWhileStreaming` has this as its only
  exception), against "one queue per live SSE connection" (`event_bus.py:23`).
* The load generator swallows a failed `GET /summary` and then judges by the
  limits hard-coded in `run_demo`: a server configured with more may get a FAIL
  for spending what it is allowed to, which the comment at `load_generator.py:221`
  means to exclude. `NoFalseAlarm` has this as its only exception
  (`JudgedByDefaults`).
* A local call whose exchange with Ollama failed reports the latency of its mock
  only; the time the exchange took reaches neither the ledger nor the latency
  tracker (the exception of `ReportsWholeWait`).
* `complexity_classifier.py:93` says "longer than", the code tests `>=`.

## 4. Proofs

The runs check small instances; the theorems below hold for every value of the
constants that the named assumption of each module allows (naturals, positive
where the code needs it, finite sets of tasks, requests and clients). Every
inductive invariant was also checked with TLC on the instance of the run it
belongs to. Fairness is used by none of them: a specification with fairness
conditions enters only through its `Init` and `Next`.

| Module | Theorems | Inductive invariant |
|---|---|---|
| `BudgetManagerProofs` | `TypeCorrect`, `StatesAgree`, `CountersBalanced`, `NoOverspend`, `NoLatencyBreach`, `TimelyRecovery`, `SettlementFinal`, `Refinement` (implements `Escrow`) | `LedgerInv` |
| `QueueLockProofs` | `SlotTypes`, `NoWaitUnderLock`, `MonitorAtomic` (implements `QueueMonitor`) | `SlotInv` |
| `GatewayProofs` | `HandlerTypes`, `SlotsReturned`, `NoneOrphaned`, `FairCharge`, `LedgerSafeInUse`, `BooksBalance`, `ContractKept` (implements `Contract`); under exact scheduling `SlotAwaits`, `PathsExhausted`, `TierObeyed` | `GatewayInv`, and `LoopInv` beside it |
| `LoadGeneratorProofs` | `LoadTypes`, `ResetIsolates`, `ReaperUnique`, `PassIsHonest`, `FailIsNoFalseAlarm` | `LoadInv` |
| `EventBusProofs` | `BusTypes`, `StreamsInOrder`, `BusMembership`, `CountsRight`, `BusIsSharedLog` (implements `SharedLog`) | `BusInv` |
| `BackendsProofs` | `CallWaitsBounded`, `WaitReported` | `CallInv` |
| `LatencyTrackerProofs` | `MeanExact`, `SpikesPass` | `TrackerInv` |

**The ledger.** `LedgerInv` is the conjunction of `TypeOK`, `StateAgrees`,
`LedgerBalanced`, `BudgetSafe` and `LatencySafe`. `BudgetSafe` alone is not
inductive: a commit replaces the reserved cost in the counters by the actual one
and only `LedgerBalanced` says that the counter holds at least that
reservation's cost (so that the clamp does nothing); `LedgerBalanced` needs
`StateAgrees` to know that a new reservation was not counted before. The
refinement needs `LedgerBalanced` because `Escrow` admits by the holds
themselves. `RecoveredInTime` is inductive together with `TypeOK`.

`SumProofs` has what these arguments need of `Total` and `Masked`: the recursion
equation of `PrefixSum`, and that a sum is additive, splits over disjoint sets of
indices, changes by one summand when one index changes, is multiplied with its
summands, is non-negative for naturals and counts a set's members; and the
recursion equation of `Power`. Since induction theorems with an operator
parameter cannot be used with the installed provers, induction on the naturals is
derived there from well-foundedness, by the least counterexample of a set, and
so is the existence of the function that a recursion on the naturals defines.

**The queue monitor.** `SlotInv` adds to the types that the counter counts the
tasks inside, that the semaphore has the rest of the capacity, and that a task
past the test of `acquire()` finds a permit: only the holder of the lock changes
the counter, so the test it made still holds. The counter and the semaphore are
changed at the same await, which is why no weaker equation is needed in between.
`MonitorAtomic` maps each await to a step of the atomic monitor or to none.

**The handler.** `GatewayProofs` instantiates `BudgetManagerProofs` for the
requests as callers and reuses its step lemmas, so what is new is only that the
handler calls the ledger as those lemmas require. `GatewayInv` is `LedgerInv`,
the types, the agreement of counter, semaphore and slot holders, `Journey(r)`
(what is known of a request's reservation, goal, answer and slot at each stage)
and `BooksMatch` (the recorded spend and latency are the sums of what the
committed requests reported). `ChargedIffAnswered` needs `Journey` because
whether a 200 is earned is decided stages before it is sent. `NoOrphan` follows
from it because every stage after the answer has a settled reservation. The
lemma of each action also shows which request moved and how, from which
`ContractKept` reads off the step of `Contract`.

**Scheduling.** `SlotAwaits`, `PathsExhausted` and `TierObeyed` assume `LockMaySuspend =
FALSE`: an uncontended `asyncio.Lock` is taken without suspending, and no lock of
this program is ever contended, because none of its holders suspends (for the
queue monitor, the only one that awaits anything under its lock,
`NoWaitUnderLock`). They do not hold without it: with a switch at every lock, a
slot that was free at the test may be gone. `LoopInv` says that a request between
two backend calls keeps the loop; hence that the depth, the capacity and the
estimates `route()` read are still those of the moment (`Fresh`), that the plan
left offers no path it should not and lacks none that is open (`Sound`), and that
an admitted local request has a slot waiting (`Seated`).

**Generations.** `LoadInv` has, per generation, the reserved money, the reserved
latency and the slots as multiples of the numbers of requests that hold them, the
two caps, the home and reservation of each request, that the limits are the
hard-coded ones or the server's, and that the burst is answered or given up once
it is gathered. The verdict theorems are action properties: the verdict changes only
in the step that reads `/metrics`, and the cardinalities tell which requests its
figures stand for. `FailIsNoFalseAlarm` needs in addition that only requests in
flight or cancelled hold anything.

**Streams.** `StreamFaithful` is about the sequence of events taken and waiting,
and is not inductive: when a full queue drops its head, one has to know which
event that is. `BusInv` says that a queue on the bus holds exactly the newest
events without a gap, so the head of a full one is `MAX_QUEUE_SIZE - 1` events
old. The counters' part needs only how the set of events since the last reset
grows with one event. `BusIsSharedLog` rests on the same fact: a subscriber's
cursor is computed from the length of its queue alone, so the head of the queue
is the event under the cursor, and a drop moves the cursor to the oldest event
kept.

**Backend calls.** `CallInv` bounds the time spent by the operations made and the
pauses before the current attempt, and says where the code's clock started: at 0
for a remote call, in all its attempts; for the mock of a local call at the
moment it began, which is 0 only if Ollama was not asked before. The number of
operations of an exchange has no bound in the theorems beside `MaxOps`, which is
any natural number.

**Estimates.** `TrackerInv` says that the window is the end of the history, as
long as the deque allows; that the average is the weighted mean of the seed and
all records; and that a bound of the seed and of all records bounds the average
too, strictly when the last record is strictly below it. That part is what the
second half of `SpikeWindow` needs: the last record, which weighs
`ALPHA_NUM > 0`, is below the spike, so the average is, although it still
remembers the spike. The closed form follows step by step: a record multiplies every summand
by `ALPHA_DEN - ALPHA_NUM` (a sum scales with its summands) and adds one.

**Only model-checked.** Liveness (`FundsComeBack`, `Answered`, `NobodyStuck`,
`AbandonedRecovered`, `RunEnds`, `GoneIsUnsubscribed`), which is out of the
prover's reach. Every other property of a passing run is a theorem; the type
invariant of `QueueLock` is a theorem (`SlotTypes`) and part of no run.

## 5. Not modelled

The lock trace of `observability.py`: a ring of log entries that only `/trace`
shows and nothing acts on. `/status`, `/trace` and most of `/summary`: they read
the state the modules have and change nothing (`/metrics`, which the load
generator's verdict rests on, is in `AppState`, and the limits that `/summary`
gives it are in `LoadGenerator`). `config.py` and `models.py`:
constants and record types, which are the CONSTANTS of the modules. The
dashboard, the launcher and the printing, prompts and arguments of the load
generator. The regular expressions of the classifier. Float rounding.

## 6. State of the plan

Every component with state of its own is modelled, every safety property and
every refinement that a run checks is a theorem, and the liveness properties are
checked by TLC. Changes to the code that would call for new modelling: a second
process (the managers' locks are asyncio's), a manager whose lock is held over an
await, persistence of the ledger, or a reservation for the local fallback.
