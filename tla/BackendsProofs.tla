---------------------------- MODULE BackendsProofs ----------------------------
(***************************************************************************)
(* What a backend call waits for and what latency it reports: for any       *)
(* timeouts, any number of attempts and any pauses between them, and        *)
(* exchanges of any length.                                                 *)
(***************************************************************************)
EXTENDS Backends, TLAPS

\* The time that n operations take at most, each with timeout t, beside p.
Waited(n, t, p) == n * t + p

\* The pauses before attempt n, at most.
Pauses(n) == (n - 1) * WAIT_MAX

\* A call that waits for the provider has the pauses before its attempt behind
\* it; one that never asked the provider has at most a mock's delay.
RemoteInv ==
    /\ phase \in {"http", "mock", "mock_fails", "backoff", "returned", "raised"}
    /\ started = 0
    /\ phase \in {"http", "backoff"} =>
          /\ attempt \in 1..ATTEMPTS
          /\ phase = "backoff" => attempt < ATTEMPTS
          /\ elapsed <= Waited(ops, REMOTE_LLM_TIMEOUT_SECONDS, Pauses(attempt))
    /\ phase \in {"mock", "mock_fails"} => attempt = 0 /\ elapsed = 0 /\ ops = 0
    /\ phase \in Ended =>
          \/ attempt = 0 /\ ops = 0 /\ elapsed <= MOCK_DELAY
          \/ /\ attempt \in 1..ATTEMPTS
             /\ elapsed <= Waited(ops, REMOTE_LLM_TIMEOUT_SECONDS, Pauses(attempt))
    /\ phase = "returned" => reported = elapsed

\* The mock of a local call starts a clock of its own: at once, or when the
\* exchange with Ollama has failed.
LocalInv ==
    /\ phase \in {"ollama", "mock", "returned"}
    /\ phase \in {"ollama", "mock"} => elapsed <= Waited(ops, OLLAMA_TIMEOUT_SECONDS, 0)
    /\ phase = "ollama" => started = 0
    /\ phase = "mock" => started = elapsed /\ (ops = 0 => elapsed = 0)
    /\ phase = "returned" =>
          /\ elapsed <= Waited(ops, OLLAMA_TIMEOUT_SECONDS, MOCK_DELAY)
          /\ reported = elapsed \/ (ops > 0 /\ reported <= MOCK_DELAY)

\* The inductive invariant.
CallInv ==
    /\ elapsed \in Nat /\ attempt \in Nat /\ ops \in Nat
    /\ \/ /\ backend = "none" /\ phase = "idle"
          /\ elapsed = 0 /\ started = 0 /\ attempt = 0 /\ ops = 0
       \/ backend = "remote" /\ RemoteInv
       \/ backend = "local" /\ LocalInv

-----------------------------------------------------------------------------
\* Arithmetic

\* The figures are numbers.
LEMMA FiguresNat ==
  /\ REMOTE_LLM_TIMEOUT_SECONDS \in Nat /\ OLLAMA_TIMEOUT_SECONDS \in Nat
  /\ ATTEMPTS \in Nat /\ ATTEMPTS > 0
  /\ WAIT_MIN \in Nat /\ WAIT_MAX \in Nat /\ WAIT_MIN <= WAIT_MAX /\ MOCK_DELAY \in Nat
BY BackendsAssumption

\* A pause of tenacity's wait_exponential stays within its limits.
LEMMA WaitBounded ==
  ASSUME NEW n
  PROVE  Wait(n) \in Nat /\ Wait(n) <= WAIT_MAX
<1>1. Wait(n) \in WAIT_MIN..WAIT_MAX
  BY FiguresNat DEF Wait
<1> QED
  BY <1>1, FiguresNat

\* Products grow with their factors.
LEMMA MoreTakesLonger ==
  ASSUME NEW t \in Nat, NEW m \in Nat, NEW n \in Nat, m <= n
  PROVE  m * t \in Nat /\ n * t \in Nat /\ m * t <= n * t
<1>1. PICK d \in Nat : n = m + d
  <2>1. n - m \in Nat /\ n = m + (n - m)
    OBVIOUS
  <2> QED
    BY <2>1
<1>2. m * t \in Nat /\ d * t \in Nat /\ (m + d) * t = m * t + d * t
  OBVIOUS
<1> QED
  BY <1>1, <1>2

\* One more operation, of at most its timeout.
LEMMA OneMoreOperation ==
  ASSUME NEW n \in Nat, NEW t \in Nat, NEW p \in Nat, NEW e \in Nat, NEW d \in 0..t,
         e <= Waited(n, t, p)
  PROVE  e + d <= Waited(n + 1, t, p)
<1>1. n * t \in Nat /\ (n + 1) * t = n * t + t
  OBVIOUS
<1>2. e <= n * t + p
  BY DEF Waited
<1>3. e + d <= (n + 1) * t + p
  BY <1>1, <1>2
<1> QED
  BY <1>3 DEF Waited

\* Something beside the operations.
LEMMA SomethingElse ==
  ASSUME NEW n \in Nat, NEW t \in Nat, NEW p \in Nat, NEW q \in Nat, NEW e \in Nat,
         e <= Waited(n, t, p), p <= q
  PROVE  /\ e <= Waited(n, t, q)
         /\ \A d \in Nat : p + d <= q => e + d <= Waited(n, t, q)
<1>1. n * t \in Nat
  OBVIOUS
<1>2. e <= n * t + p
  BY DEF Waited
<1>3. e <= n * t + q
  BY <1>1, <1>2
<1>4. ASSUME NEW d \in Nat, p + d <= q
      PROVE  e + d <= n * t + q
  BY <1>1, <1>2, <1>4
<1> QED
  BY <1>3, <1>4 DEF Waited

\* The pauses before the attempts.
LEMMA PausesGrow ==
  ASSUME NEW n \in 1..ATTEMPTS
  PROVE  /\ Pauses(n) \in Nat
         /\ Pauses(n) <= Pauses(ATTEMPTS) /\ Pauses(ATTEMPTS) \in Nat
         /\ Pauses(n + 1) = Pauses(n) + WAIT_MAX
<1>1. n - 1 \in Nat /\ ATTEMPTS - 1 \in Nat /\ n - 1 <= ATTEMPTS - 1 /\ (n + 1) - 1 = (n - 1) + 1
  BY FiguresNat
<1>2. /\ (n - 1) * WAIT_MAX \in Nat /\ (ATTEMPTS - 1) * WAIT_MAX \in Nat
      /\ (n - 1) * WAIT_MAX <= (ATTEMPTS - 1) * WAIT_MAX
  BY <1>1, FiguresNat, MoreTakesLonger
<1>3. ((n + 1) - 1) * WAIT_MAX = (n - 1) * WAIT_MAX + WAIT_MAX
  BY FiguresNat
<1> QED
  BY <1>2, <1>3 DEF Pauses

-----------------------------------------------------------------------------
\* The steps of a call

\* A call starts with no time spent.
LEMMA StartKept ==
  ASSUME CallInv, Start
  PROVE  CallInv'
<1>1. phase = "idle" /\ elapsed' = elapsed /\ started' = started /\ ops' = ops
  BY DEF Start, CallLocal, CallRemote, InjectedFailure
<1>2. elapsed = 0 /\ started = 0 /\ attempt = 0 /\ ops = 0
  BY <1>1 DEF CallInv, RemoteInv, LocalInv
<1>3. CASE \E p \in {"ollama", "mock"} : CallLocal(p)
  <2>1. 0 <= Waited(0, OLLAMA_TIMEOUT_SECONDS, 0)
    BY FiguresNat DEF Waited
  <2> QED
    BY <1>1, <1>2, <1>3, <2>1 DEF CallLocal, CallInv, LocalInv
<1>4. CASE CallRemote
  <2>1. CASE phase' = "http" /\ attempt' = 1
    <3>1. 0 <= Waited(0, REMOTE_LLM_TIMEOUT_SECONDS, Pauses(1)) /\ 1 \in 1..ATTEMPTS
      BY FiguresNat DEF Waited, Pauses
    <3> QED
      BY <1>1, <1>2, <1>4, <2>1, <3>1 DEF CallRemote, CallInv, RemoteInv, Ended
  <2>2. CASE phase' \in {"mock", "mock_fails"} /\ attempt' = attempt
    BY <1>1, <1>2, <1>4, <2>2 DEF CallRemote, CallInv, RemoteInv, Ended
  <2> QED
    BY <1>4, <2>1, <2>2 DEF CallRemote
<1>5. CASE InjectedFailure
  BY <1>1, <1>2, <1>5, FiguresNat DEF InjectedFailure, CallInv, RemoteInv, Ended
<1> QED
  BY <1>3, <1>4, <1>5 DEF Start

\* An operation of the exchange with Ollama: it goes on, answers or fails.
LEMMA OllamaKept ==
  ASSUME CallInv, NEW d \in 0..OLLAMA_TIMEOUT_SECONDS,
         GoesOn(d, "ollama") \/ OllamaAnswers(d) \/ OllamaFails(d)
  PROVE  CallInv'
<1>1. /\ phase = "ollama" /\ backend' = backend /\ attempt' = attempt
      /\ elapsed' = elapsed + d /\ ops' = ops + 1
  BY DEF GoesOn, OllamaAnswers, OllamaFails, Operation, Return, Pass
<1>2. /\ backend = "local" /\ started = 0 /\ attempt \in Nat /\ elapsed \in Nat /\ ops \in Nat
      /\ elapsed <= Waited(ops, OLLAMA_TIMEOUT_SECONDS, 0)
  BY <1>1 DEF CallInv, RemoteInv, LocalInv
<1>3. elapsed' \in Nat /\ ops' \in Nat /\ ops' > 0
  BY <1>1, <1>2, FiguresNat
<1>4. elapsed' <= Waited(ops', OLLAMA_TIMEOUT_SECONDS, 0)
  BY <1>1, <1>2, FiguresNat, OneMoreOperation
<1>5. elapsed' <= Waited(ops', OLLAMA_TIMEOUT_SECONDS, MOCK_DELAY)
  BY <1>3, <1>4, FiguresNat, SomethingElse
<1>6. \/ phase' = "ollama" /\ started' = started
      \/ phase' = "returned" /\ reported' = elapsed + d - started
      \/ phase' = "mock" /\ started' = elapsed + d
  BY DEF GoesOn, OllamaAnswers, OllamaFails, Return, Pass
<1>7. phase' = "returned" => reported' = elapsed'
  BY <1>1, <1>2, <1>6
<1> QED
  BY <1>1, <1>2, <1>3, <1>4, <1>5, <1>6, <1>7 DEF CallInv, LocalInv

\* The mock of either backend.
LEMMA MockKept ==
  ASSUME CallInv, NEW d \in 0..MOCK_DELAY, MockAnswers(d) \/ MockFails(d)
  PROVE  CallInv'
<1>1. /\ phase \in {"mock", "mock_fails"} /\ elapsed' = elapsed + d
      /\ UNCHANGED <<backend, attempt, started, ops>>
      /\ phase = "mock" => phase' = "returned" /\ reported' = elapsed + d - started
      /\ phase = "mock_fails" => phase' = "raised"
  BY DEF MockAnswers, MockFails, Return, Pass
<1>2. CASE backend = "remote"
  <2>1. elapsed = 0 /\ attempt = 0 /\ started = 0 /\ ops = 0
    BY <1>1, <1>2 DEF CallInv, RemoteInv
  <2>2. elapsed' = d /\ d \in Nat /\ d <= MOCK_DELAY
    BY <1>1, <2>1, FiguresNat
  <2>3. phase' = "returned" => reported' = elapsed'
    BY <1>1, <2>1, <2>2
  <2> QED
    BY <1>1, <1>2, <2>1, <2>2, <2>3 DEF CallInv, RemoteInv, Ended
<1>3. CASE backend = "local"
  <2>1. /\ phase = "mock" /\ elapsed \in Nat /\ attempt \in Nat /\ ops \in Nat
        /\ elapsed <= Waited(ops, OLLAMA_TIMEOUT_SECONDS, 0)
        /\ started = elapsed /\ (ops = 0 => elapsed = 0)
    BY <1>1, <1>3 DEF CallInv, LocalInv
  <2>2. d \in Nat /\ d <= MOCK_DELAY /\ 0 + d <= MOCK_DELAY
    BY FiguresNat
  <2>3. elapsed' \in Nat /\ elapsed' <= Waited(ops', OLLAMA_TIMEOUT_SECONDS, MOCK_DELAY)
    <3>1. elapsed + d <= Waited(ops, OLLAMA_TIMEOUT_SECONDS, MOCK_DELAY)
      <4>1. \A e \in Nat : 0 + e <= MOCK_DELAY
                              => elapsed + e <= Waited(ops, OLLAMA_TIMEOUT_SECONDS, MOCK_DELAY)
        <5>1. 0 \in Nat /\ 0 <= MOCK_DELAY
          BY FiguresNat
        <5> QED
          BY <2>1, <5>1, FiguresNat, SomethingElse
      <4> QED
        BY <2>2, <4>1
    <3>2. elapsed' \in Nat
      BY <1>1, <2>1, <2>2
    <3> QED
      BY <1>1, <3>1, <3>2
  <2>4. reported' = d
    BY <1>1, <2>1, <2>2
  <2>5. reported' = elapsed' \/ (ops' > 0 /\ reported' <= MOCK_DELAY)
    BY <1>1, <2>1, <2>2, <2>4
  <2> QED
    BY <1>1, <1>3, <2>1, <2>3, <2>5 DEF CallInv, LocalInv
<1> QED
  BY <1>1, <1>2, <1>3 DEF CallInv

\* An operation of an attempt at the provider, which goes on or ends.
LEMMA HttpKept ==
  ASSUME CallInv, NEW d \in 0..REMOTE_LLM_TIMEOUT_SECONDS,
         GoesOn(d, "http") \/ HttpAnswers(d) \/ HttpTransient(d) \/ HttpFatal(d)
  PROVE  CallInv'
<1>1. /\ phase = "http" /\ elapsed' = elapsed + d /\ ops' = ops + 1
      /\ UNCHANGED <<backend, attempt, started>>
  BY DEF GoesOn, HttpAnswers, HttpTransient, HttpFatal, Operation, Return, Pass
<1>2. /\ backend = "remote" /\ started = 0 /\ attempt \in 1..ATTEMPTS
      /\ elapsed \in Nat /\ attempt \in Nat /\ ops \in Nat
      /\ elapsed <= Waited(ops, REMOTE_LLM_TIMEOUT_SECONDS, Pauses(attempt))
  BY <1>1 DEF CallInv, RemoteInv, LocalInv
<1>3. \/ phase' = "http"
      \/ phase' = "returned" /\ reported' = elapsed + d - started
      \/ phase' = "backoff" /\ attempt < ATTEMPTS
      \/ phase' = "raised"
  BY DEF GoesOn, HttpAnswers, HttpTransient, HttpFatal, Return, Pass
<1>4. elapsed + d <= Waited(ops + 1, REMOTE_LLM_TIMEOUT_SECONDS, Pauses(attempt))
  BY <1>2, FiguresNat, PausesGrow, OneMoreOperation
<1>5. elapsed' \in Nat /\ ops' \in Nat
  BY <1>1, <1>2, FiguresNat
<1>6. phase' = "returned" => reported' = elapsed'
  BY <1>1, <1>2, <1>3
<1>7. Pauses(attempt') = Pauses(attempt)
  BY <1>1
<1>8. elapsed' <= Waited(ops', REMOTE_LLM_TIMEOUT_SECONDS, Pauses(attempt'))
  BY <1>1, <1>4, <1>7
<1> QED
  BY <1>1, <1>2, <1>3, <1>5, <1>6, <1>8 DEF CallInv, RemoteInv, Ended

\* A pause, and the next attempt.
LEMMA BackoffKept ==
  ASSUME CallInv, Backoff
  PROVE  CallInv'
<1>1. /\ phase = "backoff" /\ phase' = "http" /\ elapsed' = elapsed + Wait(attempt)
      /\ attempt' = attempt + 1 /\ UNCHANGED <<backend, started, ops>>
  BY DEF Backoff, Pass
<1>2. /\ backend = "remote" /\ started = 0 /\ attempt \in 1..ATTEMPTS /\ attempt < ATTEMPTS
      /\ elapsed \in Nat /\ attempt \in Nat /\ ops \in Nat
      /\ elapsed <= Waited(ops, REMOTE_LLM_TIMEOUT_SECONDS, Pauses(attempt))
  BY <1>1 DEF CallInv, RemoteInv, LocalInv
<1>3. Wait(attempt) \in Nat /\ Wait(attempt) <= WAIT_MAX
  BY WaitBounded
<1>4. attempt' \in 1..ATTEMPTS /\ attempt' \in Nat /\ elapsed' \in Nat
  BY <1>1, <1>2, <1>3, FiguresNat
<1>5. /\ Pauses(attempt) \in Nat /\ Pauses(attempt + 1) \in Nat
      /\ Pauses(attempt + 1) = Pauses(attempt) + WAIT_MAX
  BY <1>1, <1>2, <1>4, PausesGrow
<1>6. Pauses(attempt) + Wait(attempt) <= Pauses(attempt + 1) /\ Pauses(attempt) <= Pauses(attempt + 1)
  BY <1>3, <1>5, FiguresNat
<1>7. elapsed + Wait(attempt) <= Waited(ops, REMOTE_LLM_TIMEOUT_SECONDS, Pauses(attempt + 1))
  BY <1>2, <1>3, <1>5, <1>6, FiguresNat, SomethingElse
<1>8. elapsed' <= Waited(ops', REMOTE_LLM_TIMEOUT_SECONDS, Pauses(attempt'))
  BY <1>1, <1>7
<1> QED
  BY <1>1, <1>2, <1>4, <1>8 DEF CallInv, RemoteInv, Ended

\* The invariant holds throughout.
LEMMA CallCorrect == Spec => []CallInv
<1>1. Init => CallInv
  BY DEF Init, CallInv
<1>2. CallInv /\ [Next]_vars => CallInv'
  <2> SUFFICES ASSUME CallInv, [Next]_vars
               PROVE  CallInv'
    OBVIOUS
  <2>1. CASE UNCHANGED vars
    BY <2>1 DEF vars, CallInv, RemoteInv, LocalInv, Ended, Waited, Pauses
  <2>2. CASE Advance
    BY <2>2, OllamaKept, HttpKept, MockKept, BackoffKept DEF Advance
  <2> QED
    BY <2>1, <2>2, StartKept DEF Next, Over
<1> QED
  BY <1>1, <1>2, PTL DEF Spec

-----------------------------------------------------------------------------
\* What it gives

\* A call to either backend waits for nothing but its operations, each within
\* the timeout, a limited number of pauses and one mock; and
\* simulate_local_inference never fails.
THEOREM CallWaitsBounded == Spec => []CallBounded
<1> DEFINE T == REMOTE_LLM_TIMEOUT_SECONDS
           P == Pauses(ATTEMPTS) + MOCK_DELAY
<1>1. Pauses(ATTEMPTS) \in Nat /\ P \in Nat /\ Pauses(ATTEMPTS) <= P /\ MOCK_DELAY <= P /\ T \in Nat
  <2>1. ATTEMPTS \in 1..ATTEMPTS
    BY FiguresNat
  <2> QED
    BY <2>1, PausesGrow, FiguresNat
<1> HIDE DEF T, P
<1>2. ASSUME CallInv, backend = "remote"
      PROVE  attempt <= ATTEMPTS /\ elapsed <= Waited(ops, T, P)
  <2>1. RemoteInv /\ elapsed \in Nat /\ ops \in Nat
    BY <1>2 DEF CallInv
  <2>2. ASSUME attempt \in 1..ATTEMPTS, elapsed <= Waited(ops, T, Pauses(attempt))
        PROVE  attempt <= ATTEMPTS /\ elapsed <= Waited(ops, T, P)
    <3>1. Pauses(attempt) \in Nat /\ Pauses(attempt) <= Pauses(ATTEMPTS)
      BY <2>2, PausesGrow
    <3>2. Pauses(attempt) <= P
      BY <1>1, <3>1
    <3>3. elapsed <= Waited(ops, T, P)
      BY <1>1, <2>1, <2>2, <3>1, <3>2, SomethingElse
    <3> QED
      BY <2>2, <3>3, FiguresNat
  <2>3. ASSUME attempt = 0, ops = 0, elapsed <= MOCK_DELAY
        PROVE  attempt <= ATTEMPTS /\ elapsed <= Waited(ops, T, P)
    <3>1. Waited(ops, T, P) = P
      BY <1>1, <2>3 DEF Waited
    <3> QED
      BY <1>1, <2>1, <2>3, <3>1, FiguresNat
  <2>4. \/ attempt \in 1..ATTEMPTS /\ elapsed <= Waited(ops, T, Pauses(attempt))
        \/ attempt = 0 /\ ops = 0 /\ elapsed <= MOCK_DELAY
    BY <2>1, FiguresNat DEF RemoteInv, Ended, T
  <2> QED
    BY <2>2, <2>3, <2>4
<1>3. ASSUME CallInv, backend = "local"
      PROVE  phase # "raised" /\ elapsed <= Waited(ops, OLLAMA_TIMEOUT_SECONDS, MOCK_DELAY)
  <2>1. LocalInv /\ elapsed \in Nat /\ ops \in Nat
    BY <1>3 DEF CallInv
  <2>2. CASE phase \in {"ollama", "mock"}
    <3>1. elapsed <= Waited(ops, OLLAMA_TIMEOUT_SECONDS, 0) /\ 0 \in Nat /\ 0 <= MOCK_DELAY
      BY <2>1, <2>2, FiguresNat DEF LocalInv
    <3>2. elapsed <= Waited(ops, OLLAMA_TIMEOUT_SECONDS, MOCK_DELAY)
      BY <2>1, <3>1, FiguresNat, SomethingElse
    <3> QED
      BY <2>2, <3>2
  <2> QED
    BY <2>1, <2>2 DEF LocalInv
<1>4. /\ ops \in Nat => Waited(ops, T, P) = ops * T + (ATTEMPTS - 1) * WAIT_MAX + MOCK_DELAY
      /\ Waited(ops, OLLAMA_TIMEOUT_SECONDS, MOCK_DELAY) = ops * OLLAMA_TIMEOUT_SECONDS + MOCK_DELAY
  <2>1. ASSUME ops \in Nat
        PROVE  ops * T + (Pauses(ATTEMPTS) + MOCK_DELAY) = ops * T + Pauses(ATTEMPTS) + MOCK_DELAY
    <3>1. ops * T \in Nat
      BY <1>1, <2>1
    <3> QED
      BY <1>1, <3>1, FiguresNat
  <2> QED
    BY <2>1 DEF Waited, P, Pauses
<1>5. CallInv => CallBounded
  <2>1. CallInv => ops \in Nat
    BY DEF CallInv
  <2> QED
    BY <1>2, <1>3, <1>4, <2>1 DEF CallBounded, T
<1> QED
  BY <1>5, CallCorrect, PTL

\* The latency a result reports covers the failed attempts and the pauses of its
\* call, apart from what a failed exchange with Ollama took.
THEOREM WaitReported == Spec => []ReportsWholeWait
<1>1. CallInv => ReportsWholeWait
  BY DEF CallInv, RemoteInv, LocalInv, ReportsWholeWait
<1> QED
  BY <1>1, CallCorrect, PTL
=============================================================================
