------------------------------ MODULE Backends ------------------------------
(***************************************************************************)
(* app/backends.py: one call of simulate_local_inference or                 *)
(* simulate_remote_inference, against the clock.  The remote call retries   *)
(* transient errors with tenacity; the local call falls back to a mock.     *)
(*                                                                          *)
(* Times are seconds.  An exchange with Ollama or with the provider is a    *)
(* row of I/O operations: connecting, writing, each read.  httpx limits     *)
(* each of them and not the exchange, which lasts as long as its peer keeps *)
(* sending something in time.                                               *)
(***************************************************************************)
EXTENDS Integers

CONSTANTS
    REMOTE_LLM_TIMEOUT_SECONDS,
    OLLAMA_TIMEOUT_SECONDS,
    ATTEMPTS,           \* stop_after_attempt
    WAIT_MIN, WAIT_MAX, \* wait_exponential
    MOCK_DELAY,         \* asyncio.sleep of a mock backend, at most
    MaxOps              \* bound: operations of a call that do not end an exchange

ASSUME BackendsAssumption ==
    /\ REMOTE_LLM_TIMEOUT_SECONDS \in Nat
    /\ OLLAMA_TIMEOUT_SECONDS \in Nat
    /\ ATTEMPTS \in Nat \ {0}
    /\ WAIT_MIN \in Nat /\ WAIT_MAX \in Nat /\ WAIT_MIN <= WAIT_MAX
    /\ MOCK_DELAY \in Nat
    /\ MaxOps \in Nat

VARIABLES
    backend,    \* "none", "local" or "remote"
    phase,      \* where the call is
    attempt,    \* tenacity's attempt number
    ops,        \* I/O operations so far
    elapsed,    \* since the caller awaited the backend
    started,    \* when the code took `start`, on the same clock
    reported    \* actual_latency_ms of the result, in seconds

vars == <<backend, phase, attempt, ops, elapsed, started, reported>>

Ended == {"returned", "raised"}

Init ==
    /\ backend = "none"
    /\ phase = "idle"
    /\ attempt = 0
    /\ ops = 0
    /\ elapsed = 0
    /\ started = 0
    /\ reported = 0

\* Seconds go by until the code is in phase p.
Pass(d, p) ==
    /\ elapsed' = elapsed + d
    /\ phase' = p

\* One more I/O operation is over.
Operation == ops' = ops + 1

\* The exchange in phase p goes on after an operation of d seconds.
GoesOn(d, p) ==
    /\ phase = p
    /\ ops < MaxOps
    /\ Pass(d, p)
    /\ Operation
    /\ UNCHANGED <<backend, attempt, started, reported>>

\* The call returns a BackendResult after d more seconds.
Return(d) ==
    /\ Pass(d, "returned")
    /\ reported' = elapsed + d - started
    /\ UNCHANGED <<backend, attempt, started>>

-----------------------------------------------------------------------------
\* simulate_local_inference

CallLocal(p) ==
    /\ phase = "idle"
    /\ backend' = "local"
    /\ phase' = p
    /\ UNCHANGED <<attempt, ops, elapsed, started, reported>>

OllamaAnswers(d) ==
    /\ phase = "ollama"
    /\ Operation
    /\ Return(d)

\* Any failure of _call_ollama is a RemoteInferenceError, which the caller
\* turns into a mock call with a clock of its own.
OllamaFails(d) ==
    /\ phase = "ollama"
    /\ Operation
    /\ Pass(d, "mock")
    /\ started' = elapsed + d
    /\ UNCHANGED <<backend, attempt, reported>>

MockAnswers(d) ==
    /\ phase = "mock"
    /\ Return(d)
    /\ UNCHANGED ops

-----------------------------------------------------------------------------
\* simulate_remote_inference

\* To the provider, or to the mock in mock mode or without an API key.
CallRemote ==
    /\ phase = "idle"
    /\ backend' = "remote"
    /\ \/ phase' = "http" /\ attempt' = 1
       \/ phase' \in {"mock", "mock_fails"} /\ attempt' = attempt
    /\ UNCHANGED <<ops, elapsed, started, reported>>

\* should_fail: the provider call raises at once, the mock after its delay.
InjectedFailure ==
    /\ phase = "idle"
    /\ backend' = "remote"
    /\ phase' = "raised"
    /\ UNCHANGED <<attempt, ops, elapsed, started, reported>>

MockFails(d) ==
    /\ phase = "mock_fails"
    /\ Pass(d, "raised")
    /\ UNCHANGED <<backend, attempt, ops, started, reported>>

HttpAnswers(d) ==
    /\ phase = "http"
    /\ Operation
    /\ Return(d)

\* Mutant: one attempt too many.
HttpTransient_OffByOne(d) ==
    /\ phase = "http"
    /\ Operation
    /\ Pass(d, IF attempt <= ATTEMPTS THEN "backoff" ELSE "raised")
    /\ UNCHANGED <<backend, attempt, started, reported>>

\* TransientRemoteError: HTTP 429, 502, 503, 504, a timeout or no connection.
\* After the last attempt it comes out as RemoteInferenceError.
HttpTransient(d) ==
    /\ phase = "http"
    /\ Operation
    /\ Pass(d, IF attempt < ATTEMPTS THEN "backoff" ELSE "raised")
    /\ UNCHANGED <<backend, attempt, started, reported>>

\* Any other status or exception is a RemoteInferenceError at once.
HttpFatal(d) ==
    /\ phase = "http"
    /\ Operation
    /\ Pass(d, "raised")
    /\ UNCHANGED <<backend, attempt, started, reported>>

\* tenacity's wait_exponential(multiplier = 1) after attempt n.
Wait(n) ==
    LET w == 2 ^ (n - 1) IN
    IF w \in WAIT_MIN..WAIT_MAX THEN w ELSE IF w < WAIT_MIN THEN WAIT_MIN ELSE WAIT_MAX

\* Mutant: the clock is started inside the function that is retried.
Backoff_RestartsClock ==
    /\ phase = "backoff"
    /\ Pass(Wait(attempt), "http")
    /\ attempt' = attempt + 1
    /\ started' = elapsed + Wait(attempt)
    /\ UNCHANGED <<backend, ops, reported>>

Backoff ==
    /\ phase = "backoff"
    /\ Pass(Wait(attempt), "http")
    /\ attempt' = attempt + 1
    /\ UNCHANGED <<backend, ops, started, reported>>

-----------------------------------------------------------------------------
Start ==
    \/ \E p \in {"ollama", "mock"} : CallLocal(p)
    \/ CallRemote
    \/ InjectedFailure

Advance ==
    \/ \E d \in 0..OLLAMA_TIMEOUT_SECONDS :
          GoesOn(d, "ollama") \/ OllamaAnswers(d) \/ OllamaFails(d)
    \/ \E d \in 0..REMOTE_LLM_TIMEOUT_SECONDS :
          GoesOn(d, "http") \/ HttpAnswers(d) \/ HttpTransient(d) \/ HttpFatal(d)
    \/ \E d \in 0..MOCK_DELAY : MockAnswers(d) \/ MockFails(d)
    \/ Backoff

\* The call is over; nothing more happens.
Over == phase \in Ended /\ UNCHANGED vars

Next == Start \/ Advance \/ Over

Spec == Init /\ [][Next]_vars

-----------------------------------------------------------------------------
\* Properties

\* However its exchanges go, a call never waits longer than the timeout for one
\* operation, and what it waits beside its operations is bounded: the pauses of a
\* limited number of attempts, or one mock.  A peer can therefore hold a call
\* only by going on answering.  A local call never fails, whatever Ollama does:
\* the handler has no branch for that.
CallBounded ==
    /\ backend = "remote" =>
          /\ attempt <= ATTEMPTS
          /\ elapsed <= ops * REMOTE_LLM_TIMEOUT_SECONDS + (ATTEMPTS - 1) * WAIT_MAX + MOCK_DELAY
    /\ backend = "local" =>
          /\ phase # "raised"
          /\ elapsed <= ops * OLLAMA_TIMEOUT_SECONDS + MOCK_DELAY

\* The latency that a result reports, which is what the ledger and the tracker
\* record, is the caller's whole wait: the failed attempts of a remote call and
\* its pauses are in it.  The one exception is a local call whose exchange with
\* Ollama failed: it reports its mock only.
ReportsWholeWait ==
    phase = "returned" =>
        \/ reported = elapsed
        \/ backend = "local" /\ ops > 0 /\ reported <= MOCK_DELAY
=============================================================================
