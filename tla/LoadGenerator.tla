---------------------------- MODULE LoadGenerator ----------------------------
(***************************************************************************)
(* load_generator.py, run against the server of AppState: it resets the     *)
(* server, fires its burst, waits for every answer, reads /metrics and      *)
(* gives a verdict on whether the gateway leaks.  Other clients may send    *)
(* requests and reset the server at any time; its calls may time out.       *)
(***************************************************************************)
EXTENDS AppState

CONSTANTS
    Burst,          \* the requests it sends, the others are of other clients
    Reset,          \* --reset
    DEFAULT_BUDGET, DEFAULT_LATENCY     \* the limits hard-coded in run_demo

ASSUME LoadGeneratorAssumption ==
    /\ Burst \subseteq Req
    /\ Reset \in BOOLEAN
    /\ DEFAULT_BUDGET \in Nat /\ DEFAULT_LATENCY \in Nat

VARIABLES
    step,           \* where run_demo is
    limits,         \* max_budget and max_latency_cap, what it judges by
    lost,           \* requests whose client got no answer in time
    verdict         \* none, PASS or FAIL

clientVars == <<step, limits, lost, verdict>>
vars == <<appVars, clientVars>>

Steps == {"health", "run_start", "trace", "summary", "burst", "metrics", "complete", "end"}

DefaultLimits == [budget |-> DEFAULT_BUDGET, latency |-> DEFAULT_LATENCY]

\* budget_max and latency_max_ms of GET /summary.
ServerLimits == [budget |-> MAX_REMOTE_BUDGET, latency |-> MAX_CUMULATIVE_LATENCY_MS]

TypeOK ==
    /\ AppTypeOK
    /\ step \in Steps
    /\ limits \in {DefaultLimits, ServerLimits}
    /\ lost \subseteq Burst
    /\ verdict \in {"none", "PASS", "FAIL"}

Init ==
    /\ AppInit
    /\ step = "health"
    /\ limits = DefaultLimits
    /\ lost = {}
    /\ verdict = "none"

\* run_demo goes from one call to the next.
GoOn(from, to) == step = from /\ step' = to

\* GET /health.
Health ==
    /\ serving
    /\ GoOn("health", "run_start")
    /\ UNCHANGED <<appVars, limits, lost, verdict>>

\* When one of these calls fails, with or without a server there, run_demo
\* returns False or raises.
CallFails ==
    /\ step \in {"health", "trace", "metrics"}
    /\ step' = "end"
    /\ UNCHANGED <<appVars, limits, lost, verdict>>

\* POST /run_start.  Any failure is swallowed, before or after it took effect.
PostRunStart ==
    /\ GoOn("run_start", "trace")
    /\ Reset /\ RunStart
    /\ UNCHANGED <<limits, lost, verdict>>
PostRunStartNoEffect ==
    /\ GoOn("run_start", "trace")
    /\ UNCHANGED <<appVars, limits, lost, verdict>>

\* DELETE /trace; then, with nothing to send, the end.
DeleteTrace ==
    /\ serving
    /\ GoOn("trace", IF Burst # {} THEN "summary" ELSE "end")
    /\ UNCHANGED <<appVars, limits, lost, verdict>>

\* GET /summary: the limits the server works with.  A failure is swallowed and
\* leaves the hard-coded ones.
GetSummary ==
    /\ serving
    /\ GoOn("summary", "burst")
    /\ limits' = ServerLimits
    /\ UNCHANGED <<appVars, lost, verdict>>
GetSummaryFails ==
    /\ GoOn("summary", "burst")
    /\ UNCHANGED <<appVars, limits, lost, verdict>>

\* A request of the burst reaches the server.
Send(r) ==
    /\ r \in Burst
    /\ step = "burst"
    /\ r \notin lost
    /\ Admission(r)
    /\ UNCHANGED clientVars

\* Mutant: the request is posted without a timeout.
Timeout_None(r) == FALSE

\* The 120 s timeout of send_request, or a connection error.
Timeout(r) == stage[r] # "done"

\* The client gives r up.  The server's handler is not told.
GiveUp(r) ==
    /\ r \in Burst \ lost
    /\ step = "burst"
    /\ Timeout(r)
    /\ lost' = lost \union {r}
    /\ UNCHANGED <<appVars, step, limits, verdict>>

\* Mutant: a request is taken for finished as soon as it is sent.
Answered_Sent(r) == stage[r] # "new"

Answered(r) == stage[r] = "done"

\* asyncio.gather returns: every request is answered or given up.
Gather ==
    /\ \A r \in Burst : Answered(r) \/ r \in lost
    /\ GoOn("burst", "metrics")
    /\ UNCHANGED <<appVars, limits, lost, verdict>>

\* Mutant: only reserved money counts as a leak.
Passed_MoneyOnly(m) ==
    /\ m.cost <= limits.budget
    /\ m.reserved = 0
    /\ m.local = 0
    /\ m.lat <= limits.latency

\* evaluate_verdict.
Passed(m) ==
    /\ m.cost <= limits.budget
    /\ m.reserved = 0
    /\ m.active = 0
    /\ m.local = 0
    /\ m.reservedLat = 0
    /\ m.lat <= limits.latency

\* GET /metrics and the verdict.
Judge ==
    /\ serving
    /\ GoOn("metrics", "complete")
    /\ verdict' = IF Passed(Metrics) THEN "PASS" ELSE "FAIL"
    /\ UNCHANGED <<appVars, limits, lost>>

\* POST /run_complete, best effort.
PostRunComplete ==
    /\ GoOn("complete", "end")
    /\ UNCHANGED <<appVars, limits, lost, verdict>>

Client ==
    \/ Health \/ PostRunStart \/ PostRunStartNoEffect \/ DeleteTrace
    \/ GetSummary \/ GetSummaryFails
    \/ Gather \/ Judge \/ PostRunComplete \/ CallFails

\* The server and its other clients.
Server ==
    /\ \/ \E r \in Req \ Burst : Admission(r)
       \/ \E r \in Req : Handling(r) \/ Cancel(r) \/ Expire(r)
       \/ RunStart
       \/ Shutdown
    /\ UNCHANGED clientVars

Next ==
    \/ Client
    \/ \E r \in Burst : Send(r) \/ GiveUp(r)
    \/ Server

\* A reaper's timer and the client's own calls are always served.  No backend has
\* to answer, and nobody has to send, cancel, reset or shut down.
Spec ==
    /\ Init
    /\ [][Next]_vars
    /\ WF_vars(Client)
    /\ \A r \in Req : WF_vars(Expire(r) /\ UNCHANGED clientVars)
    /\ \A r \in Burst : WF_vars(GiveUp(r))

-----------------------------------------------------------------------------
\* Properties

\* A PASS is honest: in the managers it looked at no request, of the burst or of
\* anyone else, still holds a reservation, of money or of latency alone, or a
\* slot.
HonestVerdict ==
    [][verdict' # verdict /\ verdict' = "PASS" =>
          \A r \in Req : home[r] = gen => res[r] # "held" /\ stage[r] \notin InSlot]_vars

\* The run is judged by limits below the server's own, which takes a failed
\* GET /summary and a server configured with more than the hard-coded limits; and
\* the server spent what lies between.
JudgedByDefaults ==
    /\ limits = DefaultLimits
    /\ \/ limits.budget < spent[gen] /\ spent[gen] <= MAX_REMOTE_BUDGET
       \/ limits.latency < usedLat[gen] /\ usedLat[gen] <= MAX_CUMULATIVE_LATENCY_MS

\* A FAIL is no false alarm about requests that went well: it takes a cancelled
\* request, one that its client gave up while the server went on, or another
\* client's request in flight.  The one exception is a run that is judged by the
\* hard-coded limits because GET /summary failed.
NoFalseAlarm ==
    [][verdict' # verdict /\ verdict' = "FAIL" =>
          \/ JudgedByDefaults
          \/ \E r \in Req :
                /\ home[r] = gen
                /\ \/ stage[r] = "cancelled" /\ res[r] = "held"
                   \/ stage[r] \in InFlight /\ (r \in lost \/ r \notin Burst)]_vars

\* Every run ends, whatever happens to its requests.
RunEnds == <>(step = "end")
=============================================================================
