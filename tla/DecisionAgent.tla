---------------------------- MODULE DecisionAgent ----------------------------
(***************************************************************************)
(* app/decision_agent.py: which routes a request tries, and in which order. *)
(*                                                                          *)
(* route() reads the queue and the latency estimates without a lock, then   *)
(* walks a list of paths; each path asks the budget manager for a           *)
(* reservation and the first one granted is the decision.  The reads fix    *)
(* the list (Plan); only the grants depend on what happens afterwards.      *)
(***************************************************************************)
EXTENDS Integers, Sequences

CONSTANT COST_PER_REMOTE_REQUEST

\* RouteDecision
Routes == {"LOCAL", "REMOTE", "QUEUE_LOCAL", "FAIL_FAST"}

\* What route() works on: the request (what it asked, by number), and its advisory reads of the slots in
\* use and of the estimates (Little's law for the local queue).
Quote(ask, tier, sla, depth, atCapacity, estLocal, estRemote) ==
    [ask |-> ask, tier |-> tier, sla |-> sla, depth |-> depth, full |-> atCapacity,
     local |-> estLocal * (depth + 1), remote |-> estRemote]

\* Before route() is called and after it returned.
NoQuote == Quote(0, "FAST", 0, 0, FALSE, 0, 0)

When(cond, path) == IF cond THEN <<path>> ELSE <<>>

LocalWithinSla(q) == q.local <= q.sla
RemoteWithinSla(q) == q.remote <= q.sla

\* The paths of _route_fast.  A request that local can serve within its SLA is
\* offered local only: refused there, it fails without trying remote.
FastPlan(q) ==
    IF ~q.full /\ LocalWithinSla(q)
      THEN <<"LOCAL">>
      ELSE When(RemoteWithinSla(q), "REMOTE") \o When(~q.full, "QUEUE_LOCAL")

\* Mutant: no degraded local path past the SLA.
QualityPlan_NoDegraded(q) ==
    When(RemoteWithinSla(q), "REMOTE") \o When(~q.full /\ LocalWithinSla(q), "LOCAL")

\* The paths of _route_quality.
QualityPlan(q) ==
    When(RemoteWithinSla(q), "REMOTE")
        \o When(~q.full, IF LocalWithinSla(q) THEN "LOCAL" ELSE "QUEUE_LOCAL")

Plan(q) == IF q.tier = "QUALITY" THEN QualityPlan(q) ELSE FastPlan(q)

\* What a path asks the budget manager for.  The degraded path reads the local
\* estimate again but keeps the queue depth of the first read.
AskedCost(path) == IF path = "REMOTE" THEN COST_PER_REMOTE_REQUEST ELSE 0
AskedLatency(path, q, estLocal) ==
    CASE path = "REMOTE"      -> q.remote
      [] path = "LOCAL"       -> q.local
      [] path = "QUEUE_LOCAL" -> estLocal * (q.depth + 1)
=============================================================================
