------------------------------- MODULE EventBus -------------------------------
(***************************************************************************)
(* app/event_bus.py, the log_* calls of app/observability.py that publish,  *)
(* and GET /events of app/main.py: every SSE connection has a bounded       *)
(* queue, publish() drops the oldest event of a full one, and the stream's  *)
(* generator delivers.  route_counts, shown by /summary, is incremented by  *)
(* the handler and again by every generator that delivers a decision.       *)
(*                                                                          *)
(* Events are numbered by their place in log, the history of everything     *)
(* published.  Starlette, which drives the generators, is external: it may  *)
(* cancel the stream of a client that has gone, and need not.               *)
(***************************************************************************)
EXTENDS Integers, Sequences, FiniteSets

CONSTANTS
    Clients,            \* connections to /events
    MAX_QUEUE_SIZE,
    MaxEvents           \* bound: how many events are published

ASSUME EventBusAssumption ==
    /\ IsFiniteSet(Clients)
    /\ MAX_QUEUE_SIZE \in Nat \ {0}
    /\ MaxEvents \in Nat

\* route_decision; the fail_fast of a FAIL_FAST decision; run_start with reset;
\* execution_complete, rollback_event, run_complete, run_start without reset and
\* the fail_fast of a refused slot, which touch no counter.
Kinds == {"decision", "fail_fast", "reset", "other"}

VARIABLES
    log,            \* the kinds of the events published so far
    subscribers,    \* clients whose queue is in _subscribers
    queues,         \* their queues
    stream,         \* where each client's generator is
    online,         \* the client is still connected
    joined,         \* Len(log) when it subscribed
    got,            \* the events its generator took from the queue to send
    counts          \* route_counts: LOCAL, REMOTE and QUEUE_LOCAL together, FAIL_FAST

clientVars == <<subscribers, stream, online, joined, got>>
vars == <<log, queues, clientVars, counts>>

\* opening: before the first chunk.  turn, wait: the loop's disconnect test and
\* its q.get().  closed: finally has run.  dropped: it never will.
Streams == {"none", "opening", "turn", "wait", "closed", "dropped"}

TypeOK ==
    /\ log \in Seq(Kinds) /\ Len(log) <= MaxEvents
    /\ subscribers \subseteq Clients
    /\ \A c \in Clients : queues[c] \in Seq(DOMAIN log) /\ Len(queues[c]) <= MAX_QUEUE_SIZE
    /\ stream \in [Clients -> Streams]
    /\ online \in [Clients -> BOOLEAN]
    /\ joined \in [Clients -> 0..MaxEvents]
    /\ \A c \in Clients : got[c] \in Seq(DOMAIN log)
    /\ counts \in [served : Nat, failed : Nat]

NoCounts == [served |-> 0, failed |-> 0]

Init ==
    /\ log = <<>>
    /\ subscribers = {}
    /\ queues = [c \in Clients |-> <<>>]
    /\ stream = [c \in Clients |-> "none"]
    /\ online = [c \in Clients |-> FALSE]
    /\ joined = [c \in Clients |-> 0]
    /\ got = [c \in Clients |-> <<>>]
    /\ counts = NoCounts

-----------------------------------------------------------------------------
\* Publishing

\* Mutants: a full queue drops the new event; a queue is never full.
PushBounded_DropsNew(q, e) == IF Len(q) < MAX_QUEUE_SIZE THEN Append(q, e) ELSE q
PushBounded_Unbounded(q, e) == Append(q, e)

\* put_nowait, after get_nowait when the queue is full.
PushBounded(q, e) == Append(IF Len(q) >= MAX_QUEUE_SIZE THEN Tail(q) ELSE q, e)

\* publish() hands the event to every queue in _subscribers.
Publish(kind) ==
    /\ Len(log) < MaxEvents
    /\ log' = Append(log, kind)
    /\ queues' = [c \in Clients |-> IF c \in subscribers
                                      THEN PushBounded(queues[c], Len(log) + 1)
                                      ELSE queues[c]]
    /\ UNCHANGED clientVars

\* The handler counts a decision, then logs it.
Decide == Publish("decision") /\ counts' = [counts EXCEPT !.served = @ + 1]
FailFast == Publish("fail_fast") /\ counts' = [counts EXCEPT !.failed = @ + 1]

\* run_start with reset begins new counters.
ResetCounts == Publish("reset") /\ counts' = NoCounts

LogOther == Publish("other") /\ UNCHANGED counts

-----------------------------------------------------------------------------
\* GET /events

\* subscribe(), when the request is handled and before the stream starts.
Connect(c) ==
    /\ stream[c] = "none"
    /\ subscribers' = subscribers \union {c}
    /\ stream' = [stream EXCEPT ![c] = "opening"]
    /\ online' = [online EXCEPT ![c] = TRUE]
    /\ joined' = [joined EXCEPT ![c] = Len(log)]
    /\ UNCHANGED <<log, queues, got, counts>>

\* The client goes away; the generator finds out later, if at all.
Disconnect(c) ==
    /\ online[c]
    /\ online' = [online EXCEPT ![c] = FALSE]
    /\ UNCHANGED <<log, queues, subscribers, stream, joined, got, counts>>

Go(c, s) == stream' = [stream EXCEPT ![c] = s]

\* The first chunk is sent; it is yielded before the try.
Open(c) ==
    /\ stream[c] = "opening"
    /\ Go(c, "turn")
    /\ UNCHANGED <<log, queues, subscribers, online, joined, got, counts>>

\* The finally of the generator: unsubscribe().
Close(c) ==
    /\ Go(c, "closed")
    /\ subscribers' = subscribers \ {c}
    /\ UNCHANGED <<log, queues, online, joined, got, counts>>

\* is_disconnected(), at the top of the loop.
FindGone(c) == stream[c] = "turn" /\ ~online[c] /\ Close(c)
FindConnected(c) ==
    /\ stream[c] = "turn"
    /\ online[c]
    /\ Go(c, "wait")
    /\ UNCHANGED <<log, queues, subscribers, online, joined, got, counts>>

\* Mutant: the generator counts rejections too.
CountsDelivered_Rejections(kind) ==
    CASE kind = "decision"  -> [counts EXCEPT !.served = @ + 1]
      [] kind = "fail_fast" -> [counts EXCEPT !.failed = @ + 1]
      [] OTHER              -> counts

\* A delivered route_decision is counted in the route_counts of the moment.
CountsDelivered(kind) ==
    IF kind = "decision" THEN [counts EXCEPT !.served = @ + 1] ELSE counts

\* q.get() returns; the event is counted and sent.
Deliver(c) ==
    /\ stream[c] = "wait"
    /\ queues[c] # <<>>
    /\ queues' = [queues EXCEPT ![c] = Tail(@)]
    /\ got' = [got EXCEPT ![c] = Append(@, Head(queues[c]))]
    /\ counts' = CountsDelivered(log[Head(queues[c])])
    /\ Go(c, "turn")
    /\ UNCHANGED <<log, subscribers, online, joined>>

\* Mutant: q.get() is awaited without a timeout.
TimesOut_Never(c) == FALSE

TimesOut(c) == stream[c] = "wait" /\ queues[c] = <<>>

\* No event for 15 s: a comment line is sent and the loop turns.
Heartbeat(c) ==
    /\ TimesOut(c)
    /\ Go(c, "turn")
    /\ UNCHANGED <<log, queues, subscribers, online, joined, got, counts>>

\* Mutant: the loop has no finally.
Cancelled_NoFinally(c) == /\ Go(c, "dropped")
                          /\ UNCHANGED <<log, queues, subscribers, online, joined, got, counts>>

\* Inside the try a cancelled or abandoned generator runs its finally; at its
\* first chunk it is outside, and nothing unsubscribes the queue.
Cancelled(c) ==
    IF stream[c] = "opening"
      THEN /\ Go(c, "dropped")
           /\ UNCHANGED <<log, queues, subscribers, online, joined, got, counts>>
      ELSE Close(c)

\* Starlette cancels the stream of a client that has gone.
CancelStream(c) ==
    /\ ~online[c]
    /\ stream[c] \in {"opening", "turn", "wait"}
    /\ Cancelled(c)

-----------------------------------------------------------------------------
Turn(c) == Open(c) \/ FindGone(c) \/ FindConnected(c) \/ Deliver(c) \/ Heartbeat(c)

Next ==
    \/ Decide \/ FailFast \/ ResetCounts \/ LogOther
    \/ \E c \in Clients : Connect(c) \/ Disconnect(c) \/ Turn(c) \/ CancelStream(c)

\* A generator that can go on does.  Nobody has to publish, connect or leave.
Spec == Init /\ [][Next]_vars /\ \A c \in Clients : WF_vars(Turn(c))

-----------------------------------------------------------------------------
\* The abstract specification

\* The next event a subscriber gets: its queue holds the newest ones.
Cursor == [c \in Clients |-> IF c \in subscribers THEN Len(log) + 1 - Len(queues[c]) ELSE 0]

Shared == INSTANCE SharedLog WITH
    Readers <- Clients,
    Retention <- MAX_QUEUE_SIZE,
    size <- Len(log),
    members <- subscribers,
    cursor <- Cursor,
    read <- got

-----------------------------------------------------------------------------
\* Properties

\* The private queues behave as cursors into one log of the newest
\* MAX_QUEUE_SIZE events: publish() moves only the cursors it has overtaken, and
\* a stream's generator takes exactly the event under its cursor.
ImplementsSharedLog == Shared!Spec

\* What a stream has taken and what still is in its queue are events published since
\* it subscribed, in order and each once.  A subscriber's queue ends with the
\* newest event, and it misses an event only when MAX_QUEUE_SIZE newer ones have
\* been published.
StreamFaithful ==
    \A c \in Clients :
        LET seen == got[c] \o queues[c] IN
        /\ \A i, j \in DOMAIN seen : i < j => seen[i] < seen[j]
        /\ \A i \in DOMAIN seen : seen[i] > joined[c]
        /\ c \in subscribers =>
              \A e \in joined[c] + 1 .. Len(log) :
                 (\A i \in DOMAIN seen : seen[i] # e) => e + MAX_QUEUE_SIZE <= Len(log)

\* A queue stays on the bus exactly as long as its stream, on every way out of
\* the loop; only a stream cancelled before its first chunk leaves it behind.
OnBusWhileStreaming ==
    \A c \in Clients :
        /\ c \in subscribers <=> stream[c] \notin {"none", "closed"}
        /\ stream[c] = "dropped" => got[c] = <<>> /\ ~online[c]

\* The events since the counters were last reset.
SinceReset(kind) ==
    {i \in DOMAIN log : log[i] = kind /\ \A j \in i + 1 .. Len(log) : log[j] # "reset"}

\* Rejections are counted once, and as long as no event stream is opened so are
\* served requests: nothing but a stream's delivery counts a decision twice.
CountsUnlessStreamed ==
    /\ counts.failed = Cardinality(SinceReset("fail_fast"))
    /\ (\A c \in Clients : got[c] = <<>>) =>
          counts.served = Cardinality(SinceReset("decision"))

\* A client that leaves while its stream runs is unsubscribed, even if nothing
\* is ever published again.
GoneIsUnsubscribed ==
    \A c \in Clients : (stream[c] \in {"turn", "wait"} /\ ~online[c])
                           ~> (c \notin subscribers)

-----------------------------------------------------------------------------
\* What the documentation says and the code does not do

\* GET /summary: "per-route counts accumulated since server start".
CountedOnce == counts.served <= Cardinality({i \in DOMAIN log : log[i] = "decision"})
=============================================================================
