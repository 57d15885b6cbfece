---------------------------- MODULE QueueMonitor ----------------------------
(***************************************************************************)
(* app/queue_monitor.py: the slots of the local backend.  A plain counter,  *)
(* read without the lock, shadows an asyncio.Semaphore.  acquire() and      *)
(* release() hold the monitor's own lock throughout.                        *)
(***************************************************************************)
EXTENDS Integers, FiniteSets

CONSTANTS
    Callers,
    LOCAL_QUEUE_CAPACITY

VARIABLES
    activeCount,    \* _active_count
    semaphore,      \* permits left in _semaphore
    holders         \* callers inside `async with qm.slot()`

qmVars == <<activeCount, semaphore, holders>>

Init ==
    /\ activeCount = 0
    /\ semaphore = LOCAL_QUEUE_CAPACITY
    /\ holders = {}

IsAtCapacity == activeCount >= LOCAL_QUEUE_CAPACITY

\* Mutant: neither the capacity nor the permit is checked.
Acquire_Unchecked(r) ==
    /\ semaphore' = semaphore - 1
    /\ activeCount' = activeCount + 1
    /\ holders' = holders \union {r}

\* acquire() returning True.  It waits for a permit with the lock held, which
\* would stop every other caller for good if there were none.
Acquire(r) ==
    /\ ~IsAtCapacity
    /\ semaphore > 0
    /\ semaphore' = semaphore - 1
    /\ activeCount' = activeCount + 1
    /\ holders' = holders \union {r}

\* The finally of slot().  release() ignores a call with nothing to release.
Release(r) ==
    /\ holders' = holders \ {r}
    /\ IF activeCount > 0
         THEN /\ activeCount' = activeCount - 1
              /\ semaphore' = semaphore + 1
         ELSE UNCHANGED <<activeCount, semaphore>>

Next == \E r \in Callers :
    \/ r \notin holders /\ Acquire(r)
    \/ r \in holders /\ Release(r)

Spec == Init /\ [][Next]_qmVars

\* The counter, the semaphore and the callers inside a slot agree: the advisory
\* count never drifts and acquire() never waits for a permit with the lock held.
SlotsAgree ==
    /\ activeCount = Cardinality(holders)
    /\ semaphore = LOCAL_QUEUE_CAPACITY - activeCount
    /\ semaphore >= 0
=============================================================================
