------------------------------ MODULE QueueLock ------------------------------
(***************************************************************************)
(* app/queue_monitor.py, await by await: the monitor's asyncio.Lock, its    *)
(* asyncio.Semaphore and its counter are separate steps.  acquire() awaits  *)
(* the semaphore while it holds the lock that release() needs, and a task   *)
(* may be cancelled wherever it is really suspended.  QueueMonitor is the   *)
(* atomic view of the same object, the one Gateway uses.                    *)
(***************************************************************************)
EXTENDS Integers, FiniteSets

CONSTANTS
    Tasks,
    LOCAL_QUEUE_CAPACITY,
    NoTask

ASSUME QueueLockAssumption ==
    /\ IsFiniteSet(Tasks)
    /\ LOCAL_QUEUE_CAPACITY \in Nat \ {0}
    /\ NoTask \notin Tasks

VARIABLES
    pc,             \* where each task is
    lock,           \* the task that holds _lock, or NoTask
    activeCount,    \* _active_count
    semaphore       \* permits left in _semaphore

vars == <<pc, lock, activeCount, semaphore>>

\* out; in acquire(): enter (waits for the lock), test, permit (waits for the
\* semaphore, lock held); inside the slot; in release(): exit (waits for the
\* lock), give; lost: cancelled in release(), its slot never given back.
Places == {"out", "enter", "test", "permit", "inside", "exit", "give", "lost"}

Init ==
    /\ pc = [t \in Tasks |-> "out"]
    /\ lock = NoTask
    /\ activeCount = 0
    /\ semaphore = LOCAL_QUEUE_CAPACITY

Move(t, place) == pc' = [pc EXCEPT ![t] = place]

-----------------------------------------------------------------------------
\* slot() is called: acquire() reaches its lock.
Enter(t) ==
    /\ pc[t] = "out"
    /\ Move(t, "enter")
    /\ UNCHANGED <<lock, activeCount, semaphore>>

\* The lock of acquire() or of release().
TakeLock(t) ==
    /\ pc[t] \in {"enter", "exit"}
    /\ lock = NoTask
    /\ lock' = t
    /\ Move(t, IF pc[t] = "enter" THEN "test" ELSE "give")
    /\ UNCHANGED <<activeCount, semaphore>>

\* Mutant: one caller too many passes the test.
Full_OffByOne == activeCount > LOCAL_QUEUE_CAPACITY

Full == activeCount >= LOCAL_QUEUE_CAPACITY

\* The test under the lock: acquire() returns False, and slot() raises, or it
\* goes on to the semaphore.
Test(t) ==
    /\ pc[t] = "test"
    /\ IF Full
         THEN Move(t, "out") /\ lock' = NoTask
         ELSE Move(t, "permit") /\ UNCHANGED lock
    /\ UNCHANGED <<activeCount, semaphore>>

\* Mutant: the lock is taken by hand and not released on return.
TakePermit_KeepsLock(t) ==
    /\ pc[t] = "permit"
    /\ semaphore > 0
    /\ semaphore' = semaphore - 1
    /\ activeCount' = activeCount + 1
    /\ Move(t, "inside")
    /\ UNCHANGED lock

\* The semaphore has a permit; acquire() counts the task in and returns True.
TakePermit(t) ==
    /\ pc[t] = "permit"
    /\ semaphore > 0
    /\ semaphore' = semaphore - 1
    /\ activeCount' = activeCount + 1
    /\ lock' = NoTask
    /\ Move(t, "inside")

\* The body of the slot ends, in any way: finally calls release().
Finish(t) ==
    /\ pc[t] = "inside"
    /\ Move(t, "exit")
    /\ UNCHANGED <<lock, activeCount, semaphore>>

\* Mutant: the permit is not given back.
Give_KeepsPermit(t) ==
    /\ pc[t] = "give"
    /\ activeCount' = activeCount - 1
    /\ lock' = NoTask
    /\ Move(t, "out")
    /\ UNCHANGED semaphore

\* release() under its lock.
Give(t) ==
    /\ pc[t] = "give"
    /\ IF activeCount > 0
         THEN /\ activeCount' = activeCount - 1
              /\ semaphore' = semaphore + 1
         ELSE UNCHANGED <<activeCount, semaphore>>
    /\ lock' = NoTask
    /\ Move(t, "out")

\* asyncio delivers a cancellation where a task is suspended: in the slot's
\* body, at a semaphore without permits, or at a lock whose holder is itself
\* suspended there.  A task that can go on does so without yielding.
AwaitsPermit(t) == pc[t] = "permit" /\ semaphore = 0
Suspended(t) ==
    \/ pc[t] = "inside"
    \/ AwaitsPermit(t)
    \/ /\ pc[t] \in {"enter", "exit"}
       /\ \E o \in Tasks : lock = o /\ AwaitsPermit(o)

\* Only the body's cancellation passes through finally; one that strikes in
\* release() itself loses the slot.
Cancel(t) ==
    /\ Suspended(t)
    /\ Move(t, CASE pc[t] = "inside" -> "exit"
                 [] pc[t] = "exit"   -> "lost"
                 [] OTHER            -> "out")
    /\ lock' = IF lock = t THEN NoTask ELSE lock
    /\ UNCHANGED <<activeCount, semaphore>>

-----------------------------------------------------------------------------
Step(t) == Test(t) \/ TakePermit(t) \/ Finish(t) \/ Give(t)

Next == \E t \in Tasks : Enter(t) \/ TakeLock(t) \/ Step(t) \/ Cancel(t)

\* Waiters of an asyncio.Lock are served first come first served, ready tasks
\* run and backend calls end.  Nobody has to come or to be cancelled.
Spec ==
    /\ Init
    /\ [][Next]_vars
    /\ \A t \in Tasks : WF_vars(Step(t)) /\ SF_vars(TakeLock(t))

-----------------------------------------------------------------------------
\* Properties

\* Where the tasks are agrees with who holds the lock, and neither the counter
\* nor the semaphore leaves 0..LOCAL_QUEUE_CAPACITY.
TypeOK ==
    /\ pc \in [Tasks -> Places]
    /\ lock \in Tasks \union {NoTask}
    /\ \A t \in Tasks : lock = t <=> pc[t] \in {"test", "permit", "give"}
    /\ activeCount \in 0..LOCAL_QUEUE_CAPACITY
    /\ semaphore \in 0..LOCAL_QUEUE_CAPACITY

\* acquire(): "Verified under lock - semaphore MUST have capacity; won't block."
\* It never waits for a permit with the lock held, so no release() has to wait
\* behind it, and no cancellation can strike inside release().
NeverWaitsLocked ==
    \A t \in Tasks : ~AwaitsPermit(t) /\ pc[t] # "lost"

Inside == {t \in Tasks : pc[t] \in {"inside", "exit", "give", "lost"}}
QM == INSTANCE QueueMonitor WITH Callers <- Tasks, holders <- Inside

\* Counted step by step, the monitor is the atomic one of QueueMonitor: slots
\* are taken and given back as if each call were one step.
ImplementsSlots == QM!Spec

\* Nobody is stuck in acquire() or release(): a task that asks for a slot is
\* inside or refused, and one that leaves gives its slot back.
NobodyStuck ==
    \A t \in Tasks :
        /\ (pc[t] = "enter") ~> (pc[t] \in {"inside", "out"})
        /\ (pc[t] = "exit") ~> (pc[t] = "out")
=============================================================================
