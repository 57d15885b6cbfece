--------------------------- MODULE QueueLockProofs ---------------------------
(***************************************************************************)
(* app/queue_monitor.py for any number of tasks and any capacity: acquire() *)
(* never waits for a permit under the lock, and the monitor, await by       *)
(* await, implements the atomic one of QueueMonitor.                        *)
(***************************************************************************)
EXTENDS QueueLock, FiniteSetTheorems, TLAPS

\* The counter counts the tasks inside, the semaphore has the rest, and a task
\* past the test of acquire() has been promised a permit: only the holder of the
\* lock changes the counter, so the test still holds.
SlotInv ==
    /\ TypeOK
    /\ activeCount = Cardinality(Inside)
    /\ semaphore = LOCAL_QUEUE_CAPACITY - activeCount
    /\ \A t \in Tasks : pc[t] = "permit" => ~Full
    /\ \A t \in Tasks : pc[t] # "lost"

-----------------------------------------------------------------------------
\* The tasks inside are finitely many; one more or one less changes their
\* number by one.
LEMMA InsideFinite ==
  /\ IsFiniteSet(Inside)
  /\ Cardinality(Inside) \in Nat
  /\ \A t \in Inside : Cardinality(Inside \ {t}) = Cardinality(Inside) - 1
  /\ \A t : t \notin Inside => Cardinality(Inside \union {t}) = Cardinality(Inside) + 1
<1>1. IsFiniteSet(Inside)
  <2>1. Inside \in SUBSET Tasks
    BY DEF Inside
  <2> QED
    BY <2>1, QueueLockAssumption, FS_Subset
<1> QED
  BY <1>1, FS_CardinalityType, FS_AddElement, FS_RemoveElement

\* A task inside is counted.
LEMMA InsideCounted ==
  ASSUME SlotInv, NEW t \in Inside
  PROVE  activeCount > 0
<1>1. Cardinality(Inside) # 0
  BY InsideFinite, FS_EmptySet
<1> QED
  BY <1>1, InsideFinite DEF SlotInv

\* The invariant excludes a wait under the lock.
LEMMA PermitReady ==
  ASSUME SlotInv, NEW t \in Tasks
  PROVE  ~AwaitsPermit(t)
BY QueueLockAssumption DEF SlotInv, TypeOK, AwaitsPermit, Full

\* A step that moves one task without passing the border of the slot, and leaves
\* the counter and the semaphore alone, keeps the set of tasks inside.
LEMMA InsideKept ==
  ASSUME SlotInv, NEW t \in Tasks, NEW place \in Places, Move(t, place),
         t \in Inside <=> place \in {"inside", "exit", "give", "lost"}
  PROVE  Inside' = Inside
BY DEF SlotInv, TypeOK, Inside, Move

-----------------------------------------------------------------------------
\* Nobody is inside a new monitor.
LEMMA SlotInit == Init => SlotInv
<1> SUFFICES ASSUME Init
             PROVE  SlotInv
  OBVIOUS
<1>1. Inside = {}
  BY DEF Init, Inside
<1>2. Cardinality(Inside) = 0
  BY <1>1, FS_EmptySet
<1> QED
  BY <1>2, QueueLockAssumption DEF Init, SlotInv, TypeOK, Places

\* Asking for a slot and finishing its body change no counter.
LEMMA ApproachStep ==
  ASSUME SlotInv, NEW t \in Tasks, Enter(t) \/ Finish(t)
  PROVE  SlotInv' /\ Inside' = Inside
<1>1. Inside' = Inside
  BY InsideKept DEF SlotInv, TypeOK, Inside, Enter, Finish, Places
<1> QED
  BY <1>1 DEF SlotInv, TypeOK, Enter, Finish, Move, Places, Full

\* Neither does taking the lock.
LEMMA TakeLockStep ==
  ASSUME SlotInv, NEW t \in Tasks, TakeLock(t)
  PROVE  SlotInv' /\ Inside' = Inside
<1>1. Inside' = Inside
  BY DEF SlotInv, TypeOK, Inside, TakeLock, Move
<1>2. TypeOK'
  BY QueueLockAssumption DEF SlotInv, TypeOK, TakeLock, Move, Places
<1> QED
  BY <1>1, <1>2 DEF SlotInv, TypeOK, TakeLock, Move, Full

\* The test of acquire() leads to the semaphore only when there is room.
LEMMA TestStep ==
  ASSUME SlotInv, NEW t \in Tasks, Test(t)
  PROVE  SlotInv' /\ Inside' = Inside
<1>1. Inside' = Inside
  BY DEF SlotInv, TypeOK, Inside, Test, Move
<1>2. TypeOK'
  BY QueueLockAssumption DEF SlotInv, TypeOK, Test, Move, Places
<1> QED
  BY <1>1, <1>2 DEF SlotInv, TypeOK, Test, Move, Full

\* acquire() takes the permit it was promised and counts the task in.
LEMMA TakePermitStep ==
  ASSUME SlotInv, NEW t \in Tasks, TakePermit(t)
  PROVE  /\ SlotInv'
         /\ t \notin Inside
         /\ Inside' = Inside \union {t}
<1>1. t \notin Inside /\ Inside' = Inside \union {t}
  BY DEF SlotInv, TypeOK, Inside, TakePermit, Move
<1>2. Cardinality(Inside') = Cardinality(Inside) + 1
  BY <1>1, InsideFinite
<1>3. activeCount + 1 \in 0..LOCAL_QUEUE_CAPACITY /\ semaphore - 1 \in 0..LOCAL_QUEUE_CAPACITY
  BY QueueLockAssumption DEF SlotInv, TypeOK, TakePermit, Full
<1>4. TypeOK'
  BY <1>3, QueueLockAssumption DEF SlotInv, TypeOK, TakePermit, Move, Places
<1>5. \A u \in Tasks : pc'[u] # "permit" /\ pc'[u] # "lost"
  BY QueueLockAssumption DEF SlotInv, TypeOK, TakePermit, Move
<1>6. activeCount' = Cardinality(Inside') /\ semaphore' = LOCAL_QUEUE_CAPACITY - activeCount'
  BY <1>2, QueueLockAssumption DEF SlotInv, TypeOK, TakePermit
<1> QED
  BY <1>1, <1>4, <1>5, <1>6 DEF SlotInv

\* release() finds its task counted and gives both back.
LEMMA GiveStep ==
  ASSUME SlotInv, NEW t \in Tasks, Give(t)
  PROVE  /\ SlotInv'
         /\ t \in Inside
         /\ Inside' = Inside \ {t}
         /\ activeCount > 0
<1>1. t \in Inside /\ Inside' = Inside \ {t}
  BY DEF SlotInv, TypeOK, Inside, Give, Move
<1>2. Cardinality(Inside') = Cardinality(Inside) - 1
  BY <1>1, InsideFinite
<1>3. activeCount > 0
  BY <1>1, InsideCounted
<1>4. activeCount - 1 \in 0..LOCAL_QUEUE_CAPACITY /\ semaphore + 1 \in 0..LOCAL_QUEUE_CAPACITY
  BY <1>3, QueueLockAssumption DEF SlotInv, TypeOK
<1>5. TypeOK'
  BY <1>3, <1>4, QueueLockAssumption DEF SlotInv, TypeOK, Give, Move, Places
<1>6. \A u \in Tasks : pc'[u] # "permit" /\ pc'[u] # "lost"
  BY QueueLockAssumption DEF SlotInv, TypeOK, Give, Move
<1>7. activeCount' = Cardinality(Inside') /\ semaphore' = LOCAL_QUEUE_CAPACITY - activeCount'
  BY <1>2, <1>3, QueueLockAssumption DEF SlotInv, TypeOK, Give
<1> QED
  BY <1>1, <1>3, <1>5, <1>6, <1>7 DEF SlotInv

\* A cancellation strikes in the body of the slot only, whose finally runs.
LEMMA CancelStep ==
  ASSUME SlotInv, NEW t \in Tasks, Cancel(t)
  PROVE  SlotInv' /\ Inside' = Inside
<1>1. pc[t] = "inside"
  BY PermitReady DEF Cancel, Suspended
<1>2. Move(t, "exit") /\ UNCHANGED <<activeCount, semaphore>>
  BY <1>1 DEF Cancel
<1>3. lock' = lock
  BY <1>1, QueueLockAssumption DEF Cancel, SlotInv, TypeOK
<1>4. Inside' = Inside
  BY <1>1, <1>2 DEF SlotInv, TypeOK, Inside, Move
<1> QED
  BY <1>1, <1>2, <1>3, <1>4 DEF SlotInv, TypeOK, Move, Places, Full

\* Every step keeps the invariant.
LEMMA SlotNext == SlotInv /\ [Next]_vars => SlotInv'
<1> SUFFICES ASSUME SlotInv, [Next]_vars
             PROVE  SlotInv'
  OBVIOUS
<1>1. CASE UNCHANGED vars
  BY <1>1 DEF vars, SlotInv, TypeOK, Inside, Full
<1>2. ASSUME NEW t \in Tasks, Enter(t) \/ TakeLock(t) \/ Step(t) \/ Cancel(t)
      PROVE  SlotInv'
  BY <1>2, ApproachStep, TakeLockStep, TestStep, TakePermitStep, GiveStep, CancelStep DEF Step
<1> QED
  BY <1>1, <1>2 DEF Next

\* The invariant holds throughout.
LEMMA SlotsCorrect == Spec => []SlotInv
BY SlotInit, SlotNext, PTL DEF Spec

-----------------------------------------------------------------------------
\* Whatever the tasks do, the lock has at most the holder its tasks' places say,
\* and neither the counter nor the semaphore leaves its range.
THEOREM SlotTypes == Spec => []TypeOK
<1>1. SlotInv => TypeOK
  BY DEF SlotInv
<1> QED
  BY <1>1, SlotsCorrect, PTL

\* acquire() never waits for a permit while it holds the lock that release()
\* needs, and no cancellation loses a slot, for any number of tasks.
THEOREM NoWaitUnderLock == Spec => []NeverWaitsLocked
<1>1. SlotInv => NeverWaitsLocked
  BY PermitReady DEF SlotInv, NeverWaitsLocked
<1> QED
  BY <1>1, SlotsCorrect, PTL

\* The monitor with its lock, its semaphore and its counter as separate steps
\* implements the atomic monitor.
THEOREM MonitorAtomic == Spec => ImplementsSlots
<1>1. Init => QM!Init
  BY DEF Init, QM!Init, Inside
<1>2. ASSUME SlotInv, [Next]_vars
      PROVE  [QM!Next]_(QM!qmVars)
  <2>1. CASE UNCHANGED vars
    BY <2>1 DEF vars, Inside, QM!qmVars
  <2>2. ASSUME NEW t \in Tasks, Enter(t) \/ Finish(t) \/ TakeLock(t) \/ Test(t) \/ Cancel(t)
        PROVE  UNCHANGED QM!qmVars
    <3>1. Inside' = Inside
      BY <1>2, <2>2, ApproachStep, TakeLockStep, TestStep, CancelStep
    <3>2. UNCHANGED <<activeCount, semaphore>>
      BY <2>2 DEF Enter, Finish, TakeLock, Test, Cancel
    <3> QED
      BY <3>1, <3>2 DEF QM!qmVars
  <2>3. ASSUME NEW t \in Tasks, TakePermit(t)
        PROVE  QM!Next
    <3>1. t \notin Inside /\ Inside' = Inside \union {t}
      BY <1>2, <2>3, TakePermitStep
    <3>2. ~QM!IsAtCapacity
      BY <1>2, <2>3 DEF SlotInv, TakePermit, Full, QM!IsAtCapacity
    <3>3. QM!Acquire(t)
      BY <2>3, <3>1, <3>2 DEF TakePermit, QM!Acquire
    <3> QED
      BY <3>1, <3>3 DEF QM!Next
  <2>4. ASSUME NEW t \in Tasks, Give(t)
        PROVE  QM!Next
    <3>1. t \in Inside /\ Inside' = Inside \ {t}
      BY <1>2, <2>4, GiveStep
    <3>2. QM!Release(t)
      BY <2>4, <3>1 DEF Give, QM!Release
    <3> QED
      BY <3>1, <3>2 DEF QM!Next
  <2> QED
    BY <1>2, <2>1, <2>2, <2>3, <2>4 DEF Next, Step
<1> QED
  BY <1>1, <1>2, SlotsCorrect, PTL DEF Spec, ImplementsSlots, QM!Spec
=============================================================================
