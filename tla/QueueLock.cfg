SPECIFICATION Spec
CONSTANTS
    Tasks = {t1, t2, t3, t4}
    LOCAL_QUEUE_CAPACITY = 2
    NoTask = NoTask
INVARIANTS
    NeverWaitsLocked
PROPERTIES
    ImplementsSlots
    NobodyStuck
