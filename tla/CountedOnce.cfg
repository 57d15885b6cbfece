SPECIFICATION Spec
CONSTANTS
    Clients = {c1}
    MAX_QUEUE_SIZE = 2
    MaxEvents = 2
CHECK_DEADLOCK FALSE
INVARIANTS
    CountedOnce
