SPECIFICATION Spec
CONSTANTS
    Clients = {c1, c2}
    MAX_QUEUE_SIZE = 2
    MaxEvents = 3
CHECK_DEADLOCK FALSE
INVARIANTS
    TypeOK
    StreamFaithful
    OnBusWhileStreaming
    CountsUnlessStreamed
PROPERTIES
    ImplementsSharedLog
    GoneIsUnsubscribed
