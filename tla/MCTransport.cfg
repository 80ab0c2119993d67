SPECIFICATION Spec
CONSTANTS
    Types = {"REQ", "REP", "DEALER", "ROUTER", "PUB", "SUB", "PUSH", "PULL", "PAIR"}
    Chunk = {c1, c2, c3, c4}
    NULL = NULL
    Junk = Junk
    Sender = {s1, s2}
    Thread = {t1, t2, p1}
    Poller = {p1}
INVARIANTS
    QueueIntact
    NobodyAsleep
    NothingLost
    TransportAssertionsHold
    StreamsWhole
    NobodyWaits
    ReadyMeansAgreed
    SharedMemory
CHECK_DEADLOCK FALSE
