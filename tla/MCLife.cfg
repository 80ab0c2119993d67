SPECIFICATION LifeSpec
CONSTANTS
    Socket = {s1, s2}
    Temp = {t1}
    MaxSockets = 4
    None = none
    MaxConnects = 1
    MaxSignals = 1
    Object = {root, session, connecter}
    Root = root
    Deferring = {session}
    NoOwner = noOwner
    Announced = {root}
    MaxPromises = 1
INVARIANTS
    NoDeadSocketReached
    DoneMeansEmpty
    BoundMeansConnected
    NoUseAfterFree
    AcksBalance
PROPERTIES
    TermReturns
    TreeGoes
CHECK_DEADLOCK FALSE
