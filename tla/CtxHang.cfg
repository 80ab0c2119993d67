SPECIFICATION FairSpec
CONSTANTS
    Socket = {s1}
    Temp = {t1}
    MaxSockets = 4
    None = none
    MaxConnects = 1
    MaxSignals = 0
PROPERTIES
    TermNeverHangs
CHECK_DEADLOCK FALSE
