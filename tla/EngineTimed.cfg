SPECIFICATION Spec
CONSTANTS
    Hwm = 2
    MaxFrames = 2
    MaxPings = 1
    MaxSent = 1
    MaxBoth = 2
    MaxConnections = 2
INVARIANT HandshakeTimed
CHECK_DEADLOCK FALSE
