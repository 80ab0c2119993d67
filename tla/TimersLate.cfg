SPECIFICATION EngineSpec
CONSTANTS
    Kinds = {"epoll"}
    Fd = {1}
    MaxRegs = 1
    MaxOps = 1
    Handshake = 1
    Interval = 2
    Timeout = 3
    Ttls = {3}
    Scale = 1
    Width = 8
    MaxTime = 8
INVARIANTS CancelCancels
CHECK_DEADLOCK FALSE
