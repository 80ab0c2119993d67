CONSTANTS
    Sender = {s1, s2, s3}
    Quota = 2
    NULL = NULL
SPECIFICATION FairSpec
INVARIANTS OneWakeUp SenderOrder NobodyInDeadMailbox
PROPERTY Received
CHECK_DEADLOCK FALSE
