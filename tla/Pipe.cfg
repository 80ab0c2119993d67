SPECIFICATION FairSpec
CONSTANT
    Scenario <- All
INVARIANTS
    AssertionsHold
    MemorySafe
    NoLostActivation
    FlowControl
    DelayDelivers
PROPERTY
    Terminates
CHECK_DEADLOCK FALSE
