SPECIFICATION FairSpec
CONSTANT
    Scenario <- HiccupTerm
PROPERTY
    AlwaysTerminates
CHECK_DEADLOCK FALSE
