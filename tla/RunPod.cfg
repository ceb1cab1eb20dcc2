CONSTANTS
    MaxFaults = 2
    MaxSignals = 2
CHECK_DEADLOCK FALSE
SPECIFICATION FairSpec

INVARIANTS PassedIsClean KnownPodAccounted ClientOutlivesTimer
PROPERTIES CostIsBounded RecoveryEnds
