CONSTANTS
    LeaseTtl = 6
    Interval = 1
    EmergencyTtl = 7
    MaxCall = 1
    JoinTimeout = 1
    MaxClock = 9
    MaxFaults = 1
CHECK_DEADLOCK FALSE
SPECIFICATION FairSpec
INVARIANTS HealthyLeaseIsHeld LossNoticed ReleasedForGood
PROPERTIES BoundaryEnds
