CONSTANTS
    Members = 3
    MaxFaults = 3
    MaxWriteFaults = 2
    MaxSignals = 2
CHECK_DEADLOCK FALSE
SPECIFICATION FairSpec
INVARIANTS PassedIsRestored UnrestoredIsCritical LeaseKeptIfReported
PROPERTIES GateEnds StoppedIsRestarted
