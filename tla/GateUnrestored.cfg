CONSTANTS
    Members = 2
    MaxFaults = 1
    MaxSignals = 0
    MaxWriteFaults = 1
CHECK_DEADLOCK FALSE
SPECIFICATION Spec
INVARIANTS LeaseKeptUntilRestored
