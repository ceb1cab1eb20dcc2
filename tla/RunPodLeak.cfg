CONSTANTS
    MaxFaults = 1
    MaxSignals = 0
CHECK_DEADLOCK FALSE
SPECIFICATION Spec
INVARIANTS TeardownTruthful
