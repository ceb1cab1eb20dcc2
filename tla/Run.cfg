CONSTANTS
    LastModel = 2
    Ids = {a, b}
    NoId = NoId
    MaxTrouble = 2
SYMMETRY Symmetry
CHECK_DEADLOCK FALSE
SPECIFICATION Spec
INVARIANTS OperatorKept LeakExplained AccountedFor
PROPERTIES EvictedIsIdle
