CONSTANTS
    Ids = {a, b}
    NoId = NoId
    ReadyTime = 4
    AppearanceTime = 2
    TotalTime = 10
    PollInterval = 1
    MaxCall = 1
CHECK_DEADLOCK FALSE
SPECIFICATION Spec
INVARIANTS WaitBounded FullAllowance GapsAreBridged ChurnIsChurn KnownFailureNamed
