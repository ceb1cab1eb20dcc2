SPECIFICATION Spec
CONSTANTS
    Workers = {w1, w2, w3}
    PerWorker = 2
    MaxLoadFaults = 2
    Nodes = {1, 2, 3}
    FirstServing = {1}
    Requests = {1, 2, 3}
    MaxDataFaults = 1
    LastOwner = 2
    Turns = 2
    Slots = 2
    MaxRealtimeFaults = 2
    OwnModel = own
    Others = {m1, m2}
    MaxSpeechFaults = 2
    Tools = {t1, t2}
    Words = {x1, x2}
    Target = 3
    MaxTurns = 3
    Voiced = 2
    MaxSessionFaults = 1
    Hosts = {1, 2, 3}
    Home = 1
    Eligible = {1, 2}
    Rounds = 1
    MaxSuiteFaults = 1
    MaxAttempts = 4
    MaxItems = 4
    Self = s
    Peers = {p1, p2}
    Routes = {r1, r2, r3}
INVARIANTS
    LoadVerdict
    PassIsEvidence
    NoFalseAlarm
    PassIsServed
    PatientEnough
    LeftBehindKnown
    PassIsAnswered
    WordErrorsAreDistance
    NeverFailsItself
    FailoverRestores
    SparesOperators
    MutationOnce
