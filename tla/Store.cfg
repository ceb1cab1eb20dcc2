CONSTANTS
    main = main
    beat = beat
    rival = rival
    mac = mac
    cluster = cluster
    m = m
    r = r
    fleet = fleet
    den = den
    Procs = {main, beat, rival}
    NoProc = NoProc
    Holders = {mac, cluster}
    NoHolder = NoHolder
    HolderOf <- ThreeHolderOf
    CloneOf <- ThreeCloneOf
    Clones = {m, r}
    Segments = {fleet}
    Ttls = {1}
    MaxClock = 1
    MaxOps = 1
    MaxFaults = 1
CHECK_DEADLOCK FALSE
SPECIFICATION Spec
SYMMETRY Threads
INVARIANTS MutualExclusion ClaimBacked
PROPERTIES ImplementsLease
