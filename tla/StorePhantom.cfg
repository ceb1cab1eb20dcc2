CONSTANTS
    main = main
    beat = beat
    rival = rival
    mac = mac
    cluster = cluster
    m = m
    r = r
    fleet = fleet
    den = den
    Procs = {main, rival}
    NoProc = NoProc
    Holders = {mac, cluster}
    NoHolder = NoHolder
    HolderOf <- SharedHolderOf
    CloneOf <- SharedCloneOf
    Clones = {m}
    Segments = {fleet}
    Ttls = {1}
    MaxClock = 0
    MaxOps = 1
    MaxFaults = 1
CHECK_DEADLOCK FALSE
SPECIFICATION Spec
INVARIANTS ReadsLatest
