SPECIFICATION SuiteSpec
CONSTANTS
    Hosts = {1, 2, 3}
    Home = 1
    Eligible = {1, 2}
    Rounds = 1
    MaxSuiteFaults = 0
INVARIANTS
    PassIsExercised
