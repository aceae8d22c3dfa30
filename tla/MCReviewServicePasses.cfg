SPECIFICATION FairSpec
CONSTANTS
    Jobs = {1, 2}
    Commands = {}
    Pulls = {p1}
    Heads = {1}
    Policies = {s1}
    None = None
    MaxPasses = 2
    Budget = 3
    GlobalLimit = 2
    RepoLimit = 2
    MaxAttempts = 1
    PostAttempts = 1
    MaxLost = 0
    MaxCrashes = 1
    MaxRecords = 4
    Aging = FALSE
    MaxOrphans = 0
    MaxRestarts = 0
    MaxFaults = 0
INVARIANT BudgetHolds
PROPERTY JobsEnd
CHECK_DEADLOCK FALSE
