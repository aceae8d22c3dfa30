SPECIFICATION Spec
CONSTANTS
    Jobs = {1, 2}
    Commands = {2}
    Pulls = {p1}
    Heads = {1, 2}
    Policies = {s1, s2}
    None = None
    MaxPasses = 1
    Budget = 2
    GlobalLimit = 2
    RepoLimit = 1
    MaxAttempts = 2
    PostAttempts = 2
    MaxLost = 1
    MaxCrashes = 1
    MaxRecords = 2
    Aging = FALSE
    MaxOrphans = 0
    MaxRestarts = 1
    MaxFaults = 1
SYMMETRY Symmetry
CONSTRAINT Troubles
INVARIANTS
    TypeOK
    DuplicatesAreLost
    ReviewIsBacked
    NoRunForReviewedHead
    SuccessIsVisible
CHECK_DEADLOCK FALSE
