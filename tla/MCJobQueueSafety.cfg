SPECIFICATION Spec
CONSTANTS
  r1 = r1
  r2 = r2
  p1 = p1
  Workers = {w1, w2}
  Webs = {e1, e2}
  Repos = {r1}
  Pulls = {p1}
  RepoOf <- McRepoOf
  Heads = {h1, h2}
  Comments = {c1, c2}
  None = None
  MaxJobs = 2
  MaxAttempts = 2
  GlobalLimit = 2
  RepoLimit = 1
  MaxPending = 1
  MaxRepoPending = 1
  MaxCancels = 1
  Zombies = FALSE
  Commands = {"pause", "skip", "retry"}
SYMMETRY Symmetry
INVARIANT TypeOK
INVARIANT RunningWithinLimits
INVARIANT FreshWithinCapacity
INVARIANT OneFreshAutoPerPull
INVARIANT Ownership
INVARIANT AttemptsBounded
INVARIANT OneCommandPerHead
PROPERTY NoStartWhilePaused
PROPERTY LifecycleSpec
CHECK_DEADLOCK FALSE
