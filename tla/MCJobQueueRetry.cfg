SPECIFICATION Spec
CONSTANTS
  r1 = r1
  r2 = r2
  p1 = p1
  Workers = {w1}
  Webs = {e1}
  Repos = {r1}
  Pulls = {p1}
  RepoOf <- McRepoOf
  Heads = {h1}
  Comments = {c1}
  None = None
  MaxJobs = 2
  MaxAttempts = 2
  GlobalLimit = 1
  RepoLimit = 1
  MaxPending = 1
  MaxRepoPending = 1
  MaxCancels = 0
  Zombies = FALSE
  Commands = {"retry"}
INVARIANT RetriesAreEligible
CHECK_DEADLOCK FALSE
