SPECIFICATION Spec
CONSTANTS
  None = None
  m1 = m1
  m2 = m2
  Models = {m1, m2}
  Efforts = {"medium", "high"}
  Seeded <- McSeeded
  Sessions = {s1, s2}
  GlobalPatches <- McGlobalPatches
  RepositoryPatches <- McRepositoryPatches
  Deliveries = {d1, d2}
  Handlers = {h1, h2}
  MaxHead = 2
  MaxPending = 1
  MaxAttempts = 2
  Diffs <- McDiffs
  Outputs <- McOutputs
  Known <- McKnown
  Tree <- McTree
  Emergency = 2
  MaxChangedFiles = 2
  Ignored <- McIgnored
  Cases <- McCases
INVARIANTS
  TypeOK
  EffortsAreVerified
  StoredPairIsVerified
  ExplicitOverridesWin
  OneJobPerDelivery
  NoticesOnce
  EveryFindingAccounted
  CommentsOnAddedLines
  DuplicateKeepsWorst
  BudgetKeepsDefects
PROPERTIES
  OnlyVerificationReenables
  PagesWriteWhatTheyShowed
  ProcessedIsBacked
  ReviewsUseVerifiedPair
  EveryDeliverySettles
  EveryAdmittedJobEnds
CHECK_DEADLOCK FALSE
