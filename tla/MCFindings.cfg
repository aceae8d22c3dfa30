SPECIFICATION Spec
CONSTANTS
  None = None
  Diffs <- McDiffs
  Outputs <- McOutputs
  Known <- McKnown
  Tree <- McTree
  Emergency = 2
  MaxChangedFiles = 2
INVARIANTS
  CandidatesConserved
CHECK_DEADLOCK FALSE
