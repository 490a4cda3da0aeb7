SPECIFICATION Spec
CONSTANTS
  Strategies = {"blockheight"}
  Commitments = {"confirmed", "finalized"}
  LastValid = 1
  MaxHeight = 2
INVARIANT OkMeansCommitted
CHECK_DEADLOCK FALSE
