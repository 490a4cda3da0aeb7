SPECIFICATION FairSpec
CONSTANTS
  Strategies = {"blockheight", "nonce", "timeout", "untyped"}
  Commitments = {"unset", "processed", "confirmed", "finalized"}
  LastValid = 1
  MaxHeight = 3
INVARIANTS TypeOK ConfirmationInv SeenMeansCommitted RightVerdict
PROPERTIES ExpiredIsFinal ConfirmReturns
CHECK_DEADLOCK FALSE
