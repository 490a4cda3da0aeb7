SPECIFICATION FairSpec
CONSTANTS
  Strategies = {"nonce"}
  Commitments = {"processed"}
  LastValid = 1
  MaxHeight = 3
PROPERTY NonceExpiryReturns
CHECK_DEADLOCK FALSE
