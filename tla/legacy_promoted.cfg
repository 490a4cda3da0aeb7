SPECIFICATION Spec
CONSTANTS
  h = h
  n = n
  Keys = {1, 2, 3, 4}
  Hashes = {h, n}
  Instructions <- MCInstructions
  Nonces <- MCNonces
  Wallets = {1, 2, 3}
  None = None
  MaxEdits = 3
  MaxSigners = 3
INVARIANT HeaderDescribesKeys
CHECK_DEADLOCK FALSE
