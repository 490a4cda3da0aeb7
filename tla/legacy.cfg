SPECIFICATION Spec
CONSTANTS
  Keys = {1, 2, 3, 4}
  h = h
  n = n
  Hashes = {h, n}
  Instructions <- MCInstructions
  Nonces <- MCNonces
  None = None
  Wallets = {1, 2, 3}
  MaxEdits = 3
  MaxSigners = 2
INVARIANTS TypeOK WireIsSigned WireAsksWhatWasAsked SignedMessageStands SignersAreFound
CHECK_DEADLOCK FALSE
