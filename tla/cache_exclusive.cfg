SPECIFICATION FairSpec
CONSTANTS
  c1 = c1
  c2 = c2
  m1 = m1
  m2 = m2
  Callers = {c1, c2}
  Messages = {m1, m2}
  NoMessage = NoMessage
  Exclusive = TRUE
  MaxLag = 0
  Timeout = 2
  Word = 16
  MaxTries = 2
  MaxBlock = 3
  MaxTime = 2
  MaxCalls = 3
INVARIANTS TypeOK LedgerInv
PROPERTIES HitIsYoung ImplementsLedger CallsReturn
CHECK_DEADLOCK FALSE
