SPECIFICATION FairSpec
CONSTANTS
  c1 = c1
  c2 = c2
  m1 = m1
  Callers = {c1, c2}
  Messages = {m1}
  NoMessage = NoMessage
  Exclusive = FALSE
  MaxLag = 0
  Timeout = 1
  Word = 16
  MaxTries = 2
  MaxBlock = 2
  MaxTime = 1
  MaxCalls = 2
INVARIANTS FlagHasPoller
PROPERTIES CallsReturn
CHECK_DEADLOCK FALSE
