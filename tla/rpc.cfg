SPECIFICATION FairSpec
CONSTANTS
  r1 = r1
  r2 = r2
  b1 = b1
  b2 = b2
  Requests = {r1, r2}
  Buffers = {b1, b2}
  None = None
  MaxRetries = 3
INVARIANTS TypeOK BuffersExclusive BodiesAreOwn
PROPERTIES CallsReturn
CHECK_DEADLOCK FALSE
