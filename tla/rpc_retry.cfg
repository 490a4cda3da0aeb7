SPECIFICATION Spec
CONSTANTS
  r1 = r1
  b1 = b1
  Requests = {r1}
  Buffers = {b1}
  None = None
  MaxRetries = 2
INVARIANT RetryCarriesRequest
CHECK_DEADLOCK FALSE
