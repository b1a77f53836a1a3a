CONSTANTS
  m1 = m1
  m2 = m2
  w1 = w1
  Messages = {m1}
  Malformed = {}
  MaxCopies = 2
  Workers = {w1}
  Prefetch = 2
  MaxWire = 2
  HeaderType = "int32"
  None = None
SPECIFICATION Spec
INVARIANT
  RetryCountIncreases
