\* One worker, so that workerChan holds two deliveries and can be full.
CONSTANTS
  m1 = m1
  m2 = m2
  w1 = w1
  Messages = {m1, m2}
  Malformed = {m2}
  MaxCopies = 3
  Workers = {w1}
  Prefetch = 2
  MaxWire = 2
  HeaderType = "int32"
  None = None
SPECIFICATION Spec
INVARIANTS
  TypeOK
  NoMessageLost
  EachDeliverySettledOnce
PROPERTIES
  DeliveriesEnd
