SPECIFICATION Spec
CONSTANTS
  o1 = o1
  o2 = o2
  Orders = {o1, o2}
  NoRow = NoRow
  BatchSizes = {0, 1, 2}
  MaxFaults = 1
INVARIANTS
  TypeOK
  NothingToldTooEarly
PROPERTIES
  EventsInOrder
  RoundEnds
  EveryOrderArrives
