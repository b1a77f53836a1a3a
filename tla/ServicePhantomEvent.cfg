SPECIFICATION Spec
CONSTANTS
  o1 = o1
  o2 = o2
  r1 = r1
  r2 = r2
  r3 = r3
  r4 = r4
  Orders = {o1}
  Requests = {r3, r4}
  NoRow = NoRow
  Nobody = Nobody
  MaxRetries = 3
  Payers = {}
  Operators = {r3}
  Schedulers = {r4}
  Seeded <- OrdersOnTheirWay
INVARIANTS
  BatchEventsTellUpdates
