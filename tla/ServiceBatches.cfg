SPECIFICATION Spec
CONSTANTS
  o1 = o1
  o2 = o2
  r1 = r1
  r2 = r2
  r3 = r3
  r4 = r4
  Orders = {o1, o2}
  Requests = {r1, r3, r4}
  NoRow = NoRow
  Nobody = Nobody
  MaxRetries = 2
  Payers = {r1}
  Operators = {}
  Schedulers = {r3, r4}
  Seeded <- KnownOrders
PROPERTIES
  FollowsLifecycle
  Termination
