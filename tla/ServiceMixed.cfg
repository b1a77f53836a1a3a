SPECIFICATION Spec
CONSTANTS
  o1 = o1
  o2 = o2
  r1 = r1
  r2 = r2
  r3 = r3
  r4 = r4
  Orders = {o1}
  Requests = {r1, r2, r3, r4}
  NoRow = NoRow
  Nobody = Nobody
  MaxRetries = 2
  Payers = {r1, r2}
  Operators = {r3}
  Schedulers = {r4}
  Seeded <- NewOrders
SYMMETRY PaymentSymmetry
INVARIANTS
  TypeOK
  NoStageSkipped
  PaymentNeverForgotten
  EventsTellCommittedChanges
