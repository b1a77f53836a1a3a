SPECIFICATION Spec
CONSTANTS
  o1 = o1
  o2 = o2
  r1 = r1
  r2 = r2
  Orders = {o1, o2}
  Requests = {r1, r2}
  NoRow = NoRow
  Nobody = Nobody
  MaxRetries = 3
  Seeded <- MCSeeded
  Asked <- MCAsked
INVARIANTS
  RepoTypeOK
  LocksMatchTransactions
  BatchRowsUnchanged
PROPERTIES
  KeepsPromise
