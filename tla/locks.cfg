SPECIFICATION Spec
CONSTANTS
  t1 = t1
  t2 = t2
  t3 = t3
  c1 = c1
  c2 = c2
  o1 = o1
  o2 = o2
  o3 = o3
  k1 = k1
  k2 = k2
  k3 = k3
  m1 = m1
  m2 = m2
  Tx <- MCTx
  Work <- MCWork
  Contents <- MCContents
  Collections = {c1, c2}
  Objects = {o1, o2, o3}
  Blobs = {k1, k2, k3}
  MutationIDs = {m1, m2}
  None = None
INVARIANTS OnlyBulkStatementsDeadlock LockedReadsStayTrue ObjectsHoldTheirBlobs
PROPERTIES ClaimsConverge TransactionsEnd
