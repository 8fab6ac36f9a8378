CONSTANTS
  Conns = {c1, c2}
  Users = {u1}
  Holders = {h1, h2}
  PerUserLimit = 2
  GlobalLimit = 3
  Files = {f1, f2}
  MaxRestores = 3
  MaxFaults = 4
SPECIFICATION MCSpec
INVARIANTS PoolSafe Transactional FailedMeansOriginal
PROPERTIES HoldersProtected ClosesHappen ServiceReturns
CHECK_DEADLOCK FALSE
