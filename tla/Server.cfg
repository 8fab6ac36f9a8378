CONSTANTS
  Transfers = {x1, x2}
  Users = {u1, u2}
  Sids = {s1, s2}
  Directions = {"upload"}
  PerUserLimit = 1
  GlobalLimit = 2
  MaxBindings = 2
  Writers = {w1, w2}
  Copiers = {c1, c2}
  config = config
  commands = commands
  Keys = {config, commands}
  Plain = plain
  Nobody = nobody
  Plans <- MCPlans
  MaxRuns = 5
  Streams = {r1, r2}
  Browsers = {b1, b2}
  Everyone = everyone
  SocketWindow = 1
  TotalWindow = 1
  MaxEvents = 3
  MaxRefusals = 1
  Transports = {t1, t2, t3}
  Accounts = {ua, ub}
  MaxSockets = 2
  MaxPerAccount = 1
  Requests = {q1}
  InputSessions = {i1, i2}
  Account = account
  InputThreads = {y1, y2}
  SessionCapacity = 2
  SessionRate = 1
  UserCapacity = 3
  UserRate = 2
  MaxBuckets = 1
  Grace = 1
  MaxInput = 2
  MaxLate = 1
  Horizon = 4
SPECIFICATION ServerSpec
INVARIANTS RegistrySafe SnapshotIsWhole FlowCounts CapacitySafe AttemptSafe BudgetHonest
PROPERTIES ForwardOnly ServerSettles
CHECK_DEADLOCK FALSE
