CONSTANTS
  Jobs = {j1, j2, loop}
  Deferred = {loop}
  MaxWorkers = 2
  Main = main
  Callers = {main, restore}
  transfers = transfers
  attempts = attempts
  t1 = t1
  Callbacks = {transfers, attempts}
  Waiters = {t1}
  WaitersOf <- MCWaitersOf
SPECIFICATION Spec
CHECK_DEADLOCK FALSE
INVARIANT LifecycleSafe
PROPERTY ShutdownReturns
