CONSTANTS
  t1 = t1
  t2 = t2
  g1 = g1
  g2 = g2
  w1 = w1
  w2 = w2
  Students = {t1, t2}
  Groups = {g1, g2}
  Finalizers = {w1, w2}
  Agents = {w1, w2}
  MaxTime = 5
  MaxQueued = 1
  StaleAfter = 1
  MaxReturns = 1
  Interval = 2
  MaxTries = 2
  RetryDelay = 1
  PendingTimeout = 1
  RunningTimeout = 1
  MaxDefers = 2
  DeferDelay = 1
  MaxTasks = 2
  Scenarios <- OneCrash
SPECIFICATION SlotSpec
PROPERTY SlotsEnd
CHECK_DEADLOCK FALSE
