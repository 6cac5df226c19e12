SPECIFICATION MCSpec
CONSTANTS
  Worker = {w1, w2}
  MaxWork = 3
  None = None
  Service = {a, b}
  MaxMessages = 2
  Zero = Zero
INVARIANTS
  SleepExact
PROPERTIES
  PoolServesWork
  AllThreadsExit
  MonitorExact
CHECK_DEADLOCK FALSE
