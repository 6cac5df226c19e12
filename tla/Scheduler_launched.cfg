SPECIFICATION Spec
CONSTANTS
  a = a
  b = b
  c = c
  w1 = w1
  w2 = w2
  t1 = t1
  None = None
  Service = {a, b, c}
  Boot <- BootTwo
  Harbor = {}
  Monitor = None
  Worker = {w1, w2}
  Outside = {t1}
  Weight <- Weights
  MaxCalls = 4
INVARIANTS
  LaunchedContextAlive
CHECK_DEADLOCK FALSE
