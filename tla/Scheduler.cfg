SPECIFICATION FairSpec
CONSTANTS
  a = a
  b = b
  c = c
  w1 = w1
  w2 = w2
  t1 = t1
  None = None
  Service = {a, b, c}
  Boot <- BootOne
  Harbor = {b}
  Monitor = a
  Worker = {w1, w2}
  Outside = {t1}
  Weight <- Weights
  MaxCalls = 4
INVARIANTS
  TypeOK
  RefCountExact
  OneQueueOnePlace
  NothingStranded
  NoDanglingPointer
  DispatchedAlone
  TotalExact
PROPERTIES
  EveryMessageHandled
  RetiredIsFreed
CHECK_DEADLOCK FALSE
