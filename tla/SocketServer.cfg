SPECIFICATION MCSpec
CONSTANTS
  Caller = {c1, c2}
  MAX_SOCKET = 1
  Opens = {"O"}
  MaxId = 1
  MaxCalls = 3
  MaxBuf = 2
  MaxNet = 1
  MaxSending = 1
  BufSize = 2
  WARNING_SIZE = 3
  None = None
INVARIANTS
  CountsExact
  ServerExact
  NothingStuck
PROPERTY CloseOnce
SYMMETRY Sym
CHECK_DEADLOCK FALSE
