SPECIFICATION Spec
CONSTANTS
  Caller = {c1, c2}
  MAX_SOCKET = 1
  Opens = {"O"}
  MaxId = 2
  MaxCalls = 3
  MaxBuf = 2
  MaxNet = 0
  MaxSending = 1
  BufSize = 2
  WARNING_SIZE = 3
  None = None
INVARIANT NoAbort
CHECK_DEADLOCK FALSE
