SPECIFICATION MCSpec
CONSTANTS
  Node = {1, 2}
  Self = 1
  Name = {11, 12}
  LengthBytes = 2
  MaxChunk = 4
  MaxMessage = 2
  Slave = {1, 2, 3}
  MaxQueries = 0
  MaxCrashes = 1
  Fd = {f1, f2}
  QUEUESIZE = 2
  MaxPacked = 9
  Agent = {a}
  Watchdog = TRUE
  max_connection = 2
  HashMod = 1
  header_size = 2
  GateLimit = 3
  Chunk = {2, 3}
  MaxInbox = 1
  MaxCommands = 1
  Session = {1, 2}
  expired_number = 1
  MaxLogins = 2
  Sizes = {2, 3}
  BUFFER_LIMIT = 2
  BufferLimit = 5
  MaxMail = 2
  Ops = {"close", "changehost"}
  MaxConns = 2
  MaxCalls = 3
  Client = {r1, r2}
  CallSize = {1, 2, 5}
  MULTI_PART = 2
  FirstSession = 3
  MaxSession = 3
  MaxRequests = 2
  MaxLosses = 1
  Co = {c1, c2, c3}
  MaxReloads = 2
  Registered = {n1, n2}
  Addr = {s}
  MaxChanges = 3
  MaxAsked = 3
  MaxMessages = 4
  SEG = 4
  RUN = 2
  MaxText = 10
  BASE = 4
  MAX_COOKIE = 3
  BLOCK_SIZE = 3
  MAX_DEPTH = 2
  Base = 3
  None = None
INVARIANTS
  HarborExact GateExact StreamsExact ClusterExact CodecsExact ClientsExact
CHECK_DEADLOCK FALSE
