SPECIFICATION MCSpec
CONSTANTS
  Message = {m1, m2}
  Empty = Empty
  DEFAULT_QUEUE_SIZE = 2
  MQ_OVERLOAD = 1
  MaxLength = 5
  Event = {n1, n2}
  Client = {c1}
  Ticker = tick
  TIME_NEAR_SHIFT = 1
  TIME_LEVEL_SHIFT = 1
  Context = {x1, x2, x3, x4, x5}
  Name = {1, 2, 3}
  DEFAULT_SLOT_SIZE = 1
  HANDLE_MASK = 3
  MaxLaunching = 3
  MaxSlotSize = 4
  Caller = {k1, k2, k3}
  File = {f1, f2}
  NoFile = NoFile
  Loader = {p1, p2}
  Nobody = Nobody
  Library = {l1, l2, l3, l4}
  Missing = {l4}
  Broken = {l3}
  MAX_MODULE_TYPE = 2
  ZoneSize = 3
  ZoneLow = 4
  MaxPending = 3
  MaxLaps = 1
  Co = {t1, t2, t3}
  Peer = {p}
  MaxSession = 3
  MaxRequest = 1
  MaxOps = 4
  Coroutine = {r1, r2}
  Main = main
  NoState = NoState
  Signaler = {s1, s2}
  MaxResumes = 3
  MaxSignals = 3
  MaxDepth = 2
  MaxEntries = 6
  UniqueName = {u1, u2}
  Requester = {k1, k2, k3}
  MaxHandle = 3
  User = {k1, k2, k3}
  MaxInstances = 3
  NoQueue = NoQueue
  Reader = {r1, r2}
  MaxUpdate = 3
  MaxRead = 4
  MaxObj = 3
  MaxBox = 2
  MaxQuery = 3
  Node = {1, 2}
  NodeOf <- AtNode
  MaxCalls = 5
  Owner = 1
  Service = {11, 13, 22}
  MaxPublish = 2
  Key = {a}
  Sub = {x, y}
  Value = {v}
  Waiter = {k1, k2, k3}
  NoValue = NoValue
  Table = Table
  None = None
INVARIANTS
  TypeOK RingIndexes TimeoutsExact ContextsExact
  CoroutinesExact SignalExact LoadedOnce LauncherExact ProviderExact WaitersFound SharedExact
  ObjectAlive MulticastExact
PROPERTIES
  OverloadTracksGrowth ImplementsFifo NamesExact FirstCome
CHECK_DEADLOCK FALSE
