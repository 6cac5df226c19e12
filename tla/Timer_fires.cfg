SPECIFICATION FairSpec
CONSTANTS
  Node = {n1}
  Client = {c1}
  Ticker = tick
  TIME_NEAR_SHIFT = 1
  TIME_LEVEL_SHIFT = 1
  None = None
PROPERTIES
  EveryTimeoutFires
CHECK_DEADLOCK FALSE
