SPECIFICATION Spec
CONSTANTS
  Context = {x1, x2, x3}
  Name = {1}
  DEFAULT_SLOT_SIZE = 2
  HANDLE_MASK = 7
  MaxLaunching = 3
  MaxSlotSize = 4
  None = None
INVARIANT NoSlotClash
CHECK_DEADLOCK FALSE
