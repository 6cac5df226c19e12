SPECIFICATION Spec
CONSTANTS
  NoFile = NoFile
  Caller = {c1, c2, c3}
  File = {f1, f2}
INVARIANT PublishedStaysOpen
CHECK_DEADLOCK FALSE
