SPECIFICATION StmSpec
CONSTANTS
  Reader = {r1, r2}
  MaxUpdate = 3
  MaxRead = 4
INVARIANT CopyAlive
CHECK_DEADLOCK FALSE
