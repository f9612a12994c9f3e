SPECIFICATION Spec
CONSTANTS
  e1 = e1
  e2 = e2
  e3 = e3
  Cells = {}
  Processes = {e1}
  MayHold <- Anything
  Owns <- None
  MaxSends = 1
  MaxCalls = 0
INVARIANTS
  NoSelfJoin
CHECK_DEADLOCK FALSE
