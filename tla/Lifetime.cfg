SPECIFICATION FairSpec
CONSTANTS
  e1 = e1
  e2 = e2
  e3 = e3
  Cells = {e2}
  Processes = {e1, e3}
  MayHold <- Chain
  Owns <- Parts
  MaxSends = 2
  MaxCalls = 2
INVARIANTS
  HeldAlive
  JoinsDescend
PROPERTIES
  Reclaimed
CHECK_DEADLOCK FALSE
