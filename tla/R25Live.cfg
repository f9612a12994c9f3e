CONSTANTS
  Cells = {c1}
  Processes = {p1}
  Clients = {t1, t2}
  MaxRoots = 1
  MaxStaged = 1
  MaxDepth = 1
  MaxRestarts = 1
SPECIFICATION FairSpec
PROPERTIES
  WaitReturns
  StopDrains
CHECK_DEADLOCK FALSE
