CONSTANTS
  Cells = {c1}
  Processes = {p1}
  Clients = {}
  MaxRoots = 2
  MaxStaged = 1
  MaxDepth = 1
  MaxRestarts = 0
SPECIFICATION Spec
INVARIANTS
  SendToFailedRejected
CHECK_DEADLOCK FALSE
