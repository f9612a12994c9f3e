CONSTANTS
  Cells = {c1}
  Processes = {p1}
  Clients = {}
  MaxRoots = 2
  MaxStaged = 2
  MaxDepth = 1
  MaxRestarts = 1
SPECIFICATION Spec
INVARIANTS
  GenerationIsolation
  NoUpdateLost
  FailureClosed
  FifoWork
  RollbackIsComplete
  ProgramOrder
PROPERTIES
  ValueSteps
CHECK_DEADLOCK FALSE
