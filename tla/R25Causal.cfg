CONSTANTS
  Cells = {c1}
  Processes = {p1}
  Clients = {t1}
  MaxRoots = 2
  MaxStaged = 1
  MaxDepth = 2
  MaxRestarts = 1
SPECIFICATION Spec
INVARIANTS
  TypeOK
  LocalAccounting
  SharedAccounting
  CausalBarrier
PROPERTIES
  ImplementsCausalWork
  QuietIsFinal
  WaitReturnsQuiet
CHECK_DEADLOCK FALSE
