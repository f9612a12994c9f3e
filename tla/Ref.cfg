SPECIFICATION FairSpec
CONSTANTS
  outer = outer
  inner = inner
  Refs = {outer, inner}
  Threads = {t1, t2, t3}
  MayNest <- OuterFirst
  InitiallySet = {outer}
  MaxCalls = 4
INVARIANTS
  CallbackExclusive
  NoLostWakeup
PROPERTIES
  ImplementsRegister
  CallsReturn
CHECK_DEADLOCK FALSE
