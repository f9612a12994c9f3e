SPECIFICATION FairSpec
CONSTANTS
  Lines = 4
  ChainLength = 2
  Counts = {0, 1, 2}
  Programs <- AllPrograms
INVARIANTS
  OutputCorrect
  BoundedDemand
  SingleConsumer
  EffectsOnDemand
PROPERTIES
  Finishes
CHECK_DEADLOCK FALSE
