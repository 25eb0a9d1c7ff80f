SPECIFICATION FairSpec
CONSTANTS
  Workers = {w1}
  Outsiders = {out}
  Tasklets = {t1, t2, t3}
  Null = Null
  FiberLimit = 2
  Weights <- k_priority_weights
  MaxPauses = 2
  PermitLimit = 2
INVARIANTS
  IdleMeansDrained
PROPERTIES
  WorkEnds
CHECK_DEADLOCK FALSE
