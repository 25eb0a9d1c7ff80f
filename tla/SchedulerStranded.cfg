SPECIFICATION Spec
CONSTANTS
  Workers = {w1, w2}
  Outsiders = {out}
  Tasklets = {t1, t2}
  Null = Null
  FiberLimit = 3
  Weights <- k_priority_weights
  MaxPauses = 2
  PermitLimit = 0
INVARIANTS
  IdleMeansDrained
CHECK_DEADLOCK FALSE
