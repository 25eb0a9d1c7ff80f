SPECIFICATION Spec
CONSTANTS
  Workers = {w1, w2}
  Outsiders = {out}
  Tasklets = {t1, t2}
  Null = Null
  FiberLimit = 3
  Weights <- ShortWeights
  MaxPauses = 3
  PermitLimit = 1
SYMMETRY WorkerTaskletSymmetry
INVARIANTS
  FibersSound
PROPERTIES
  ImplementsLifecycle
CHECK_DEADLOCK FALSE
