SPECIFICATION MCSpec
CONSTANTS
  r1 = r1
  r2 = r2
  r3 = r3
  Resources <- MCResources
  Chunks <- MCChunks
  TypeFlags <- MCTypeFlags
  PoolAttempts <- MCPoolAttempts
  Requests <- MCRequests
  MinSize = 2
  SlCount = 2
  WordSize = 32
  PoolSize = 17
  LargeSize = 12
  AlignmentLimit = 4
  Granularity = 1
  Size <- MCSize
  BlockSize = 2
  Compressed = {1, 2}
  HeaderSize = 3
  EntityLimit = 3
  Kinds = {"body", "transform"}
  FirstKind = "body"
SYMMETRY ResourceSymmetry
\* a source has been compiled, or the user has done enough
CHECK_DEADLOCK FALSE
INVARIANTS
  MemoryAccounted
  PackageIntact
  OldCompilerFaithful
  InputKnown
  InterfaceSound
PROPERTIES
  ImplementsAllocator
  EntitiesImplementTable
  OneEmptyPoolKept
