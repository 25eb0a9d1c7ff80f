\* Two frames in the queue, as in the sandbox, two images, and windows of
\* four sizes.
SPECIFICATION FairSpec
CONSTANTS
  QueueLength = 2
  Images = {i1, i2}
  MaxSize = 2
  None = None
INVARIANTS
  HandOver
PROPERTIES
  PacerGoesOn
CHECK_DEADLOCK FALSE
