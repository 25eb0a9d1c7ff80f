SPECIFICATION MCSpec
CONSTANTS
  a = a
  b = b
  c = c
  th = th
  Tasklets <- MCTasklets
  Threads <- MCThreads
  Unlocked = Unlocked
  Null = Null
  Requests = {r1, r2, r3}
  Fences = {r1}
  Submit = Submit
  Quit = Quit
  File = File
  SqEntries = 2
  BatchSize = 2
INVARIANTS
  ListSound
  RequestsSound
PROPERTIES
  ImplementsLock
  NobodyIsForgotten
  RequestsFulfilled
\* the dispatcher may have quit
CHECK_DEADLOCK FALSE
