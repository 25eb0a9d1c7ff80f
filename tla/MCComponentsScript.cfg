SPECIFICATION ScriptSpec
CONSTANTS
  HandleLimit = 3
  NullVersion = 2
  Threads = {t1, t2, t3}
  SlotCount = 2
  WordSize = 8
  MaxTickets = 5
  Thieves = {thief1, thief2}
  JobSlots = 2
  JobLimit = 4
  Users = {t1, t2, t3}
  MaxCount = 3
  PermitLimit = 2
  Arriving = {a1, a2}
  Counting = {c1, c2}
  Holder = holder
  LogThreads = {"main", "worker"}
  RingSize = 1
  LogLimit <- MCLogLimit
  Windows = {"camera", "graphs"}
  Labels = {"legend 1", "legend 2"}
  Widgets <- MCWidgets
  Kind <- MCKind
  UnderMouse <- MCUnderMouse
  Document <- MCDocument
  Elements = {1, 2, 3, 4, 5}
  HashOf <- MCHashOf
  MaxCapacity = 7
\* a program ends
CHECK_DEADLOCK FALSE
INVARIANTS
  RootsKept
