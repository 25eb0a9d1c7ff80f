\* Two tasklets, a thread and a continuation on a promise fulfilled twice.
\* The futex word may change, or not, when the list changes.
SPECIFICATION FairSpec
CONSTANTS
  Tasklets = {a, b}
  Threads = {th}
  Continuations = {c}
  Far = {b}
  Null = Null
  MaxRounds = 2
INVARIANTS
  WaitersSound
PROPERTIES
  ReturnsOnlyFulfilled
  EveryWaiterReturns
