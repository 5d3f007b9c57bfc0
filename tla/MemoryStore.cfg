SPECIFICATION Spec
CONSTANTS
  Job = {1, 2}
  Queue = {q1, q2}
  Worker = {w1, w2}
  Key = {k1}
  NoOwner = NoOwner
  NoQueue = NoQueue
  NoKey = NoKey
  Budgets = {1, 2}
  VisibilityTimeouts = {1}
  UniqueTTLs = {0, 1}
  ReapLimit = 1
  PromoteLimit = 1
  MaxIDs = 2
  MaxReplayed = 1
  MaxTime = 1
INVARIANTS NothingLost StatsAddUp UniqueWindow
PROPERTIES NoEarlyRecovery ImplementsContract
SYMMETRY Symmetry
CHECK_DEADLOCK FALSE
