SPECIFICATION Spec
CONSTANTS
  Job = {1}
  Queue = {q1}
  Worker = {w1, w2}
  Key = {k1}
  NoOwner = NoOwner
  NoQueue = NoQueue
  NoKey = NoKey
  Budgets = {1}
  VisibilityTimeouts = {1}
  UniqueTTLs = {0}
  ReapLimit = 1
  PromoteLimit = 1
  MaxIDs = 2
  MaxReplayed = 1
  MaxTime = 1
PROPERTIES LegalTransitions
CHECK_DEADLOCK FALSE
