SPECIFICATION ProducerSpec
CONSTANTS
  Job = {1, 2}
  Queue = {q1, q2}
  Worker = {w1, w2}
  k1 = k1
  Key = {k1}
  p1 = p1
  p2 = p2
  Producer = {p1, p2}
  UniqueKey <- MCUniqueKey
  UniqueTTL <- MCUniqueTTL
  Milli = 2
  defaultUniqueTTL = 2
  NoOwner = NoOwner
  NoQueue = NoQueue
  NoKey = NoKey
  Budgets = {2}
  VisibilityTimeouts = {1}
  UniqueTTLs = {0, 2}
  CompletedTTL = 1
  ReapLimit = 2
  PromoteLimit = 1
  SkipLimit = 1
  Evictable = {1}
  MaxTime = 2
INVARIANTS TypeOK Placement FailedCountsDead AttemptBudget UniqueWindow OncePerWindow
PROPERTIES AnswerHolds NoEarlyRecovery LegalTransitions ImplementsContract
CHECK_DEADLOCK FALSE
SYMMETRY Symmetry
