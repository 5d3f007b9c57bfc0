SPECIFICATION FairSpec
CONSTANTS
  Worker = {w1, w2}
  NoOwner = NoOwner
  Entry = {1, 2}
  Every = {}
  Dormant = {1}
  Period = 1
  cronBatch = 2
  Slow = 1
  Fast = 0
  Mortal = {w2}
  MaxFaults = 1
  MaxTime = 3
INVARIANTS SchedulerTypeOK OnceIfKeyOutlives NeverEarly
PROPERTIES NoSkippedTick NextOnServerClock TicksFire
CHECK_DEADLOCK FALSE
