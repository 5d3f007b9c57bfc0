SPECIFICATION Spec
CONSTANTS
  Worker = {w1, w2}
  NoOwner = NoOwner
  Entry = {1}
  Every = {}
  Dormant = {}
  Period = 1
  cronBatch = 1
  Slow = 0
  Fast = 0
  Mortal = {w1, w2}
  MaxFaults = 0
  MaxTime = 1
INVARIANTS FiresOnce
CHECK_DEADLOCK FALSE
