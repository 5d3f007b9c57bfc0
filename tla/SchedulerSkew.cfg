SPECIFICATION Spec
CONSTANTS
  Worker = {w1}
  NoOwner = NoOwner
  Entry = {1}
  Every = {}
  Dormant = {}
  Period = 1
  cronBatch = 1
  Slow = 0
  Fast = 1
  Mortal = {w1}
  MaxFaults = 0
  MaxTime = 3
PROPERTIES NextOnServerClock
CHECK_DEADLOCK FALSE
