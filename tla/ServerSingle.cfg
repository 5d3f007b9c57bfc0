SPECIFICATION FairSpec
CONSTANTS
  Job = {j1}
  Worker = {w1, w2}
  NoOwner = NoOwner
  NoJob = NoJob
  Budgets = {2}
  Concurrency = 1
  maxRenewFailures = 1
  Mortal = {w1}
  MaxFaults = 1
CHECK_DEADLOCK FALSE
INVARIANTS RunsTracked
PROPERTIES NoSupersededReport LostLeaseStopsHandler ShutdownEnds JobsSettle
