SPECIFICATION FairSpec
CONSTANTS
  Job = {j1}
  Worker = {w1}
  NoOwner = NoOwner
  NoJob = NoJob
  Budgets = {2}
  Concurrency = 2
  maxRenewFailures = 1
  Mortal = {}
  MaxFaults = 0
CHECK_DEADLOCK FALSE
PROPERTIES LostLeaseStopsHandler
