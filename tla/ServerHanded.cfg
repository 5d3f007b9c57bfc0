SPECIFICATION Spec
CONSTANTS
  Job = {j1}
  Worker = {w1}
  NoOwner = NoOwner
  NoJob = NoJob
  Budgets = {1}
  Concurrency = 1
  maxRenewFailures = 1
  Mortal = {}
  MaxFaults = 1
CHECK_DEADLOCK FALSE
INVARIANTS DeadWasHanded
