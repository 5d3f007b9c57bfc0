SPECIFICATION Spec
CONSTANTS
  Job = {j1}
  Worker = {w1, w2}
  NoOwner = NoOwner
  NoJob = NoJob
  Budgets = {2}
  Concurrency = 2
  maxRenewFailures = 2
  Mortal = {w1, w2}
  MaxFaults = 2
CHECK_DEADLOCK FALSE
SYMMETRY Symmetry
INVARIANTS ServerTypeOK LeaseHasRun NoLeakedEntry OutcomeJustified
