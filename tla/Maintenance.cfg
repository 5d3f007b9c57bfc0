SPECIFICATION Spec
CONSTANTS
  Worker = {w1, w2}
  Job = {1, 2}
  first = 1
  Queue = {"high", "low"}
  queueOf <- MCQueueOf
  Queues <- MCQueues
  NoOwner = NoOwner
  NoJob = NoJob
  NoEntry = NoEntry
  Short = 8
  Long = 11
  Patient = {w2}
  VisibilityTimeout <- MCTimeouts
  Second = 1
  BeatCap = 4
  ShutdownTimeout = 2
  forceGracePeriod = 1
  maxRenewFailures = 3
  reapBatch = 1
  Latency = 1
  Mortal = {w2}
  MaxFaults = 3
INVARIANTS RecoveryBound OverlapBound PhantomBound
PROPERTIES LeaseKept HealthyListed
