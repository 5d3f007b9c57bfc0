SPECIFICATION FairSpec
CONSTANTS
  Width = 5
  DefaultBackoffBase = 2
  DefaultBackoffCap = 11
  Attempts = {0, 1, 2, 3, 4, 9}
  q1 = q1
  q2 = q2
  q3 = q3
  names <- MCnames
  MaxWeight = 3
  Minutes = 2
  Hours = 2
  Week = 3
  MonthDays <- MCMonthDays
  LeapMonth = 2
  LeapCycle = 3
  Horizon = 16
  Grain = 2
  searchLimit = 80
  Specs <- MCSpecs
  Instants <- MCInstants
  NoDelay = NoDelay
  Invalid = Invalid
  Searching = Searching
  Zero = Zero
INVARIANTS DelayExact FairShare OrderComplete FirstFiring
PROPERTIES Terminates
CHECK_DEADLOCK FALSE
