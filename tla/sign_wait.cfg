SPECIFICATION FairSpec
CONSTANTS
  Hashes = {x}
  Callers = {c1, c2}
  MaxSigns = 2
  MaxClock = 7
  SignTimeout = 2
  WaitTimeout = 5
  IdleTtl = 2
  MaxEntries = 2
  SweepEvery = 2
  Lag = 0
INVARIANTS BudgetCoversRetry
PROPERTY ImplementsService
CHECK_DEADLOCK FALSE
