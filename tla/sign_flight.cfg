SPECIFICATION Spec
CONSTANTS
  Hashes = {x, y}
  Callers = {c1, c2}
  MaxSigns = 3
  MaxClock = 3
  SignTimeout = 1
  WaitTimeout = 2
  IdleTtl = 2
  MaxEntries = 1
  SweepEvery = 2
  Lag = 1
SYMMETRY CallerSymmetry
INVARIANTS TypeOK SingleFlight FailureNeverCached
PROPERTY OverCapOnlyInFlight
CHECK_DEADLOCK FALSE
