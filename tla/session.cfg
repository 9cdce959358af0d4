SPECIFICATION Spec
CONSTANTS
  Symbols = {a, b}
  Heartbeat = 1
  ReadDeadline = 2
  InitialBackoff = 1
  MaxBackoff = 1
  MaxWire = 2
  MaxPrices = 2
  MaxLists = 2
  MaxFaults = 1
SYMMETRY SymbolSymmetry
INVARIANTS NoEmptySubscribe ServiceFollowsSession SilenceEndsSession HealthyWireKept DisownedIsAnnounced
PROPERTY KeepsFeedPromise
CHECK_DEADLOCK FALSE
