SPECIFICATION FairSpec
CONSTANTS
  Symbols = {a, b}
  Heartbeat = 1
  ReadDeadline = 2
  InitialBackoff = 1
  MaxBackoff = 3
  MaxWire = 1
  MaxPrices = 0
  MaxLists = 2
  MaxFaults = 2
PROPERTY SubscriptionConverges
CHECK_DEADLOCK FALSE
