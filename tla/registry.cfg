SPECIFICATION Spec
CONSTANTS
  Chains = {1, 2}
  Symbols = {"AAPL", "MSFT"}
  Frames <- RegistryFrames
  MaxGens = 2
  StartTime = 5000
  TickMs = 500
  MaxTicks = 0
  Addresses = {"a1", "a2", "m1"}
  Placeholders = {"zero"}
  QuoteToken = "usd"
  Files <- RegistryFiles
  BootFile <- Both
  MaxUploads = 2
  Chain = 1
INVARIANTS RetiredSymbolsStayOut RunningSetUnambiguous RegistryGaugesHonest
PROPERTIES LatestCopySettles ConfiguredGaugeSettles
CHECK_DEADLOCK FALSE
