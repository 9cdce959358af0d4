SPECIFICATION FairSpec
CONSTANTS
  Chains = {1}
  Symbols = {"AAPL", "MSFT"}
  Frames <- NoFrames
  MaxGens = 0
  StartTime = 5000
  TickMs = 500
  MaxTicks = 0
  Addresses = {"a1", "m1"}
  Placeholders = {"zero"}
  QuoteToken = "usd"
  Files <- StartupFiles
  BootFile <- OnlyApple
  MaxUploads = 2
  Fixed = FALSE
  Lives = {3, 5}
  Margin = 3
  Timeout = 1
  MaxFaults = 3
  Attempts = 3
  FirstBackoff = 1
  Refresh = 1
  Setups <- AllSetups
INVARIANTS ServesCheckedCopy BootBounded TokenOutlivesRequest
PROPERTY SettlesAcrossRestarts
CHECK_DEADLOCK FALSE
