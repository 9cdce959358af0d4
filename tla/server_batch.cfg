SPECIFICATION Spec
CONSTANTS
  Chains = {1}
  Symbols = {"AAPL"}
  Frames <- BatchFrames
  MaxGens = 2
  StartTime = 5000
  TickMs = 500
  MaxTicks = 3
  Addresses = {"a1"}
  Placeholders = {"zero"}
  QuoteToken = "usd"
  Files <- NoFiles
  BootFile <- AtOld
  MaxUploads = 0
  MinRemaining = 2
  ChainId = 1
  Handlers = {h1}
  Bodies <- BatchBodies
  MaxConcurrent = 2
INVARIANTS SignedExpiryHonest ReplyNeverCrossed StrictAllOrNothing ReuseLagBounded
