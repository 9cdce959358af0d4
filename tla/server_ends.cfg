SPECIFICATION FairSpec
CONSTANTS
  Chains = {1}
  Symbols = {"AAPL"}
  Frames <- EndsFrames
  MaxGens = 1
  StartTime = 5000
  TickMs = 500
  MaxTicks = 1
  Addresses = {"a1"}
  Placeholders = {"zero"}
  QuoteToken = "usd"
  Files <- NoFiles
  BootFile <- AtOld
  MaxUploads = 0
  MinRemaining = 1
  ChainId = 1
  Handlers = {h1}
  Bodies <- EndsBodies
  MaxConcurrent = 1
INVARIANT TypeOK
PROPERTY RequestsEnd
