SPECIFICATION Spec
CONSTANTS
  Chains = {1}
  Symbols = {"AAPL"}
  Frames <- MarginFrames
  MaxGens = 2
  StartTime = 5000
  TickMs = 500
  MaxTicks = 5
  Addresses = {"a1"}
  Placeholders = {"zero"}
  QuoteToken = "usd"
  Files <- NoFiles
  BootFile <- AtOld
  MaxUploads = 0
  MinRemaining = 2
  ChainId = 1
  Handlers = {h1}
  Bodies <- MarginBodies
  MaxConcurrent = 2
INVARIANTS ReuseMarginAtReply
