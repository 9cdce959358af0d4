SPECIFICATION Spec
CONSTANTS
  Chains = {1}
  Symbols = {"AAPL"}
  Frames <- RaceFrames
  MaxGens = 2
  StartTime = 5000
  TickMs = 500
  MaxTicks = 0
  Addresses = {"a1", "a2"}
  Placeholders = {"zero"}
  QuoteToken = "usd"
  Files <- RaceFiles
  BootFile <- AtOld
  MaxUploads = 2
  MinRemaining = 1
  ChainId = 1
  Handlers = {h1, h2}
  Bodies <- RaceBodies
  MaxConcurrent = 2
SYMMETRY HandlerSymmetry
INVARIANTS LiveHoldersCurrent PriceBoundToToken RetiredTokenRefused
PROPERTY NoDisownedPrice
