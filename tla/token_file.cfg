SPECIFICATION Spec
CONSTANTS
  Equities = {"COIN", "MSTR"}
  Names = {"base", "side"}
  ChainIds = {1, 2}
  Bytes = {"usd", "zero", "a", "b", "c"}
  Placeholders = {"zero"}
  UsdcBase = "usd"
  FirstFile <- TwoChains
  Configs <- AllConfigs
  MaxEdits = 2
INVARIANTS ServesAcceptedSlots NoQuoteFromBeforeMove RunsWhatValidates
PROPERTY UnmovedKeepQuotes
CHECK_DEADLOCK FALSE
