SPECIFICATION FairSpec
CONSTANTS
  Exchanges = {"okx", "bybit"}
  Symbols = {btc}
  Quotes <- SteadyQuotes
  PctUnit = 10000
  DefaultRatePct = 1
  SymbolBucket <- NoJitter
  FundingInterval = 1
  MaxOrderBookAge = 1
  Fees <- FlatFees
  MaxTradeUSD = 200
  MinProfitUSD = 1
  MinProfitPct = 1
  MaxDepthLevels = 5
  BasisRiskPct = 1
  MinExpectedCarryUSD = 1
  MinExpectedCarryPct = 1
  MinTimeToFunding = 1
  StorageEnabled = FALSE
  EventCap = 1
  RedisLimit = 2
  MaxAttempts = 1
  MaxHoldTime = 1
  PositionLimit = 1
  LogLimit = 1
  ChannelCap = 1
  Mode = "paper"
  MayCancel = TRUE
  MaxPause = 0
  MaxClock = 1
  btc = btc
  None = None
PROPERTIES
  HandlerReturns
  NoConnectorStarves
  ScannerStops
INVARIANTS
  ScannerNeverStuck
CHECK_DEADLOCK FALSE
