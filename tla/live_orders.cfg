SPECIFICATION Spec
CONSTANTS
  Exchanges = {"okx", "bybit"}
  Symbols = {btc}
  Quotes <- SteadyQuotes
  PctUnit = 10000
  DefaultRatePct = 1
  SymbolBucket <- NoJitter
  FundingInterval = 2
  MaxOrderBookAge = 1
  Fees <- FlatFees
  MaxTradeUSD = 200
  MinProfitUSD = 1
  MinProfitPct = 1
  MaxDepthLevels = 5
  BasisRiskPct = 1
  MinExpectedCarryUSD = 1
  MinExpectedCarryPct = 1
  MinTimeToFunding = 1
  StorageEnabled = FALSE
  EventCap = 1
  RedisLimit = 2
  MaxAttempts = 1
  MaxHoldTime = 2
  PositionLimit = 2
  LogLimit = 2
  ChannelCap = 1
  Mode = "live"
  MayCancel = FALSE
  MaxPause = 0
  MaxClock = 4
  btc = btc
  None = None
INVARIANTS
  OpenMeansPlaced
