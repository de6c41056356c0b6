SPECIFICATION RestartSpec
CONSTANTS
  Exchanges = {"okx", "bybit"}
  Symbols = {btc}
  Quotes <- SteadyQuotes
  PctUnit = 10000
  DefaultRatePct = 1
  SymbolBucket <- NoJitter
  FundingInterval = 1
  MaxOrderBookAge = 1
  Fees <- FlatFees
  MaxTradeUSD = 200
  MinProfitUSD = 1
  MinProfitPct = 1
  MaxDepthLevels = 5
  BasisRiskPct = 1
  MinExpectedCarryUSD = 1
  MinExpectedCarryPct = 1
  MinTimeToFunding = 1
  StorageEnabled = TRUE
  EventCap = 2
  RedisLimit = 2
  MaxAttempts = 2
  MaxHoldTime = 1
  PositionLimit = 1
  LogLimit = 1
  ChannelCap = 1
  Mode = "paper"
  MayCancel = FALSE
  MaxPause = 0
  MaxClock = 1
  MaxSaved = 2
  btc = btc
  None = None
INVARIANTS
  SavedInOrder
  CreditedOnceInRedis
PROPERTIES
  LogKept
