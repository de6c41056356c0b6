SPECIFICATION Spec
CONSTANTS
  Exchanges = {"htx", "bybit"}
  Symbols = {btc}
  Quotes <- NoQuotes
  PctUnit = 10000
  DefaultRatePct = 1
  SymbolBucket <- NoJitter
  FundingInterval = 3
  MaxOrderBookAge = 1
  Fees <- LowFees
  MaxTradeUSD = 300
  MinProfitUSD = 1
  MinProfitPct = 1
  MaxDepthLevels = 2
  BasisRiskPct = 1
  MinExpectedCarryUSD = 1
  MinExpectedCarryPct = 1
  MinTimeToFunding = 1
  Prices = {98, 100, 104}
  Quantities = {0, 1, 2}
  MaxLevels = 3
  Spread = 2
  btc = btc
INVARIANTS
  DepthSuffices
  BestFill
  LegsWithinLimit
  OneDirection
CHECK_DEADLOCK FALSE
