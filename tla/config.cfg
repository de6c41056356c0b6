SPECIFICATION Spec
CONSTANTS
  Thousandths <- SmallNumbers
  Whole <- SmallWhole
  Headers = {"trading", "symbols", "exchanges", "fees", "strategy", "okx", "kraken"}
  Pairs <- SomePairs
  Items = {"BTC/USDT", "SOL/USDT"}
  MaxLines = 6
INVARIANTS
  LoadedAsWritten
  FailsOnBadNumber
CHECK_DEADLOCK FALSE
