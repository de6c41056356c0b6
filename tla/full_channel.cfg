SPECIFICATION FairSpec
CONSTANTS
  Exchanges = {"okx", "kucoin"}
  ChannelCap = 1
  Mode = "paper"
  Silent = {}
  HonoursContext = TRUE
PROPERTIES
  KeepsConnecting
  RunReturns
CHECK_DEADLOCK FALSE
