SPECIFICATION FairSpec
CONSTANTS
  Exchanges = {"okx", "kucoin"}
  ChannelCap = 1
  Mode = "paper"
  Silent = {"okx"}
  HonoursContext = TRUE
PROPERTIES
  RunReturns
CHECK_DEADLOCK FALSE
