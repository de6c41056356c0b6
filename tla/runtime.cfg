SPECIFICATION FairSpec
CONSTANTS
  Exchanges = {"kucoin"}
  ChannelCap = 1
  Mode = "live"
  Silent = {}
  HonoursContext = TRUE
INVARIANTS
  RuntimeTypeOK
  NoOrderLeftBehind
PROPERTIES
  ReportIsTrue
  KeepsConnecting
  RunReturns
CHECK_DEADLOCK FALSE
