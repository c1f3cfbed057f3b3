SPECIFICATION FairSpec
CONSTANTS
  Socks = {"src", "dst"}
  MaxMsgs <- Arrivals
  Configs <- OneWay
CHECK_DEADLOCK FALSE
PROPERTY OneWayInterruptReturns
