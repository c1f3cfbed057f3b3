SPECIFICATION FairSpec
CONSTANTS
  Socks = {"src", "dst"}
  MaxMsgs <- Arrivals
  Configs <- SomeConfigs
CHECK_DEADLOCK FALSE
INVARIANT CsvHeaderFirst
INVARIANT Forwarded
INVARIANT ThreadsEndFirst
PROPERTY InterruptEnds
PROPERTY LostSourceEnds
