CONSTANTS
  Media = {"srt", "udp"}
  IntMod = 8
  LongMod = 18
  MaxPackets = 5
  MaxArrivals = 4
  SysDelays <- MCSysDelays
  StdDelays <- MCStdDelays
  PerUs = 2
  MaxValue = 127
  MaxSamples = 4
  MaxReports = 1
SPECIFICATION ValidatorSpec
INVARIANTS
  Accounting
  LossBounds
  SrtLossExact
  ReportOfPeriod
  SmoothedWithinRange
