CONSTANTS
  Ids = {s1, s2}
  NoConn = NoConn
  ConnCap = 2
  Configs <- MCConfigs
  MaxStreams = 1
  MaxConnsSet = {0}
  KindSet = {"srt_caller"}
  PlaybackSet = {FALSE}
  ReconnectSet = {TRUE}
SPECIFICATION FairSpec
PROPERTY
  WaitSeesExit
