CONSTANTS
  Ids = {s1, s2}
  NoConn = NoConn
  ConnCap = 2
  Configs <- MCConfigs
  MaxStreams = 2
  MaxConnsSet = {0, 1}
  KindSet = {"udp", "tcp_listener", "tcp_caller", "srt_listener", "srt_caller", "group_listener", "group_caller"}
  PlaybackSet = {TRUE, FALSE}
  ReconnectSet = {TRUE, FALSE}
SPECIFICATION FairSpec
INVARIANTS
  StreamLimit
  ToCloseIsClosable
  NoUseAfterDestroy
PROPERTIES
  ImplementsPool
  ExitCompletes

