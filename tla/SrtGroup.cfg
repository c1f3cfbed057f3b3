CONSTANTS
  Tasks = {l1, l2}
  MaxDelay = 2
  ReconnectDelay = 2
  PrintDelay = 1
  Group = group
  EpollConnect = epoll_connect
  EpollIo = epoll_io
  None = none
SPECIFICATION FairSpec
INVARIANTS
  CallbackSeesLiveGroup
  NothingLeft
PROPERTIES
  ImplementsTimer
  DestroyCompletes
  FailedIsRetried
