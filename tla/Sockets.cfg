SPECIFICATION FairSpec
CONSTANTS
  Objs = {1, 2, 3}
  Descs = {1, 2, 3, 4, 5}
  NoObj = NoObj
  NoDesc = NoDesc
  Streams = 2
  Configs <- AllConfigs
INVARIANT PipeOwnsDescriptor
INVARIANT AtMostOneLeft
PROPERTY InterruptEndsPipe
PROPERTY LossEndsPipe
CHECK_DEADLOCK FALSE
