SPECIFICATION FairSpec
CONSTANTS
  Roots <- RootPaths
  Folders <- FolderPaths
  Files <- FilePaths
  SizeChoices <- SomeSizes
  SegmentSize = 5
  RcvSegments = {4, 5}
  NameSize = 1
  SndBuf = 2
  RcvBuf = 1
CHECK_DEADLOCK FALSE
INVARIANT ReceivedIsPrefix
INVARIANT DoneIsComplete
INVARIANT CompleteMeansDelivered
PROPERTY BothEnd
