CONSTANTS
  Pipes = {p1, p2}
  StreamLimits = {1, 2}
  None = None
SPECIFICATION FairSpec
INVARIANTS
  ReceivingIsServed
  AtMostOneWriter
  NoWriterAfterDestroy
PROPERTIES
  SamplesReported
  OneStreamNeverBlocks
