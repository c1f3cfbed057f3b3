CONSTANTS
  Pipes = {p1, p2}
  StreamLimits = {2}
  None = None
SPECIFICATION BestCaseSpec
PROPERTY
  InterruptCompletes
