SPECIFICATION FairSpec
CONSTANTS
  SndBuf = 2
  WaitLimit = 2
  MaxEpolls = 10
CHECK_DEADLOCK FALSE
 
PROPERTY RoundEnds
PROPERTY InterruptEnds
