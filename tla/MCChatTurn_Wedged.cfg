SPECIFICATION FairSpec
CONSTANTS
  Free = Free
  SealPolls = 1
  MaxEvents = 0
  MaxTools = 0
  MaxFaults = 0
  MayWedge = TRUE
PROPERTY CtxBoundsTurn
CHECK_DEADLOCK FALSE
