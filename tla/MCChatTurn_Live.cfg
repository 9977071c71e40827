SPECIFICATION FairSpec
CONSTANTS
  Free = Free
  SealPolls = 2
  MaxEvents = 0
  MaxTools = 0
  MaxFaults = 0
  MayWedge = FALSE
PROPERTIES AttemptMovesOn PlanGetsSealed
