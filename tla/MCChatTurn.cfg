SPECIFICATION Spec
CONSTANTS
  Free = Free
  SealPolls = 1
  MaxEvents = 1
  MaxTools = 1
  MaxFaults = 1
  MayWedge = TRUE
INVARIANTS TypeOK ResultIsTerminalEvent NoCompileProblems TraceComplete
PROPERTY KeepsTurnPromise
CHECK_DEADLOCK FALSE
