SPECIFICATION Spec
CONSTANTS
  coder = coder
  chat = chat
  llm = llm
  fallback = fallback
  Agents = {coder, chat}
  Methods = {llm, fallback}
  Blank = Blank
  JudgeErr = JudgeErr
  DoubleJudge = TRUE
  MaxPendingWriteDetails = 2
  Suite <- MCSuite
  Selections <- MCSelections
  Attempts = 1
  Works <- MCWorks
  Scores <- MCScores
  MaxTraffic = 1
  MaxRollovers = 1
  MaxFaults = 1
  NoStatus = NoStatus
INVARIANTS TypeOK PassIsEarned StagedReported TranscriptsMatchRows CostBounded CostWhole CardOrderFree TaxonomyComplete
