SPECIFICATION Spec
CONSTANTS
  scheduled = scheduled
  dispatched = dispatched
  Jobs = {scheduled, dispatched}
  Tasks = 2
  Attempts = 1
  Verdicts = {"fail", "timeout"}
  Tolerated = {"timeout"}
  MaxRuns = 2
  MaxFaults = 1
  NoFile = NoFile
INVARIANTS TypeOK PublishedPasses PublishedWhole DiffSeesOnlyGreen NoSilentRegression
SYMMETRY JobSymmetry
