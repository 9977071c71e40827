SPECIFICATION Spec
CONSTANTS
  p1 = p1
  p2 = p2
  n1 = n1
  n2 = n2
  Benches = {p1, p2}
  Names = {n1, n2}
  Pids = {1, 2, 3}
  Nobody = Nobody
  Overlap = FALSE
  Settings <- MCSettings
INVARIANTS TypeOK AddCannotFail LiveTreeStands NothingLeft
 
