SPECIFICATION Spec
CONSTANTS
  q1 = q1
  q2 = q2
  s1 = s1
  s2 = s2
  s3 = s3
  U = U
  Data <- MCData
  MaxItems = 4
  Questions = {q1, q2}
  Sessions = {s1, s2, s3}
  MaxSessions = 2
  Configs <- MCConfigs
  Seeds = {7}
  Unpinned = U
  PageCap = 3
  MaxImports = 2
  MaxFaults = 1
  Nothing = Nothing
  Torn = Torn
INVARIANT SeedSamples
