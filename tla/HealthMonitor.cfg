SPECIFICATION FairSpec
CONSTANTS
  Apis = {a1}
  Rivals = {r1}
  Sweeps = {s1, s2}
  BatchSize = 1
  DefaultPriority = 2
  Incidents = {i1, i2}
  FAILURE_THRESHOLD = 2
  RECOVERY_THRESHOLD = 1
  MaxCount = 2
INVARIANT HealthConsistent
PROPERTIES
  DownAfterThreshold
  Settles
