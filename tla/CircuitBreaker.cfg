SPECIFICATION FairSpec
CONSTANTS
  Calls = {c1, c2, c3}
  BucketCount = 2
  VolumeThreshold = 2
  RateNum = 3
  RateDen = 5
  ResetTimeout = 1
  SuccessesToClose = 2
  HalfOpenMaxCalls = 1
  MaxIdle = 1
  MaxOutcomes = 5
INVARIANT BreakerConsistent
PROPERTIES
  ClosesOnSuccesses
  TripsOnFreshEvidence
  Recovers
