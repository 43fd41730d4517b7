SPECIFICATION FairSpec
CONSTANTS
  Jobs = {j1, j2}
  Ids = {id1}
  Repeaters = {rep1}
  Priorities = {1, 2}
  Delays = {0, 1}
  Attempts = {2}
  Concurrencies = {1, 2}
  Every = 1
  BaseBackoff = 1
  MaxBackoff = 1
  MinWait = 1
  PollCap = 2
  CloseGrace = 1
INVARIANTS
  QueueConsistent
  DedupExact
PROPERTIES
  StepsAllowed
  OrderRespected
  WaitingJobStarts
