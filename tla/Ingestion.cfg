SPECIFICATION FairSpec
CONSTANTS
  Workers = {w1, w2}
  NumChunks = 2
  CHUNK_SIZE = 9
  LastRows = 1
  Unparsable = {0}
  MaxRevision = 2
  MaxFaults = 1
  MaxCrashes = 1
  DryRuns = FALSE
INVARIANT IngestionConsistent
PROPERTIES
  NeverStepsBack
  Converges
