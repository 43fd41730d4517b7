SPECIFICATION Spec
CONSTANTS
  Workers = {w1}
  NumChunks = 2
  CHUNK_SIZE = 6
  LastRows = 4
  Unparsable = {0}
  MaxRevision = 3
  MaxFaults = 0
  MaxCrashes = 0
  DryRuns = TRUE
INVARIANTS
  NothingToDo
