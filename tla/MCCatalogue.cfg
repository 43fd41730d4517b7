SPECIFICATION SubjectSpec
CONSTANTS
  LruKeys = {"k1", "k2", "k3", "k4"}
  LruMaxSize = 3
  LruTtl = 1
  LruHorizon = 2
  r1 = r1
  r2 = r2
  r3 = r3
  r4 = r4
  r5 = r5
  Ids = {r1, r2, r3, r4, r5}
  BlockOf <- Blocks
  TopK = 3
  HeapScores = {1, 2, 3}
  MaxOffers = 6
  TrieKeys <- Terms
  TrieSpellings = {"w1", "w2"}
  TrieScores = {1, 2}
  MaxSuggestions = 2
  MaxInserts = 4
  GraphIds = {"n1", "n2", "n3"}
  MaxEdges = 4
  DocIds = {"d1", "d2", "d3"}
  IndexTerms = {"t1", "t2"}
  MaxFrequency = 2
  WindowLimit = 3
  WindowMs = 4
  WindowHorizon = 16
  BucketCount = 3
  MaxIndex = 8
  MaxCount = 1
  Alphabet = {"x", "y", "z"}
  MaxLength = 3
  MaxDistance = 2
  BloomBits <- Bits
  BloomLimit = 2
  Rows <- Catalogue
  KeySpan = 6
  Sorts = {"reliability", "newest"}
  PageSize = 1
  CandidateLimit = 2
  RescueLimit = 1
  BroadenThreshold = 2
  SearchTexts <- Sentences
  MaxChanges = 1
  FirstOctets = {0, 8, 10, 100, 127, 169, 172, 192, 198, 203, 223, 224, 239, 240, 255}
  SecondOctets = {0, 16, 18, 31, 32, 51, 64, 88, 100, 127, 128, 168, 254, 255}
  ThirdOctets = {0, 2, 99, 100, 113, 169, 255}
  FourthOctets = {0, 200, 254, 255, 256}
  GroupLists <- Groups
  HeaderNames = {"x", "host"}
  Forbidden = {"host"}
  Fetches = {"f1", "f2"}
  Queries = {"we", "wea"}
  Lookups = {"l1", "l2", "l3"}
  MaxSuggestionRows = 2
  StackLimit = 3
  MaxToasts = 5
  MaxAsks = 3
  ResetAfter = 2
  MaxCopies = 2
  MaxAttempts = 3
  Items = 5
  Concurrency = 3
  Runs = {"r1", "r2", "r3"}
  Renewing = {"r1", "r2"}
  Ttl = 3
  RenewEvery = 1
  MaxLag = 3
  HistoryApis = {"p1", "p2"}
  HoursPerDay = 2
  RetentionDays = 2
  LastHour = 5
  MaxChecks = 2
  MaxIncidents = 1
  Latencies = {2}
  Usages <- Uses
  MaxMaintenance = 3
  Shares = {0, 1200, 1500, 2400}
  AvgLatencies = {0, 1500, 3000, 4500}
  HoursSince = {0, 1, 2, 23, 30}
  IncidentCounts = {0, 2, 7}
  Popularities = {0, 55, 100}
  FailureCounts = {0, 1, 3, 4, 7, 8, 20}
  BaseInterval = 10
  Batch <- Imported
  SeedRows <- Seeded
  SlugNumbers <- TwoSuffixes
  MaxImports = 2
  Hosts = {"h"}
  Paths = {"/", "/docs"}
  Pieces <- Marks
  MaxPieces = 4
  Bounds <- TwoBounds
  SampleValues = {1, 2, 5}
  SeriesNames = {"s1"}
  LabelPairs = {"l1"}
  MaxSamples = 3
  MaxIncrements = 1
  Contenders <- Compare
  Compared = 2
  SourceLines <- Lines
  MaxLines = 4
  Seeders = {"p1", "p2"}
  SeedApis <- SeedList
  CategoryOf <- SeedGroups
  SeedCategories <- OneCategory
  MaxHides = 1
  WaitsMs = {0, 1, 999, 1000, 1001, 30000}
  FrameworkStatus = {400, 404, 500}
INVARIANTS
  LocksExclude
  StructuresRight
  WorkBounded
  ClassifiersExact
  WalkComplete
  ChoicesRespected
  PagesCurrent
PROPERTIES
  HeldUntilExpiry
  ImplementsRecencyList
  ImplementsWindow
CHECK_DEADLOCK FALSE
