\* An input without steps, or whose steps are over, has no successor.
CHECK_DEADLOCK FALSE
SPECIFICATION Spec
CONSTANTS
  Jobs = {"super-passes", "window", "series", "plan", "audit", "scoring",
          "grading", "config", "cpus", "tokenizer", "client-bench",
          "test-servers", "trajectories", "load", "cache", "stream",
          "swe-score", "report", "multi-turn", "samples", "client",
          "extraction"}
  Samples = 2
  MaxSize = 2
  WarmupSize = 1
  MaxRetries = 1
  MaxLate = 1
  Level = {0, 100, 110}
  MaxPasses = 5
  MinTrendN = 2
  MaxDuration = 2
  Value = {0, 5, 50}
  HdrLow = 1
  HdrHigh = 20
  MaxCount = 18
  Rate = {0, 3}
  Concurrency = {0, 2}
  Duration = {0, 1, 2}
  IssueCount = {0, 2}
  DatasetSize = {1, 3}
  MaxSamples = 2
  Qps = {0, 10, 11}
  Turns = {p1, p2}
  Scorable = {p1}
  Plain = {a1}
  Mixed = {b1, b2}
  Code = {b2}
  MaxCodes <- CodesPerQuestion
  Workers = 2
  Hosts <- MCHosts
  Yamls <- MCYamls
  DatasetArgs <- MCDatasetArgs
  MaxReloads = 1
  Machines <- MCMachines
  Masks <- MCMasks
  LoadgenCores = 1
  PoolSize = 2
  CoresPerShard = 2
  ReservedCpus = 2
  MaxPins = 2
  Batches <- MCBatches
  MaxShards = 2
  PrefixLen = 1
  FrameLen = 2
  Ranges <- MCRanges
  PromptLengths <- MCLengths
  Concurrency_ = 2
  SendBatch = 3
  MaxQueries = 2
  MaxDisplays = 1
  PoolWorkers = {1, 2}
  Conns = {1, 2}
  Slots = 1
  Events = 2
  MaxRequests = 2
  MaxOsl = 3
  FileRows <- MCFileRows
  MaxRows = 4
  Entries <- MCEntries
  MaxLoaded = 3
  Kinds <- AllKinds
  Source <- MCSource
  Maxes = {0, 1, 2}
  MaxRuns = 3
  ChatKinds = {"content", "reasoning", "both", "call", "call2", "content+call",
               "finish", "nochoice", "bad", "done"}
  GenKinds = {"text", "tokens", "same", "retract", "bad"}
  MaxFrames = 3
  Bodies <- MCBodies
  Extras <- MCExtras
  Healths <- MCHealths
  Counters <- MCCounters
  Progresses <- MCProgresses
  SweRows = 2
  MaxPolls = 2
  Latencies = {1, 3}
  TokenCounts = {0, 2}
  Spans = {0, 5}
  LegacySpans = {0, 4}
  AccuracyLists <- MCAccuracy
  MaxSamples_ = 2
  ConvEntries <- MCConvEntries
  ConvAnswers <- MCConvAnswers
  MaxSteps = 2
  MaxConvRuns = 2
  Uuid = {1, 2}
  Setups <- MCSetups
  MaxRecords = 8
  MaxRepeats = 1
  PoolSizes = {1, 2}
  MaxIssues = 3
  MaxPrograms = 2
  Patterns = 3
  MaxItems = 3
  Words = {"name", "print", "k=v"}
  MaxTokens = 5
INVARIANTS
  
  
  VerdictIsEarned
  ScoresAreEarned
  ConfigIsFaithful
  SidecarsAreApart
  BenchToolsAreSound
  
  StreamsAreWhole
  EvaluationsAreApart
  
