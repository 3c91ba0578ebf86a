SPECIFICATION PartsSpec
CONSTANTS
  LokiLines = {1, 2, 3}
  LokiLevel <- MCLevel
  LokiQueueSize = 1
  LokiBatchSize = 2
  LokiErrorInterval = 2
  LokiFailures = 3
  LokiTime = 2
  ProdCalls = {c1, c2}
  ProdTopics = {t1, t2}
  ProdSizes = {0, 1, 3}
  ProdParts = 2
  ProdFaults = 2
  OffPartitions = {1, 2}
  OffConsumers = {"a", "b"}
  OffLogSize = 2
  OffChanges = 2
  FeedWatchers = {w1, w2}
  FeedNames = {"failed", "deferred"}
  FeedChanges = 2
  FeedStreams = 2
  AppRows = 2
  AppRuns = 2
  StatRows = {1, 2, 3}
  StatGroups = {1, 2}
  StatErrors = {1, 2, 3}
  StatClass <- MCClass
  StatTime = 2
  StatMoves = 1
  TimeHalf = 512
  TimeSecond = 40
  TimeCounts = {0, 1, 2, 3, 5}
  TimeUnit = 16
  TimeFloats <- MCFloats
  TimeWhole = 32
  TimeMultipliers = {8, 16, 24, 32, 37, 80}
INVARIANTS LokiLinesAreAccounted ProdWholeOrNothing OffNoFalseAlarm FeedAgrees StatsAgree TimesHold
PROPERTIES ProdEnds AppEnds
CHECK_DEADLOCK FALSE
