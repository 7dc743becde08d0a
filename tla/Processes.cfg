SPECIFICATION ProcessSpec
CONSTANTS
  long = long
  short = short
  Singles = {alone}
  Batches <- TwoBatches
  Size <- Sizes
  Concurrency = 2
  Interval = 2
  MaxStall = 2
  overdueTask = overdueTask
  failedDelivery = failedDelivery
  Evaluators = {w1, w2}
  Conditions <- TwoConditions
  SourceOf <- TwoSources
  Severities = {"HIGH", "CRITICAL"}
  Nobody = Nobody
  ReminderIntervals = {1800, 1801}
  MaxChanges = 2
  MaxAlertFaults = 1
  Retries = {0, 2}
  DelayCap = 2
  Delays = {0, 1, 3}
  NoDelay = NoDelay
  earlier = earlier
  later = later
  Shells = {w1, w2}
  Packages = {earlier, later}
  LevelOf <- TwoLevels
  NoRelease = NoRelease
  MaxScripts = 3
  NoFileYet = NoFileYet
  Archives = {1}
  Usable = 1
  MaxContents = 2
  MaxDamages = 1
  MaxForeignWrites = 2
  Nil = Nil
  Monitors = {w1, w2}
  Timeout = 2
  CacheFor = 2
  NoProbe = NoProbe
  MaxTurns = 2
  MaxSetBack = 1
CHECK_DEADLOCK FALSE
INVARIANTS
  IndInv
  OutboundInv
  OperationsInv
PROPERTIES
  NoOvertaking
  StartsSpaced
  EveryCallSettles
  ResolvedByNewest
  AlertsFollow
