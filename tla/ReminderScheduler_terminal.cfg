SPECIFICATION Spec
CONSTANTS
  early = early
  late = late
  Workers = {w1, w2}
  Tasks <- TwoTasks
  Recipients = {user}
  None = None
  Stale = Stale
  RemindFrom <- RemindTimes
  EscalateFrom <- EscalateTimes
  Threshold = 2
  Repeat = 2
  EscalateEvery = 3
  Intervals = {1, 2}
  MaxLease = 2
  CandidateLimit = 1
  MaxTime = 3
  MaxFaults = 1
CHECK_DEADLOCK FALSE
PROPERTY
  TerminalSilent
