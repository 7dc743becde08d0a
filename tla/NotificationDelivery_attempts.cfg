SPECIFICATION Spec
CONSTANTS
  d1 = d1
  d2 = d2
  scheduler = scheduler
  intake = intake
  Deliveries = {d1}
  Workers = {scheduler, intake}
  Event <- OneEvent
  Scope <- OneEvent
  None = None
  MaxAttempts = 3
  BatchLimit = 1
  Stale = 2
  FirstDelay = 1
  LaterDelay = 3
  MaxFaults = 1
  MaxStalls = 0
INVARIANT AttemptsBounded
