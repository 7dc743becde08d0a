SPECIFICATION FairSpec
CONSTANTS
  d1 = d1
  d2 = d2
  scheduler = scheduler
  intake = intake
  Deliveries = {d1, d2}
  Workers = {scheduler, intake}
  Event <- OneEvent
  Scope <- OneEvent
  None = None
  MaxAttempts = 2
  BatchLimit = 1
  Stale = 2
  FirstDelay = 1
  LaterDelay = 2
  MaxFaults = 1
  MaxStalls = 0
INVARIANTS
  IndInv
  SendsBounded
PROPERTIES
  NeverReopened
  EveryDeliverySettles
