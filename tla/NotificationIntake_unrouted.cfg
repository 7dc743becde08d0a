SPECIFICATION IntakeSpec
CONSTANTS
  d1 = d1
  u1 = u1
  u2 = u2
  r1 = r1
  r2 = r2
  r3 = r3
  scheduler = scheduler
  p = p
  q = q
  Deliveries = {d1}
  Recipients = {d1, u1, u2}
  Requests = {r1, r2, r3}
  Workers = {r1, r2, r3, scheduler}
  Event <- EveryRow
  Scope <- OwnRows
  Eligible <- Drifting
  Payload <- Payloads
  None = None
  MaxRounds = 2
  MaxAttempts = 1
  BatchLimit = 1
  Stale = 1
  FirstDelay = 1
  LaterDelay = 1
  MaxFaults = 0
  MaxLapses = 1
  MaxStalls = 0
INVARIANT
  UnroutedNotResent
