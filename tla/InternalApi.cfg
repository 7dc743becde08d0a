SPECIFICATION ApiSpec
CONSTANTS
  d1 = d1
  u1 = u1
  u2 = u2
  r1 = r1
  r2 = r2
  r3 = r3
  scheduler = scheduler
  p = p
  q = q
  Deliveries = {d1}
  Recipients = {d1, u1, u2}
  Requests = {r1, r2, r3}
  Workers = {r1, r2, r3, scheduler}
  Event <- EveryRow
  Scope <- OwnRows
  Eligible <- Drifting
  Payload <- Payloads
  None = None
  MaxRounds = 2
  MaxAttempts = 1
  BatchLimit = 1
  Stale = 1
  FirstDelay = 1
  LaterDelay = 1
  MaxFaults = 1
  MaxLapses = 2
  MaxStalls = 0
  client = client
  one = one
  two = two
  robot = robot
  Keys = {1, 2, 3}
  Issuers = {one, two}
  Clients = {robot}
  Horizon = 3
  Expiries = {1, 3}
  Graces = {0, 1}
  UseLag = 1
  NoKey = NoKey
  MaxIssuing = 3
  MaxBreaks = 1
  Peers = {client}
  TrustedPeers = {}
  Calls = {one, two}
  RoutePolicies = {"login", "admin"}
  MaxKeys = 1
  Capacity <- FewTokens
  NoBucket = NoBucket
  MaxWall = 1
  MaxGateFaults = 1
  Tasks = {one, two}
  Filters = {one, two}
  Searches = {one, two}
  Integrations = {one, two}
  Types = {one, two}
  Addressees = {one, two}
  Slots = {1, 2}
  MaxLogins = 2
  MaxRequests = 2
  MaxIssued = 2
  NoOne = NoOne
CHECK_DEADLOCK FALSE
INVARIANTS
  IntakeInv
  CredentialsInv
  GateInv
  ConsoleInv
PROPERTIES
  SummaryIsFinal
  EveryRequestSettles
