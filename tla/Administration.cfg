SPECIFICATION Administration
CONSTANTS
  u1 = u1
  u2 = u2
  d1 = d1
  d2 = d2
  owner = owner
  staff = staff
  standard = standard
  custom = custom
  p1 = p1
  p2 = p2
  north = north
  south = south
  one = one
  two = two
  None = None
  Users = {u1, u2}
  Divisions = {d1, d2}
  Roles = {owner, staff}
  BusinessRoles = {owner}
  Editors = {one, two}
  Values = {standard, custom}
  Baseline = standard
  MaxVersion = 2
  MaxLosses = 1
  Null = Null
  People = {p1, p2}
  Units = {north, south}
  Tasks = {one, two}
  Grants <- Everything
  Callers = {bot, page}
  Bot = bot
  MaxRequestFaults = 1
  MaxMoves = 1
  number = number
  clerk = clerk
  robot = robot
  NoReference = NoReference
  Batches = {one, two}
  Origins = {clerk, robot}
  Machines = {robot}
  ExternalReferences = {number}
  MaxRows = 2
  MaxIngestFaults = 1
  Visitors = {one, two}
  Passwords = {standard, custom}
  NoVisit = NoVisit
  MaxSessions = 3
  SessionCap = 2
  FailureLimit = 1
  Staff = {one, two}
  Departments = {d1}
  Codes = {number}
  Desks = {bot, page}
  Chat = bot
  Nothing = Nothing
  MaxEdits = 2
  MaxShifts = 1
  Invited = {u1}
  Chats = {one, two}
  Names = {standard}
  LegacyNames = {}
  Tickets = {1, 2}
  Pages = {p1, p2}
  Nobody = Nobody
  MaxMishaps = 1
  Tabs = {one, two}
  Operators = {clerk}
  Strangers = {robot}
  MaxTries = 2
  MaxSetupFaults = 1
  NoInstaller = NoInstaller
CHECK_DEADLOCK FALSE
SYMMETRY Symmetry
INVARIANTS
  IndInv
  AdminRemains
  BusinessActorFit
  SettingsIndInv
  ConsolesInv
  IngestionInv
  SessionsInv
  AccessInv
  IdentityInv
  BootstrapInv
PROPERTIES
  EditsBuildOnSeen
  NeverRegresses
  FieldsApart
