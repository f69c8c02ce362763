SPECIFICATION Spec
CONSTANTS
  Session = {1, 2}
  FileOf <- MCFileOf
  Legacy = 0
  OldSession = {}
  Message = {1, 2}
  IdRank <- MCRank
  MaxTime = 3
  InactiveFor = 1
  MaxIncidents = 2
  MaxFaults = 1
  i1 = i1
  i2 = i2
  Ident = {i1, i2}
  AccountName <- MCNames
  CodexRequest = {r1, r2}
  Asks = {"accounts", "status", "switch", "import", "login"}
  MaxGen = 1
  MaxAsked = 2
  MaxCodexFaults = 1
  p1 = p1
  p2 = p2
  p3 = p3
  n1 = n1
  n2 = n2
  k1 = k1
  ProvId = {p1, p2, p3}
  ProvName = {n1, n2}
  ApiKey = {k1}
  NoKey = NoKey
  NoProv = NoProv
  Registries <- MCRegistries
  LlmRequest = {q1, q2}
  MaxAsks = 2
  MaxLlmFaults = 1
  MinuteTicks = 2
  HourMinutes = 3
  DayHours = 2
  WeekDays = 2
  MonthStarts = {0, 3}
  YearDays = 5
  SearchDays = 5
  Zones <- MCZones
  Submitted <- MCSubmitted
  Horizon = 60
CONSTRAINT FirstIsOfOne
SYMMETRY Handlers
INVARIANTS
  HistoryIsSound
  RegistryIsKept
PROPERTIES
  CleanupSparesTheActive
  AccountsAreKept
  RunsWhenAsked
CHECK_DEADLOCK FALSE
