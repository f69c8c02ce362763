SPECIFICATION ProgressSpec
CONSTANTS
  r1 = r1
  r2 = r2
  Requests = {r1, r2}
  Reaper = reaper
  None = none
  Ops = {"open", "input", "inputRepo", "retry", "delete", "stop"}
  MaxObj = 1
  MaxPrompts = 2
  MaxSteps = 0
  MaxRestarts = 0
  o1 = o1
  o2 = o2
  Owner = {o1, o2}
  Window = 3
  MaxEvents = 5
  MaxBrokerRestarts = 1
  Service = {"s1"}
  Managed = {"c1", "c2"}
  Plain = {"d"}
  PortOf <- MCPort
  Forking = {"c2"}
  WebRequest = {"r1", "r2"}
  MaxProcesses = 2
  MaxWsFaults = 1
  MaxBegun = 2
  Manners = {"polite", "refuses", "unstarted", "absent", "mute", "chatty"}
  JobId = {"b", "m", "j", "J"}
  KeyOf <- MCKey
  BuiltinJob = "b"
  RetiredJob = "m"
  StoredJobs <- MCStored
  MaxJobVersion = 1
  MaxRunners = 4
  MaxJobFaults = 2
  MaxFirings = 1
CONSTRAINT SavesApart
INVARIANTS
  LossIsTold
  NothingSkipped
  ServicesRunAsBound
PROPERTIES
  TurnsEnd
  CatchesUp
  RequestsAreAnswered
  AnsweredCallsEnd
  JobsAreRunOnce
  CancelledRunnersEnd
CHECK_DEADLOCK FALSE
