SPECIFICATION Spec
CONSTANTS
  Task = {"t1", "t2", "t3"}
  Owner <- MCOwner
  MaxTaskFaults = 1
  HistorySession = {"h1"}
  Chat = {"c1"}
  Upload = {"u1"}
  Previewed = {"u1"}
  CleanupRun = {"r1", "r2"}
  MaxStirs = 1
  MaxCleanupFaults = 1
  ItemId = {"k", "none"}
  NoItem = "none"
  Said = {"message", "plan"}
  Shown = {"system", "important_text"}
  PageTurns = 2
  PageBytes = 2
  MaxTurns = 3
  MaxRuns = 2
  MaxEvents = 3
  MaxUpdates = 4
  UserMessage = {"m1", "m2", "m3"}
  Key = {"k", "j"}
  Value = {"x", "y", "z"}
  Saying <- MCSaying
  Cost <- MCCost
  LayerTokens <- MCTokens
  LayerTTL <- MCTTL
  LayerIdle <- MCIdle
  PromoteHits <- MCHits
  MaxActive = 2
  MaxHits = 2
  Budget = 2
  RecallParts = 3
  MaxNow = 2
  MaxEdits = 1
  g1 = g1
  g2 = g2
  n1 = n1
  n2 = n2
  n3 = n3
  Repo = {g1, g2}
  RepoName = {n1, n2, n3}
  NoCheckout = NoCheckout
  UploadedFile = {"u1"}
  Segment <- MCSegment
  PageSize = 1
  MaxTurnFiles = 1
  MaxWsTurns = 2
  MaxWsFaults = 2
  MaxHubChanges = 1
  Prompts <- MCPrompts
  OldRecords <- MCOldRecords
  IdText <- MCIdText
  TitleLength = 16
  MaxInputs = 2
  MaxTitleRestarts = 1
  UpdateRequest = {q1, q2}
  MaxCommits = 1
  MaxOwnWork = 1
  History = 1
  Skill = {"a", "b"}
  BuiltinSkill = {"a"}
  RetiredSkill = {}
  SkillEntry <- MCEntry
  AuditLimit = 2
  MaxSource = 1
  MaxChanges = 2
  MaxControlFaults = 1
CONSTRAINT Bounds
INVARIANTS
  StoresTypeOK
  TasksAreKept
  StoryInOrder
  TraceIsTrue
  RepositoriesAreTrue
PROPERTIES
  DeletionsAreComplete
  MemoryIsKept
  WorkIsKept
  TitlesAreKept
  UpdateIsAsAsked
  ChangesAreWhole
CHECK_DEADLOCK FALSE
