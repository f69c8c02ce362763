SPECIFICATION TraceSpec
CONSTANTS
  ItemId = {"k", "none"}
  NoItem = "none"
  Said = {}
  Shown = {"system", "important_text"}
  PageTurns = 2
  PageBytes = 2
  MaxTurns = 1
  MaxRuns = 1
  MaxEvents = 2
  MaxUpdates = 4
INVARIANTS
  UpdatesReachThePage
CHECK_DEADLOCK FALSE
