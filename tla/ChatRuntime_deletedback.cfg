SPECIFICATION CreatedSpec
CONSTANTS
  r1 = r1
  r2 = r2
  Requests = {r1, r2}
  Reaper = reaper
  None = none
  Ops = {"input", "delete"}
  MaxObj = 1
  MaxPrompts = 1
  MaxSteps = 0
  MaxRestarts = 0
SYMMETRY Symmetry
INVARIANTS
  DeletedStateStaysRemoved
CHECK_DEADLOCK FALSE
