SPECIFICATION CreatedSpec
CONSTANTS
  r1 = r1
  r2 = r2
  Requests = {r1, r2}
  Reaper = reaper
  None = none
  Ops = {"input"}
  MaxObj = 1
  MaxPrompts = 2
  MaxSteps = 0
  MaxRestarts = 0
SYMMETRY Symmetry
INVARIANTS
  AckedIsAlwaysDurable
CHECK_DEADLOCK FALSE
