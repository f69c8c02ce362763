SPECIFICATION Spec
CONSTANTS
  r1 = r1
  r2 = r2
  Requests = {r1, r2}
  Reaper = reaper
  None = none
  Ops = {"open", "input", "delete", "list", "fault"}
  MaxObj = 3
  MaxPrompts = 2
  MaxSteps = 0
  MaxRestarts = 0
SYMMETRY Symmetry
INVARIANTS
  OneLiveObject
  DeletedStaysAway
CHECK_DEADLOCK FALSE
