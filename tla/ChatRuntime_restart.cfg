SPECIFICATION Spec
CONSTANTS
  r1 = r1
  r2 = r2
  Requests = {r1, r2}
  Reaper = reaper
  None = none
  Ops = {"open", "input", "pin"}
  MaxObj = 2
  MaxPrompts = 2
  MaxSteps = 1
  MaxRestarts = 1
SYMMETRY Symmetry
INVARIANTS
  AckedIsDurable
PROPERTIES
  RestartKeepsHistory
CHECK_DEADLOCK FALSE
