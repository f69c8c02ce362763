SPECIFICATION Spec
CONSTANTS
  r1 = r1
  r2 = r2
  Requests = {r1, r2}
  Reaper = reaper
  None = none
  Ops = {"open", "input", "inputRepo", "retry", "read", "delete", "stop"}
  MaxObj = 2
  MaxPrompts = 3
  MaxSteps = 0
  MaxRestarts = 0
SYMMETRY Symmetry
ACTION_CONSTRAINT KeepsToOne
INVARIANTS
  OneTurnAtATime
  BusyIsDriven
PROPERTIES
  OutcomeStays
  ImplementsLedger
CHECK_DEADLOCK FALSE
