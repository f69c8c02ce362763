SPECIFICATION SupervisorSpec
CONSTANTS
  h1 = h1
  h2 = h2
  Handlers = {h1, h2}
  MaxChildren = 2
  MaxUpdates = 1
SYMMETRY Symmetry
PROPERTIES
  NeverDeserts
CHECK_DEADLOCK FALSE
