SPECIFICATION SupervisorFairSpec
CONSTANTS
  h1 = h1
  h2 = h2
  Handlers = {h1, h2}
  MaxChildren = 5
  MaxUpdates = 2
INVARIANTS
  SupervisorTypeOK
  AtMostOneChild
  StatusIsTrue
  WatchedChildIsGone
PROPERTIES
  SwitchIsReady
  UpdateEnds
  DeathIsNoticed
CHECK_DEADLOCK FALSE
