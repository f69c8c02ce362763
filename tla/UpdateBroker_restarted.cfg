SPECIFICATION BrokerSpec
CONSTANTS
  o1 = o1
  o2 = o2
  Owner = {o1, o2}
  Window = 4
  MaxEvents = 2
  MaxBrokerRestarts = 1
INVARIANTS
  GapIsTold
CHECK_DEADLOCK FALSE
