SPECIFICATION RegionsSpec
CONSTANTS
  Regions = {0, 1}
  Rank <- Priority
  Ops = {"transition", "assignment", "set"}
  MaxWrites = 3
  g1 = g1
  c1 = c1
  c2 = c2
  Gateways = {g1}
  Clients = {c1, c2}
  MAXLEN = 3
  Events = 2
  Opens = 2
  Faults = 1
INVARIANTS OrderFree Decided Converged NoneSkipped
PROPERTIES Converges CatchesUp
CHECK_DEADLOCK FALSE
