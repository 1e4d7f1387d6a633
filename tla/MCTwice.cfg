SPECIFICATION Spec
CONSTANTS
  p1 = p1
  p2 = p2
  h1 = h1
  h2 = h2
  l1 = l1
  l2 = l2
  Replicas = {p1}
  Handers = {h1, h2}
  Ids = {1}
  Recurring = {1}
  Intervals = {1}
  Overdue <- Bounded
  Expiry <- Ends
  Calendar <- Daily
  Lanes = {l1}
  Assignments <- Steady
  Misfits = {}
  Halts = FALSE
  DISCRETENESS = 1
  BATCH = 2
  Horizon = 2
  Handles = 1
  Strays = 0
PROPERTIES NothingSkipped
CHECK_DEADLOCK FALSE
