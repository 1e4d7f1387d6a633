SPECIFICATION FairSpec
CONSTANTS
  p1 = p1
  p2 = p2
  h1 = h1
  h2 = h2
  l1 = l1
  l2 = l2
  Replicas = {p1}
  Handers = {}
  Ids = {1, 2}
  Recurring = {}
  Intervals = {1}
  Overdue <- Unbounded
  Expiry <- Ends
  Calendar <- Daily
  Lanes = {l1}
  Assignments <- Steady
  Misfits = {}
  Halts = FALSE
  DISCRETENESS = 1
  BATCH = 1
  Horizon = 2
  Handles = 2
  Strays = 0
INVARIANTS HeldWhileOwed
PROPERTIES Disposal
CHECK_DEADLOCK FALSE
