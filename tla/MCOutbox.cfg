SPECIFICATION Spec
CONSTANTS
  Replicas = {p}
  Rows = {1, 2}
  Destinations = {events, streams}
  Reliable = {}
  Has <- HasAll
  Defer = FALSE
  LANES = 1
  BATCH = 1
  INFLIGHT = 1
  PUBLISHED = 1
SYMMETRY Symmetry
INVARIANTS NothingDropped MemoryBounded
PROPERTIES Implements
CHECK_DEADLOCK FALSE
