SPECIFICATION HaltFairSpec
CONSTANTS
  Procs = {p1}
  Halts = {h1, h2, h3}
  Depth = 2
  Mortal = {}
  Again = {}
  None = None
INVARIANTS CancelUndoes
CHECK_DEADLOCK FALSE
