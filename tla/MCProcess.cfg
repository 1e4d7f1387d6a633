SPECIFICATION ProcessSpec
CONSTANTS
  root = root
  a = a
  b = b
  shared = shared
  remote = remote
  Nodes = {root, a, b, shared, remote}
  Root = root
  Static <- Tree
  Late <- Lookup
  MayFail = {b, remote}
  MayStick = {b}
  Connects = 2
  p1 = p1
  p2 = p2
  h1 = h1
  Procs = {p1, p2}
  Halts = {h1}
  Depth = 2
  Mortal = {p2}
  Again = {p1}
  None = None
INVARIANTS ProcessOK NotAlone OneCycle NothingLeftPaused
PROPERTIES LastOut TornDown ComesBack
CHECK_DEADLOCK FALSE
