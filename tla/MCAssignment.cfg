SPECIFICATION Spec
CONSTANTS
  Regions = {0, 1}
  Rank <- Priority
  Ops = {"transition", "assignment"}
  MaxWrites = 3
INVARIANTS ConvergedWhateverMade
CHECK_DEADLOCK FALSE
