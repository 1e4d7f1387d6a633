SPECIFICATION TransitionSpec
CONSTANTS
  Calls = {"charge", "edit", "touch"}
  Once = {}
  Retried = {}
  Assigns = {"touch"}
  Removes = {}
  Revives = {}
  Refusing = {}
  Handlers = {h1, h2}
  Associated = TRUE
  Retries = 0
  LastAttempt = 0
  MaxArrivals <- Twice
  MaxExpired = 0
  Expected <- Versions
INVARIANTS OwnImages
CHECK_DEADLOCK FALSE
