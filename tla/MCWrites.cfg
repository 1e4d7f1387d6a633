SPECIFICATION WritesSpec
CONSTANTS
  h1 = h1
  h2 = h2
  p = p
  Calls = {"charge", "terminate", "undelete"}
  Once = {"charge", "terminate"}
  Retried = {"charge"}
  Assigns = {"terminate"}
  Removes = {"terminate"}
  Revives = {"undelete"}
  Refusing = {"charge", "terminate"}
  Handlers = {h1, h2}
  Associated = TRUE
  Retries = 1
  LastAttempt = 1
  MaxArrivals <- Twice
  MaxExpired = 1
  Expected <- Versions
  Replicas = {p}
  Rows = {1}
  Destinations = {events, streams}
  Reliable = {events}
  Has <- HasAll
  Defer = FALSE
  LANES = 1
  BATCH = 1
  INFLIGHT = 1
  PUBLISHED = 2
INVARIANTS NoLostUpdate EventImages OnceExact ReplyIsTrue Permitted
PROPERTIES Ends Recovery NeverResent
CHECK_DEADLOCK FALSE
