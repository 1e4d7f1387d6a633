SPECIFICATION RealtimeSpec
CONSTANTS
  Gateways = {g1}
  Clients = {c1}
  MAXLEN = 3
  Events = 2
  Opens = 1
  Faults = 1
INVARIANTS EveryOpenStream
CHECK_DEADLOCK FALSE
