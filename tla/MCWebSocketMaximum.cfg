CONSTANTS
  None = None
  Greenlet = {m, h1}
  Main = m
  Connection = {c1, c2}
  MaxConnections = 1
SPECIFICATION WebSocketSpec
CHECK_DEADLOCK FALSE
INVARIANTS
  PoolWithinMaximum
