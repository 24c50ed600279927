\* Two processes and two faults of any kind; two channels and four clicks.
CONSTANTS
  d = d
  e = e
  x = x
  y = y
  Node = {d, e}
  Hit = {x, y}
  NodeOf <- TwoNodes
  Limit = 2
  MaxCount = 2
  Window = 2
  Breaker = 3
  Cap = 4
  Faults = {"refused", "expire", "reply", "ttl", "crash"}
  MaxFaults = 2
  Channel = {"general", "incidents"}
  Call = {1, 2}
  MaxClicks = 4
  MaxLost = 1
SPECIFICATION SmallSpec
INVARIANT RedisWithinLimit
INVARIANT EveryLifeEnds
PROPERTY WindowReopens
PROPERTY ChannelsSettle
\* With every click of the bound made the page has nothing left to do.
CHECK_DEADLOCK FALSE
