SPECIFICATION FairSpec
CONSTANTS
  g1 = g1
  g2 = g2
  h1 = h1
  h2 = h2
  Gateways = {g1}
  Handlers = {h1, h2}
  None = none
  MaxPolls = 2
  MaxCalls = 2
CHECK_DEADLOCK FALSE
INVARIANTS TypeOK LateOnlyIfForced ArenaOutlivesUsers
PROPERTIES ServeSettles EngineStops
