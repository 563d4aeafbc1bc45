SPECIFICATION FairSpec
CONSTANTS
  g1 = g1
  g2 = g2
  h1 = h1
  h2 = h2
  Gateways = {g1}
  Handlers = {h1}
  None = none
  MaxPolls = 1
  MaxCalls = 1
CHECK_DEADLOCK FALSE
PROPERTY EngineFollows
