SPECIFICATION Spec
CONSTANTS
  r1 = r1
  r2 = r2
  p = p
  q = q
  Requests = {r1, r2}
  L0_MAX_SLOTS = 1
  Prompts = {p}
  NoPrompt = none
  Score <- Scores
  SIMILARITY_THRESHOLD = 1
  MIN_SCORE <- MinusOne
  PENDING_LIFESPAN = 1
  TIMEMOD = 16
  MaxTime = 3
  MaxEntries = 1
CHECK_DEADLOCK FALSE
PROPERTY LifespanHonoured
