SPECIFICATION CalmSpec
CONSTANTS
  r1 = r1
  r2 = r2
  p = p
  q = q
  Requests = {r1, r2}
  L0_MAX_SLOTS = 2
  Prompts = {p, q}
  NoPrompt = none
  Score <- Scores
  SIMILARITY_THRESHOLD = 1
  MIN_SCORE <- MinusOne
  PENDING_LIFESPAN = 0
  TIMEMOD = 16
  MaxTime = 2
  MaxEntries = 2
CHECK_DEADLOCK FALSE
SYMMETRY Symmetry
INVARIANTS BirthGate OnePioneer PayloadFits PendingFits HitFits
