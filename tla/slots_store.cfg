SPECIFICATION SearchSpec
CONSTANTS
  r1 = r1
  r2 = r2
  p = p
  p2 = p2
  q = q
  short = short
  wide = wide
  Requests = {r1, r2}
  L0_MAX_SLOTS = 2
  AllPrompts <- Sent
  Prompts = {p, p2}
  Text <- Texts
  Model <- Tensors
  VECTOR_DIM = 64
  MIN_SUM_SQ = 1
  SCALE = 400
  NoVector = noVector
  NoPrompt = none
  Score <- Scores
  SIMILARITY_THRESHOLD = 289
  MIN_SCORE <- MinusOne
  PENDING_LIFESPAN = 0
  TIMEMOD = 16
  MaxTime = 2
  MaxEntries = 2
CHECK_DEADLOCK FALSE
CONSTRAINT Asked
SYMMETRY Symmetry
INVARIANTS TypeOK NoMatchMissed UnrolledIsScalar GateWindow
PROPERTY ImplementsSlotStore
