SPECIFICATION CalmSpec
CONSTANTS
  r1 = r1
  r2 = r2
  r3 = r3
  s1 = s1
  s2 = s2
  p = p
  q = q
  w1 = w1
  Requests = {r1, r2, r3}
  Workers = {w1}
  Slots = {s1, s2}
  Prompts = {p, q}
  LongPrompts = {}
  None = none
  QueueCap = 1
CHECK_DEADLOCK FALSE
SYMMETRY Symmetry
INVARIANTS RightAnswer PioneerFindable
