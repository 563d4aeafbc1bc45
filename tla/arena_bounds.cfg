SPECIFICATION FairSpec
CONSTANTS
  n1 = n1
  n2 = n2
  w1 = w1
  w2 = w2
  r1 = r1
  GC = gc
  NoNode = none
  Nodes = {n1, n2}
  Writers = {w1}
  Readers = {r1}
  HDR = 3
  BUFFER = 10
  LOW = 5
  LENMOD = 3
  OFFMOD = 10
  MaxHead = 18
  Garbage = {0, 9}
  MaxTail = 12
CHECK_DEADLOCK FALSE
INVARIANTS TypeOK RingBounds ReservationsDisjoint
 
