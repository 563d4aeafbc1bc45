SPECIFICATION QuietSpec
CONSTANTS
  n1 = n1
  n2 = n2
  w1 = w1
  w2 = w2
  r1 = r1
  GC = gc
  NoNode = none
  Nodes = {n1, n2}
  Writers = {w1, w2}
  Readers = {r1}
  HDR = 2
  BUFFER = 7
  LOW = 3
  LENMOD = 2
  OFFMOD = 14
  MaxHead = 10
  Garbage = {0, 9}
  MaxTail = 12
CHECK_DEADLOCK FALSE
INVARIANTS
  ColdInRing
  HotIsRescued
PROPERTY ImplementsSlotStore
