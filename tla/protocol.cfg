SPECIFICATION Spec
CONSTANTS
  a = a
  b = b
  Objects = {a, b}
  Values <- SomeValues
  Lengths = {0, 5}
  Items <- ForeignItems
  MaxItems = 2
  MaxUnknown = 1
  Word = 16
  Wide = 64
  Group = 4
SYMMETRY Symmetry
INVARIANTS TypeOK HasBitConsistency ClearLeavesNothing RoundTrip SizeAgrees MergeIsConcatenation
