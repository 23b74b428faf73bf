SPECIFICATION SSpec
CONSTANTS
  MaxBlocks = 7
  MaxDepth = 4
  MaxFuncs = 2
  Labels = {la, lb}
  Families <- MCSound
INVARIANTS
  WellFormed
  GraphComplete
  StructureKept
  EdgesConsistent
  OnlyGotosAhead
CHECK_DEADLOCK FALSE
SYMMETRY MCSymmetry
