SPECIFICATION FairSpec
CONSTANTS
  N = 4
  Block <- MCBlock
  Uses <- MCUses
  Entry = 1
INVARIANTS
  WalkExact
  OrderIsDepthFirst
  IteratorYieldsOrder
PROPERTIES
  WalkEnds
  PostorderPromise
CHECK_DEADLOCK FALSE
