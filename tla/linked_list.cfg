SPECIFICATION Spec
CONSTANTS
  List = {la, lb}
  Node = {n1, n2, n3, n4}
  Val = {va, vb}
  Null = null
SYMMETRY MCSymmetry
INVARIANTS
  ListsAgree
  LoopStaysOnLists
PROPERTIES
  KeepsOrder
CHECK_DEADLOCK FALSE
