SPECIFICATION Spec
CONSTANTS
  Classes = {b}
  Unions = {u}
  Members = {x}
  Enums <- MCEnums
  Reps <- MCReps
  SizeType = "u64"
  Bases <- MCNoRecord
  Declarators <- MCNested
  MemberTypes <- MCNoMembers
  Anonymous <- MCNoMembers
  MaxDecls = 2
  VarWeight = 1
  MaxElements = 2
  LiteralSize = 2
INVARIANTS InUseLive
CHECK_DEADLOCK FALSE
