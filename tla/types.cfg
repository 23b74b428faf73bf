SPECIFICATION Spec
CONSTANTS
    Classes = {b, d, e}
  Unions = {u}
  Members = {x, y}
  Enums <- MCEnums
  Reps <- MCReps
  SizeType = "u64"
  Bases <- MCBases
  Declarators <- MCDeclarators
  MemberTypes <- MCMemberTypes
  Anonymous <- MCAnonymous
  MaxDecls = 6
  VarWeight = 3
  MaxElements = 2
  LiteralSize = 2
INVARIANTS TypesFinite InUseLive UpcastKeepsMembers IndexFindsMember
CHECK_DEADLOCK FALSE
SYMMETRY MCSymmetry
