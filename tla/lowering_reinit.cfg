SPECIFICATION Spec
CONSTANTS
  Funcs = {"f", "g"}
  LFuncs = {"f", "g"}
  Mark <- MCMark
  Result <- MCResult
  Params <- MCParams
  CaseVals <- MCCaseVals
  MaxItems = 3
  MaxWithErrors = 4
  DeclInits = {"none", "constant", "value"}
  LoopInits = {"expr", "value"}
  MaxDepth = 4
  NestInBodies = FALSE
INVARIANTS
  InitializedEachTime
