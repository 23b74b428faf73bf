SPECIFICATION Spec
CONSTANTS
  Funcs = {"f", "g"}
  LFuncs = {"f", "g"}
  Mark <- MCMark
  Result <- MCResult
  Params <- MCParams
  CaseVals <- MCCaseVals
  MaxItems = 4
  MaxWithErrors = 4
  DeclInits = {"none", "value"}
  LoopInits = {"expr", "value"}
  MaxDepth = 4
  NestInBodies = FALSE
INVARIANTS
  VisitsInStep
  SourceOrderKept
  JumpsPlaced
  StorageWhereDeclared
