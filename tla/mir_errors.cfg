SPECIFICATION Spec
CONSTANTS
  Faults = {"header", "error", "report", "constant", "eval", "escape", "argc"}
  MaxDepth = 5
  MaxScopes = 5
  MaxErrors = 3
INVARIANTS
  ScopesTied
  ErrorsTold
CHECK_DEADLOCK FALSE
