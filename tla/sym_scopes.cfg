SPECIFICATION Spec
CONSTANTS
  Names = {nm}
  Signatures = {sig}
  MaxScopes = 6
  MaxSyms = 3
  Bounds <- MCBounds
INVARIANTS
  WalkersFollow
  LookupsLexical
  SymbolsOwned
CHECK_DEADLOCK FALSE
