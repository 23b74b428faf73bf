SPECIFICATION Spec
CONSTANTS
  Bits <- MCBits
  Classes = {"K"}
  Unions = {}
  Members = {"n", "a"}
  Enums <- MCEnums
  Reps <- MCReps
  SizeType = "u64"
  Symbols <- MCSymbols
  RecordSizes <- MCRecordSizes
  Definitions <- MCDefinitions
  Vocabularies <- CallsOnly
INVARIANT NoInternalError
CHECK_DEADLOCK FALSE
