SPECIFICATION Spec
CONSTANTS
  Bits <- MCBits
  Classes = {"K"}
  Unions = {}
  Members = {"n", "a"}
  Enums <- MCEnums
  Reps <- MCReps
  SizeType = "u64"
  Symbols <- MCSymbols
  RecordSizes <- MCRecordSizes
  Definitions <- MCDefinitions
  Vocabularies <- MCVocabularies
INVARIANTS WellTyped MeaningKept ConstNotWritten ConstantExact EffectsOnce PhisMatchEdges
CHECK_DEADLOCK FALSE
