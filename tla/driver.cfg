SPECIFICATION Spec
CONSTANTS
  SlabSize = 4
  GrowthDelay = 1
  SizeThreshold = 4
  MinAlign = 2
  SlabSaturate = 30
  RecordSize = 2
  RecordAlign = 2
  Sizes = {1, 5}
  Aligns = {1, 4}
  MaxFiles = 2
  StopAts = {1, 2, 3, 8}
  MaxOutput = 2
  PipeSize = 1
  MaxOps = 2
INVARIANTS
  BlocksApart
  CleanupsSound
  FilesIndependent
  ExitCodeTells
  CppSucceeded
  ReapedOnce
PROPERTIES
  Terminates
