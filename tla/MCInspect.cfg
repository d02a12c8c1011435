SPECIFICATION Spec
CONSTANTS
  MaxBlocks = 4
  MaxExtrinsics = 1
  Texts <- MCTexts
INVARIANTS
  TypeOK
  PrintsTheNamedBlock
  PrintsTheNamedExtrinsic
  NotFoundIsTrue
CHECK_DEADLOCK FALSE
