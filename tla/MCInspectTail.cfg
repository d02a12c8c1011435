SPECIFICATION Spec
CONSTANTS
  MaxBlocks = 2
  MaxExtrinsics = 1
  Texts <- MCTexts
INVARIANTS
  NothingAfterIndex
CHECK_DEADLOCK FALSE
