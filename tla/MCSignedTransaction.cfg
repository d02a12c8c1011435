SPECIFICATION Spec
CONSTANTS
  BlockHashCount = 5
  MaxHeight = 9
  MaxFork = 1
  MaxSpecVersion = 1
  MaxSigned = 2
INVARIANTS
  TypeOK
  PayloadAlwaysBuilt
  AliveIsApplicable
  NoReplay
  AppliedInEraOnFork
  SameRuntime
CHECK_DEADLOCK FALSE
