SPECIFICATION Spec
CONSTANTS
  Configs <- MCConfigs
INVARIANTS
  TypeOK
  NoEventMissed
  SignersHoldKeys
  TakenDownByConsensus
PROPERTIES
  MissedOnlyWhileStarting
  EssentialFailureStops
  FailedStartStopsTasks
CHECK_DEADLOCK FALSE
