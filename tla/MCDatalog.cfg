SPECIFICATION Spec
CONSTANTS
  Alice = Alice
  Bob = Bob
  Longest = Longest
  TooLong = TooLong
  NoOrigin = NoOrigin
  DefaultRecord = DefaultRecord
  AccountId <- MCAccountId
  Record <- MCRecord
  RecordLen <- MCRecordLen
  OldLogs <- MCOldLogs
  WindowSize = 3
  MaximumMessageSize = 512
  MinimumPeriod = 1
  MaxMoment = 2
INVARIANTS
  TypeOK
  LiveSlotsFilled
  StaleAtMostOne
  OldXorNew
  MomentsOrdered
  WeightCoversDb
PROPERTIES
  ImplementsBoundedLog
