SPECIFICATION Spec
CONSTANTS
  WindowSizes = {2, 3, 5}
  MaxRecords = 9
  MaxUpgrades = 2
INVARIANTS
  TypeOK
  FitKeepsLog
  EndlessOnlyIfLowered
  DrainAgrees
PROPERTIES
  HolesHeal
CHECK_DEADLOCK FALSE
