SPECIFICATION MaintenanceSpec
CONSTANTS
  MaxUpgrades = 2
  Images = 2
  MaxFaults = 1
  Installs = {a, b}
  Savers = {1, 2}
  Intervals = {1, 2}
  MaxClock = 2
  MaxSaves = 2
  MaxOutages = 1
INVARIANTS
  FinishedIsDurable
PROPERTIES
  LoneUpgradeIsAtomic EveryUpgradeEnds CursorKeepsSettings DueIsFired
CHECK_DEADLOCK FALSE
