SPECIFICATION RecordsSpec
CONSTANTS
  i1 = i1
  i2 = i2
  Installs <- MCInstalls
  InFlight <- MCInFlight
  MaxClock = 3
  MaxFailures = 1
  MaxJobs = 2
  Tables = {t}
  MaxStarts = 2
INVARIANTS
  CleanMeansSaved
  AckedTerminalSurvives
  DeletedStaysDeleted
  RowsAreItsOwn
PROPERTIES
  ImplementsWriteBack
  DirtyIsFlushed
  EveryJobEnds
CHECK_DEADLOCK FALSE
