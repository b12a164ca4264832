SPECIFICATION IngestSpec
CONSTANTS
  MaxJobs = 2
  Tables = {t}
  MaxStarts = 2
PROPERTIES FailedWritesNoMore
CHECK_DEADLOCK FALSE
