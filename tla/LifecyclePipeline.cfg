SPECIFICATION FairSpec
CONSTANTS
  EntryState <- UDPEntryState
  CommandSteps <- UDPCommandSteps
  InProcessSteps <- UDPInProcessSteps
  MaxTasks = 2
  MaxRestarts = 0
  MaxFailures = 1
PROPERTIES
  EveryTaskEnds
CHECK_DEADLOCK FALSE
