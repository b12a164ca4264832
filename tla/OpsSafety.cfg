SPECIFICATION OpsSpec
CONSTANTS
  EntryState <- ShortEntryState
  CommandSteps <- ShortCommandSteps
  InProcessSteps <- ShortInProcessSteps
  MaxTasks = 2
  MaxRestarts = 1
  MaxFailures = 1
  MaxOps = 1
INVARIANTS
  InFlightHasDriver
  OutcomeSurvivesRestart
PROPERTIES
  UninstalledStaysGone
CHECK_DEADLOCK FALSE
