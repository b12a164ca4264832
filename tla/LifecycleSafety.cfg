SPECIFICATION Spec
CONSTANTS
  EntryState <- ShortEntryState
  CommandSteps <- ShortCommandSteps
  InProcessSteps <- ShortInProcessSteps
  MaxTasks = 3
  MaxRestarts = 1
  MaxFailures = 1
INVARIANTS
  OneDriver
  PipelineShape
CHECK_DEADLOCK FALSE
