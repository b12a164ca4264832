SPECIFICATION StreamsSpec
CONSTANTS
  HistorySize = 2
  QueueSize = 3
  MaxEvents = 4
  MaxSessions = 2
  MaxRestarts = 1
  Viewers = {v, w}
INVARIANTS NoRepeat NoGap ProvisionTellsOneStory
PROPERTIES EveryEventIsShown EveryStreamEnds
CHECK_DEADLOCK FALSE
