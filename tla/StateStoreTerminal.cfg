SPECIFICATION FairSpec
CONSTANTS
  i1 = i1
  i2 = i2
  Installs <- MCInstalls
  InFlight <- MCInFlight
  MaxClock = 3
  MaxFailures = 1
PROPERTIES
  TerminalStateReachesDisk
CHECK_DEADLOCK FALSE
