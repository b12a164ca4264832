SPECIFICATION ServicesSpec
CONSTANTS
  Families = {"airflow", "dagster", "superset", "observability", "hms", "nessie",
              "monitoring", "caddy", "jdbc", "certificate"}
  MaxRequests = 4
  MaxCrashes = 2
  Emails = {e, f, g}
  Commands = {c, d}
  Channels = {"toast"}
  EventKeys = {k, l}
  DedupTTL <- MCDedupTTL
  MaxTime = 7
  MaxEdits = 2
  QueueCap = 2
  Retention = 1
  MaxEvents = 4
  MaxDays = 3
  MaxTaps = 2
  MaxBackups = 2
  MaxDrills = 2
  MaxLosses = 1
  Ids = {a, b}
  RegistryKinds = {"source", "destination", "check", "result"}
  EnvKeys = {0, 1}
  MaxStarts = 3
  MaxUsers = 4
  MaxBuilds = 2
  MaxRuns = 2
  MaxClock = 2
  Regions = {"APAC", "EMEA"}
  Tables = {"a"}
  Csvs = {"a_1", "a_2"}
  TableOf <- MCTableOf
  MaxVersion = 2
  MaxStages = 3
  Versions = {1, 2, 3}
  Suffixed = {3}
INVARIANTS
  SidecarsAreWhole EachEventOnce SettledOnTheFile AnOwnerStays
  EntriesAreKept  PushedIsItsTag IngestsAreLoaded
PROPERTIES NoEarlyRepeat
CHECK_DEADLOCK FALSE
