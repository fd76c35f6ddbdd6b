SPECIFICATION FairConfigSpec
CONSTANTS
  Console <- ConsoleMC
  MaxRevision = 4
  MaxFailures = 2
INVARIANTS
  ReportedIsRunning
  NeverAheadOfCloud
PROPERTIES
  NeverGoesBack
  ConfigConverges
