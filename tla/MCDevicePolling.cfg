SPECIFICATION FairPollingSpec
CHECK_DEADLOCK FALSE
CONSTANTS
  Address <- AddressMC
  MaxTime = 4
  MaxSent = 1
  MaxRestarts = 1
  None = None
INVARIANTS
  GapIsNeverStored
  ShownIsCurrent
  LastSampleKept
PROPERTIES
  SessionsFollow
