SPECIFICATION ConfigSpec
CONSTANTS
  Console <- ConsoleMC
  MaxRevision = 3
  MaxFailures = 0
INVARIANT NothingStaleUnderNewRevision
