SPECIFICATION FairSpec
CONSTANTS
  Reading <- ReadingsMC
  Malformed <- MalformedMC
  Uncovered <- UncoveredMC
  BatchSize = 2
  MaxAttempts = 2
  MaxLate = 1
  MaxRestarts = 1
INVARIANTS
  AckedIsStored
  StoredOnce
  QuarantineEarned
PROPERTIES
  ImplementsStoreAndForward
  EveryReadingSettles
