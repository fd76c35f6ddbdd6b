SPECIFICATION FairUpdateSpec
CONSTANTS
  MaxVersion = 4
  Bad <- BadMC
  Torn = torn
  Absent = absent
  MaxLosses = 2
  MaxErrors = 2
INVARIANTS
  RollbackReady
  InstalledIsProven
  OnlyProvenCollects
PROPERTIES
  CommitsForward
  CollectionSettles
