SPECIFICATION FairDiscoverySpec
CONSTANTS
  Job <- JobMC
  Admin <- AdminMC
  Collector <- CollectorMC
  Host <- HostMC
  None = None
INVARIANTS
  CandidatesAreComplete
PROPERTIES
  ImplementsScanBoard
  EveryScanSettles
