SPECIFICATION RegistrySpec
CONSTANTS
  d1 = d1
  d2 = d2
  d3 = d3
  s1 = s1
  s2 = s2
  a1 = a1
  a2 = a2
  Device <- DeviceMC
  Site <- SiteMC
  Address <- AddressMC
  Capacity = 2
  Saver <- SaverMC
  None = None
SYMMETRY SymmetryMC
INVARIANTS
  LinksAreFlat
  RetiredSiteIsEmpty
PROPERTIES
  EveryChangeIsPublished
