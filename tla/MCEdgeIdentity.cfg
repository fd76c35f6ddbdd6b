SPECIFICATION FairIdentitySpec
CONSTANTS
  Machine <- MachineMC
  Site <- SiteMC
  Code <- CodeMC
  Provisioned <- ProvisionedMC
  None = None
  MaxCollectors = 1
  MaxGeneration = 2
INVARIANTS
  OneWriterPerLease
  CredentialIsGranted
  RetiredIsClosed
PROPERTIES
  ImplementsSiteAccess
  CredentialArrives
CHECK_DEADLOCK FALSE
