SPECIFICATION UpdateSpec
CONSTANTS
  MaxVersion = 3
  Bad <- BadMC
  Torn = torn
  Absent = absent
  MaxLosses = 1
  MaxErrors = 1
PROPERTY RecoveryRestoresPrevious
