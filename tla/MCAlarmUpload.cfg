SPECIFICATION FairAlarmSpec
CONSTANTS
  Series <- SeriesMC
  Sources <- BothSourcesMC
  Value <- ValueMC
  Limit = 0
  Delay = 1
  MaxEvents = 2
  BadEvents <- BadMC
  Gaps <- GapsMC
  BatchSize = 2
  MaxAttempts = 1
  MaxLate = 1
  MaxRestarts = 1
INVARIANTS
  OpenEventMatchesRow
  PrunedIsStored
  CloudNotAhead
PROPERTIES
  NoFalseAlarm
  NoEarlyEnd
  ImplementsAlarmMirror
  EveryAlarmSettles
