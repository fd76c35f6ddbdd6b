SPECIFICATION AlarmSpec
CONSTANTS
  Series <- SeriesMC
  Sources <- SourcesMC
  Value <- ValueMC
  Limit = 0
  Delay = 0
  MaxEvents = 1
  BadEvents = {}
  Gaps <- NoGapsMC
  BatchSize = 2
  MaxAttempts = 2
  MaxLate = 0
  MaxRestarts = 0
INVARIANT PrunedIsAcknowledged
