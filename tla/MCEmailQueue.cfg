SPECIFICATION FairEmailSpec
CONSTANTS
  Event <- EventMC
  Recipient <- RecipientMC
  Worker <- WorkerMC
  MaxAttempts = 2
  MaxEdits = 1
INVARIANTS
  AttemptsCoverSends
PROPERTIES
  ImplementsNoticeLedger
  NoAlarmAfterRecovery
  EveryNoticeSettles
