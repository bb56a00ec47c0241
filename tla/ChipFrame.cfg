SPECIFICATION FairSpec
CONSTANTS
  IdleThreshold = 2
  MaxAttempts = 2
INVARIANTS
  TypeOK
  ReadsOnlyWhenUp
  MasterIsRecent
  SleepIsPrompt
PROPERTIES
  IdleAfterQuiet
  SleepDisconnects
  ImplementsOutcomes
CHECK_DEADLOCK FALSE
