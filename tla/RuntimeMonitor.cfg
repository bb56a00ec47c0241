SPECIFICATION FairSpec
CONSTANTS
  Events = {"DisplayOff", "DisplayOn", "Shutdown"}
  IpcRequests = {}
  PenReports = {}
  AutoMode = TRUE
  MaxRecover = 1
  MaxFrameErrors = 2
  MaxQueue = 1
INVARIANTS
  TypeOK
  NoTerminate
  FramesOnlyFromLiveChip
  AsleepIsDisconnected
PROPERTIES
  SleepTakesEffect
  StopReturns
  CleanWakeTakesEffect
  ImplementsLifecycle
CHECK_DEADLOCK FALSE
