SPECIFICATION FairSpec
CONSTANTS
  Events = {}
  IpcRequests = {"StartRuntime", "StopRuntime"}
  PenReports = {"InitStylus", "DisconnectStylus"}
  AutoMode = TRUE
  MaxRecover = 2
  MaxFrameErrors = 2
  MaxQueue = 2
INVARIANTS
  DisconnectedPenNotTracked
  StoppedIsQuiet
PROPERTIES
  StartTakesEffect
CHECK_DEADLOCK FALSE
