SPECIFICATION FairSpec
CONSTANTS
  Events = {"DisplayOff", "LidOff", "DisplayOn"}
  IpcRequests = {}
  PenReports = {}
  AutoMode = TRUE
  MaxRecover = 1
  MaxFrameErrors = 2
  MaxQueue = 1
PROPERTY WakeIsNotUndone
CHECK_DEADLOCK FALSE
