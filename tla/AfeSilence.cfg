SPECIFICATION Spec
CONSTANTS
  Wrap = 8
  Cooldown = 2
  PendingTimeout = 2
  PressureTimeout = 1
  HibernateTimeout = 2
  Debounce = 1
  PenTypes = {0}
  BtFreqs = {24}
  TpFreqs = {24}
  AppTypes = {"ClearStatus", "ForceToFreqPoint"}
  MaxQueue = 1
INVARIANT SilenceIsNoticed
CHECK_DEADLOCK FALSE
