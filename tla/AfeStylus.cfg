SPECIFICATION Spec
CONSTANTS
  Wrap = 3
  Cooldown = 2
  PendingTimeout = 1
  PressureTimeout = 0
  HibernateTimeout = 1
  Debounce = 1
  PenTypes = {0}
  BtFreqs = {24}
  TpFreqs = {24, 161}
  AppTypes = {"ClearStatus", "ForceToFreqPoint"}
  MaxQueue = 1
INVARIANTS
  TypeOK
  PendingHeals
  NewPenIsFresh
  SwitchCommandIsCurrent
PROPERTIES
  RequestsAreSpaced
CHECK_DEADLOCK FALSE
