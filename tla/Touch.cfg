SPECIFICATION Spec
CONSTANTS
  MaxTouch = 3
  LiftOffHold = 1
  PressFrames = 1
  LongPressFrames = 2
  ReleaseFrames = 0
  Stability = {TRUE}
  PerPacket = 1
INVARIANTS
  TypeOK
  OneFingerPerId
  HostContactsRemembered
PROPERTIES
  TrackEndsWithUp
  ImplementsStrokes
