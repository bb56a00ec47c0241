SPECIFICATION Spec
CONSTANTS
  Dim = 3
  NoiseThreshold = 1
  MaxConnected = 4
  ProjRadius = 2
  Unit = 16
  Half = 64
  Grids <- Windows
  NextGrids <- LaterWindows
  LiftingTimeout = 1
  ReleaseHold = 1
  MaxSamples = 2
INVARIANT PeakIsStrongest
