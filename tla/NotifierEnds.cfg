SPECIFICATION Spec
CONSTANTS
  ByteSize = 14
  MaxDest = 3
  Enabled <- FirstAndLast
  RegStep = 2
  RegLimit = 12
  CsqStep = 3
  CsqLimit = 12
  Signals <- SomeSignal
PROPERTY NotificationEnds
