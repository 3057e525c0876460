SPECIFICATION Spec
CONSTANTS
  ByteSize = 256
  MaxDest = 3
  Enabled <- FirstAndLast
  RegStep = 10
  RegLimit = 250
  CsqStep = 20
  CsqLimit = 240
  Signals <- SomeSignal
INVARIANTS
  TypeOK
  ResetsKeepComing
PROPERTY EveryDestinationTried
PROPERTY RegistrationEnds
