SPECIFICATION Spec
CONSTANTS
  N = 1
  ByteSize = 4
  Params <- TwoParams
  MinSamples = 2
  MinChecks = 1
  Loads <- LampOnOff
  ActiveMasks <- Masks
  CmdMasks <- OneByOne
INVARIANTS
  TypeOK
  CountersNeverWrap
  EvidenceIsReal
  LossesMakeFault
  MonitoredAfterQuietSeries
