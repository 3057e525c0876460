SPECIFICATION UndisturbedSpec
CONSTANTS
  N = 2
  ByteSize = 4
  Params <- OneParam
  MinSamples = 2
  MinChecks = 2
  Loads <- LampOnOff
  ActiveMasks <- LampsCycle
  CmdMasks <- FirstOnly
PROPERTIES
  NoLossUndetected
  CalibrationCompletes
