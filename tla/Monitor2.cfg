SPECIFICATION ClockSpec
CONSTANTS
  N = 2
  ByteSize = 4
  Params <- OneParam
  MinSamples = 2
  MinChecks = 2
  Loads <- LampOnOff
  ActiveMasks <- LampsCycle
  CmdMasks <- FirstOnly
INVARIANTS
  SuspensionBounded
  MuxFollowsSelection
  EvidenceOnlyWhenLossy
  FaultFlagOnRelay
PROPERTIES
  FaultBackedByLosses
  ImplementsDetector
