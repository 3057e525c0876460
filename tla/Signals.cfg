SPECIFICATION Spec
CONSTANTS
  Lamps <- TwoLamps
  BootChannel = 2
  MaxChanges = 2
  MaxFaults = 2
INVARIANTS MaskCurrentOrDue WaitArmed FaultToldOrDue
PROPERTIES
  MaskCatchesUp
  WaitEnds
  FaultReported
