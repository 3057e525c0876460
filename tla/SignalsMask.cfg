SPECIFICATION Spec
CONSTANTS
  Lamps <- TwoLamps
  BootChannel = 2
  MaxChanges = 2
  MaxFaults = 0
INVARIANT MaskIsOfLamps
