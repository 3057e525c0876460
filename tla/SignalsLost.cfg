SPECIFICATION Spec
CONSTANTS
  Lamps <- TwoLamps
  BootChannel = 2
  MaxChanges = 2
  MaxFaults = 1
PROPERTY PendingUntilServed
