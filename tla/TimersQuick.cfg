SPECIFICATION Spec
CONSTANT
  Delay <- ShortDelays
PROPERTY TasksKeepRunning
