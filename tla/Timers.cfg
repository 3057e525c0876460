SPECIFICATION Spec
CONSTANT
  Delay <- ShortDelays
INVARIANTS
  ListSound
  TasksScheduled
PROPERTIES
  StartsOnlyScheduled
  TimersImplementQueue
  TasksRunUnlessMisused
