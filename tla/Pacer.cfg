SPECIFICATION Spec
CONSTANTS
  Tick = 2
  MaxTime = 16
  MaxMsgs = 8
  Configs <- SomeConfigs
CHECK_DEADLOCK FALSE
INVARIANT NeverEarly
INVARIANT ScheduleKept
INVARIANT WithinDuration
INVARIANT CsvPassTakesItsTime
