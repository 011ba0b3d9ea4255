SPECIFICATION FairSpec
CONSTANTS
  Delay = {"d1", "d2"}
  Node = "node"
  MaxTime = 4
  Delayed <- MCDelayed
  Duration <- MCDuration
  Disabled = "D"
  Row <- MCRow
  Interval = 2
  OptionSets <- MCOptions
  Threshold <- MCThreshold
  MaxCommands = 3
INVARIANTS TimersSound
PROPERTIES DelayHolds ImplementsAlarmClock Served
CHECK_DEADLOCK FALSE
