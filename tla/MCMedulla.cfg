SPECIFICATION FairSpec
CONSTANTS
  Servants = {"s"}
  Jobs = {"j"}
  Waited = {"b"}
  Loads <- FiveLoads
  Capacity = 1
  Page = 2
  ChildMax = 2
  NoOne = "noone"
INVARIANTS HandlersSound LinesComplete
PROPERTIES Concludes
CHECK_DEADLOCK FALSE
