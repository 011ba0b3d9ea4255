SPECIFICATION FairSpec
CONSTANTS
  Consumer = {"c1"}
  Never = Never
  PerFile = 2
  MaxRecords = 5
  Quarter = 8
  Before = 29
  QueueMax = 2
  Limit = 2
  MaxStops = 2
  MaxPrunes = 1
INVARIANTS LogSound
PROPERTIES ImplementsStream CatchesUp
CHECK_DEADLOCK FALSE
