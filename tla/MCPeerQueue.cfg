SPECIFICATION Spec
CONSTANTS
  Producers = {"p1", "p2"}
  Loads <- TwoCommands
  MaxTime = 1
  QSec = 1
  MaxFaults = 1
  MaxEmpty = 1
  NoOne = "noone"
INVARIANTS PerformedInOrder FilesSound
PROPERTIES Delivered
CHECK_DEADLOCK FALSE
