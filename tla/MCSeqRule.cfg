SPECIFICATION Spec
CONSTANTS
  Rule = {"answer", "twice", "follow"}
  Term = {"a", "b"}
  Value = {"f", "t", "unknown"}
  True = {"t"}
  Unknown = "unknown"
  Plan <- Plans
  Command <- Commands
  MaxClock = 2
  Nil = Nil
INVARIANTS RulesSound
PROPERTIES ImplementsThreads Proceeds
CHECK_DEADLOCK FALSE
