SPECIFICATION Spec
CONSTANTS
  Nil = Nil
  Crash = Crash
  None = None
  Disabled = Disabled
  Unknown = 0
  Other = 9
  Reals = {}
  Rank <- MCRank
  Address <- MCAddress
  Const <- MCConst
  Executions <- MCExecutions
  MaxDirect = 2
INVARIANTS AxonsSound AxonsAccurate FiresOnce
