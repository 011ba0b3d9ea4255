SPECIFICATION Spec
CONSTANTS
  Nil = Nil
  Crash = Crash
  NoValue = NoValue
  Unknown = 0
  Reals <- MCReals
  Rank <- MCRank
  Address <- MCAddress
  Configs <- MCConfigs
INVARIANTS TreesSound
PROPERTIES ImplementsTable
CHECK_DEADLOCK FALSE
