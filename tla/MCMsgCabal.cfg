SPECIFICATION FairSpec
CONSTANTS
 CacheSize = 1
 MaxRecords = 5
 BufMax = 1
 Limits <- AllLimits
 MaxFaults = 1
INVARIANTS OneConnection LostKnownWays ServerStays
PROPERTIES CatchesUp
CHECK_DEADLOCK FALSE
