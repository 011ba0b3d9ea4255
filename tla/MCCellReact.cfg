SPECIFICATION FairSpec
CONSTANTS
  Cell <- MCCell
  Source <- Terms
  Value <- MCValue
  MaxLevel = 3
  Graph <- MCGraph
  Eval <- MCEval
INVARIANTS TypeOK NothingLost SettledConsistent NoGlitch
PROPERTIES ReactDrains ReactReturns
