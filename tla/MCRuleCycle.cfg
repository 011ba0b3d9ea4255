SPECIFICATION FairSpec
CONSTANTS
  Term <- MCTerm
  Value <- MCValue
  True <- MCTrue
  Disabled = "D"
  First <- MCFirst
  Rule <- MCRule
  Api <- MCApi
  Alerting = {"node"}
  NoAction = "none"
  Type <- MCType
  Condition <- MCCondition
  OnTerm = {"on1"}
  Referenced = {}
  Priority <- MCPriority
  Assertion <- MCAssertion
  Instruction <- MCInstruction
  Command <- MCCommand
INVARIANTS ListsSound FiresInTurn WhenFiresOnce CycleComplete
PROPERTIES CycleEnds
