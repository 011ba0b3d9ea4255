SPECIFICATION Spec
CONSTANTS
  Term <- MCTerm
  Cond <- MCCond
  Rule <- MCRule
  RuleTerm <- MCRuleTerm
  NoTerm = "none"
  Value <- MCValue
  Disabled = "D"
  Shapes <- MCShapes
  MaxLevel = 6
INVARIANTS SubscriptionsSound RulesInformed
