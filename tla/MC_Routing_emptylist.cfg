CONSTANTS
  Values = {"a", "b"}
  Nil = Nil
  ErrNoRule = ErrNoRule
  ErrNoCandidate = ErrNoCandidate
  Crash = Crash
  Conns = {c1, c2}
  BalancerTags = {"b1"}
  Tags <- MCTags
  Dynamic <- MCDynamic
  InitialOutbounds <- MCInitialOutbounds
  RuleTables <- MCRuleTablesEmptyList
  BalancingRules <- MCBalancingRules
  Contexts <- MCContexts
SPECIFICATION Spec
INVARIANTS
  RoutedByFirstApplicableRule
CHECK_DEADLOCK FALSE
