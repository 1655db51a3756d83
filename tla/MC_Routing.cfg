CONSTANTS
  Values = {"a", "b"}
  Nil = Nil
  ErrNoRule = ErrNoRule
  ErrNoCandidate = ErrNoCandidate
  Crash = Crash
  Conns = {c1, c2}
  BalancerTags = {"b1"}
  Tags <- MCTags
  Dynamic <- MCDynamic
  InitialOutbounds <- MCInitialOutbounds
  RuleTables <- MCRuleTables
  BalancingRules <- MCBalancingRules
  Contexts <- MCContexts
SPECIFICATION Spec
INVARIANTS
  TypeOK
  RoutedByFirstApplicableRule
PROPERTIES
  ImplementsRouter
CHECK_DEADLOCK FALSE
