CONSTANTS
  Values = {"a", "b"}
  Nil = Nil
  ErrNoRule = ErrNoRule
  ErrNoCandidate = ErrNoCandidate
  Crash = Crash
  Conns = {c1, c2}
  BalancerTags = {"b1"}
  Tags <- MCTags
  Dynamic <- MCDynamic
  InitialOutbounds <- MCInitialOutbounds
  RuleTables <- MCRuleTables
  BalancingRules <- MCBalancingRulesOther
  Contexts <- MCContexts
SPECIFICATION Spec
INVARIANTS
  NoNilStrategy
CHECK_DEADLOCK FALSE
