SPECIFICATION Spec
CONSTANTS
  f1 = f1
  f2 = f2
  s1 = s1
  e1 = e1
  a1 = a1
  None = None
  Flow <- TwoFlows
  Session <- OneSession
  Ref <- Both
  Declared <- Named
  Breaker = 3
  MaxCalls = 2
SYMMETRY Swap
INVARIANTS DangerousIsApproved FlowsAndActions
CHECK_DEADLOCK FALSE
