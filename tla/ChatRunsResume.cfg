SPECIFICATION Spec
CONSTANTS
  p1 = p1
  p2 = p2
  s1 = s1
  k1 = k1
  k2 = k2
  None = None
  Proc <- TwoProcs
  Session <- OneSession
  Call <- OneCall
  Delegated <- NoDeleg
  MaxRuns = 2
  MaxEvents = 2
  Mishap = {"stall"}
INVARIANTS OneRunningPerSession NoReexecution ResumableIsCertain
PROPERTY ImplementsLedger
CHECK_DEADLOCK FALSE
