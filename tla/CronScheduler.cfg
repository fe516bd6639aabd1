SPECIFICATION Spec
CONSTANTS
  r1 = r1
  r2 = r2
  a1 = a1
  a2 = a2
  i1 = i1
  Replica <- TwoReplicas
  Attempt <- TwoAttempts
  MaxTime = 2
  Grace = 0
  MaxTrouble = 1
  Trouble <- Troubles
  Turn <- TwoReplicas
  Row <- TwoAttempts
  Call <- OneCall
  BatchSize = 2
  MaxQueue = 1
  MaxMishaps = 2
SYMMETRY Symmetry
INVARIANTS AtMostOnce ToldAndServed
PROPERTIES OutcomeIsFinal
CHECK_DEADLOCK FALSE
