SPECIFICATION FairSpec
CONSTANTS
  p1 = p1
  p2 = p2
  s1 = s1
  k1 = k1
  k2 = k2
  None = None
  Proc <- OneProc
  Session <- OneSession
  Call <- TwoCalls
  Delegated <- DelegK2
  MaxRuns = 1
  MaxEvents = 3
  Mishap = {"stop", "shutdown", "crash", "stall", "database", "abandon"}
INVARIANTS LogIsWhole
PROPERTIES TerminalIsFinal StopTakesEffect OrphanEnds
CHECK_DEADLOCK FALSE
