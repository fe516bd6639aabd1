SPECIFICATION MCSpec
CONSTANTS
  p1 = p1
  s1 = s1
  k1 = k1
  None = None
  Proc <- OneProc
  Session <- OneSession
  Call <- OneCall
  Delegated <- NoDeleg
  MaxRuns = 3
  MaxEvents = 2
  Mishap = {"abandon"}
  MaxTurns = 2
  Kinds = {"web", "channel", "rest", "api", "exec", "command"}
  MaxToolCalls = 1
  MaxDisturbed = 1
  SoftLimit = 5
  HistoryBudget = 5
  Trigger = 7
  PromptCost = 1
  EmergencyKeep = 3
  SummaryFrom = 5
  Before <- Starts
INVARIANTS LinearContinuation TurnsKept
CHECK_DEADLOCK FALSE
