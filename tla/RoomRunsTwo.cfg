SPECIFICATION Spec
CONSTANTS
  q1 = q1
  q2 = q2
  Members = 2
  Choices <- Backwards
  Request <- TwoRequests
  MaxRuns = 2
  MaxTasks = 2
  MaxMsgs = 3
  MaxCards = 1
  Mishap = {"stop", "crash", "stall", "revoke", "edit"}
SYMMETRY Swap
INVARIANT OneActiveRun
PROPERTY EndedIsFinal
CHECK_DEADLOCK FALSE
