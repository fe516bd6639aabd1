SPECIFICATION FairSpec
CONSTANTS
  q1 = q1
  q2 = q2
  Members = 2
  Choices <- Backwards
  Request <- OneRequest
  MaxRuns = 1
  MaxTasks = 3
  MaxMsgs = 3
  MaxCards = 3
  Mishap = {"stop", "crash", "stall", "revoke", "edit"}
INVARIANTS ResultsAgree
PROPERTIES StopHolds DoomedEnds
CHECK_DEADLOCK FALSE
