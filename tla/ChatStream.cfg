SPECIFICATION MCSpec
CONSTANTS
  p1 = p1
  s1 = s1
  s2 = s2
  c1 = c1
  a1 = a1
  a2 = a2
  NoAction = NoAction
  None = None
  Proc <- OneProc
  Session <- OneSession
  Call <- NoCalls
  Delegated <- NoCalls
  Client <- OneClient
  Limit = 2
  MaxRuns = 1
  MaxEvents = 3
  Mishap = {"stall", "stop"}
  Action <- TwoActions
  UiSession <- TwoSessions
  SessionOf <- OneOfEach
  MaxLogins = 1
  Chat <- TwoSessions
  MaxTexts = 2
  MaxTasks = 2
  MaxLog = 1
  MaxQueued = 1
  MaxTroubles = 1
INVARIANTS ReadsTheLog ActsOnce
PROPERTIES ReaderIsTold PageFollows EveryActionAnswered
CHECK_DEADLOCK FALSE
