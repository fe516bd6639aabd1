SPECIFICATION Spec
CONSTANTS
  m1 = m1
  m2 = m2
  s1 = s1
  s2 = s2
  c1 = c1
  c2 = c2
  Msgs <- TextMsgs
  Stops <- OneStop
  MaxQueued = 3
  Restarts = 1
  MaxText = 3
  TextLimit = 2
  Chats <- OneChat
  Session <- OwnSession
  QueueMax = 2
  MaxTurns = 2
  MaxBus = 2
  MaxOutages = 1
  Chat <- TwoChats
  Files <- OneChat
  MaxMissed = 2
  MaxLinks = 2
  MaxTicks = 3
  MaxFrames = 2
INVARIANTS QueueSafe UserSees
PROPERTIES NoneForgotten NeverBack
CHECK_DEADLOCK FALSE
