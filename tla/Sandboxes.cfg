SPECIFICATION BothSpec
CONSTANTS
  k1 = k1
  k2 = k2
  t1 = t1
  t2 = t2
  w1 = w1
  w2 = w2
  f1 = f1
  f2 = f2
  Worker <- TwoWorkers
  Task <- TwoTasks
  Workspace <- TwoWorkspaces
  File <- TwoFiles
  MaxContainer = 2
  MaxFailures = 2
  Op <- Ops
  Failure <- Failures
  p1 = p1
  Tx <- TwoWorkers
  Req <- TwoTasks
  SkillName <- TwoWorkspaces
  PkgFile <- OneFile
  MaxSkills = 2
  MaxMishaps = 1
SYMMETRY Symmetry
INVARIANTS FilesKept StoresAgree SkillHistory
CHECK_DEADLOCK FALSE
