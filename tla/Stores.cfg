SPECIFICATION Spec
CONSTANTS
  x1 = x1
  x2 = x2
  y1 = y1
  y2 = y2
  z1 = z1
  z2 = z2
  n1 = n1
  n2 = n2
  f1 = f1
  Proc <- Workers
  Doc <- Requests
  Job <- Names
  EntityName <- Others
  MaxChunks = 1
  MaxEntities = 3
  MaxReviews = 1
  Writer <- Workers
  Text <- Requests
  MemScope <- Names
  Session <- Others
  MaxMem = 3
  MaxChanges = 4
  Agent <- Names
  Server <- OneFile
  Editor <- Workers
  MaxEdits = 2
  Model <- Three
  Provider <- Requests
  Admin <- Workers
  MaxRequests = 4
  AdminReq <- Three
  Config = {"socket", "hook"}
  Mode <- ModeOf
  MaxAdapters = 3
  MaxRestarts = 1
  User <- Workers
  Ext <- OneFile
  Place <- Names
  ExtOf <- ChatsOf
  Digit = {"d1"}
  Limit = 2
  Window = 0
  Ttl = 0
  FileTtl = 0
  MaxNow = 1
  MaxCodes = 2
  MaxSessions = 2
  PetUser = {n1, f1}
  PetAdmin = {f1}
  Home <- HomeOf
  PetPkg <- Workers
  PetAgent = {n2}
  PetAsk <- Requests
  PetName = {"a"}
  RowMaps <- MapsOf
  RowCount = 2
  MaxPackages = 1
  BubbleLimit = 1
  MaxPetAsks = 3
SYMMETRY Symmetry
INVARIANTS GraphWhole MemoryHistory CatalogsHold
CHECK_DEADLOCK FALSE
