SPECIFICATION MCSpec
CONSTANTS
  Root <- Grants
  Plain <- Shell
  Recorded <- Shell
  MaxDepth = 2
  MaxSteps = 3
  Recent = 0
  Old = 1
  Restream = 1
  MaxCalls = 4
  MaxLoops = 3
  Wanted <- Batches
  Enabled <- Children
  Server = {"s1"}
  McpTool = {"t1"}
  Prefix = {"p1", "p2"}
  Request = {"x1", "x2"}
  MaxConns = 3
  MaxOwners = 3
  MaxUpsets = 2
  Kinds = {"openai", "anthropic", "unindexed"}
  MaxWireCalls = 2
  Pieces = 2
  MaxText = 1
  ProviderTries = 2
  StepTries = 2
INVARIANTS RequestWellFormed NarrowedAllTheWay StepIsTrue McpWhole
PROPERTY WaitersReturn
CHECK_DEADLOCK FALSE
