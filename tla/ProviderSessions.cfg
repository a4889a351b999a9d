SPECIFICATION Spec
CONSTANTS
  claude = claude
  tool = tool
  c1 = c1
  c2 = c2
  a1 = a1
  a2 = a2
  Claude <- OneClaude
  Direct <- OneTool
  Legacy <- ToolFirst
  Procs <- TwoProcs
  Agents <- TwoAgents
  Of <- BothOfClaude
  Retries = 2
  Tokens = {1, 2, 3}
  TTL = 1
  Limit = 1
  MaxTime = 3
  MaxSetBacks = 1
  MaxTexts = 2
SYMMETRY Interchangeable
CHECK_DEADLOCK FALSE
INVARIANTS
  OutcomeIsOne
PROPERTIES
  LiveLeaseKept
  DraftIsKept
  ImplementsLedger
