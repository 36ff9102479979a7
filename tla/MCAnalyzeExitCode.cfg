CONSTANTS
  a1 = a1
  a2 = a2
  v1 = v1
  None = None
  Torn = Torn
  Analyst = {a1}
  Verifier = {}
  Content <- MCContent
  PriorRuns <- MCPriorRuns
  ArgLists <- MCArgLists
  BuildArgs = {}
  MaxRewrites = 1
  MaxStarts = 1
  MaxLosses = 1
SPECIFICATION PipelineSpec
CHECK_DEADLOCK FALSE
INVARIANTS
  ZeroMeansPassed
