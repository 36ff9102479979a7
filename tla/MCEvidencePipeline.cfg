CONSTANTS
  a1 = a1
  a2 = a2
  v1 = v1
  None = None
  Torn = Torn
  Analyst = {a1, a2}
  Verifier = {v1}
  Content <- MCContent
  PriorRuns <- MCPriorRuns
  ArgLists <- MCArgLists
  BuildArgs <- MCBuildArgs
  MaxRewrites = 1
  MaxStarts = 3
  MaxLosses = 1
SYMMETRY Commands
CONSTRAINT AnalysesOrBundles
SPECIFICATION PipelineSpec
CHECK_DEADLOCK FALSE
INVARIANTS
  PipelineTypeOK
  ExitCodeMatchesArtifacts
  ReproductionTellsTheTruth
PROPERTIES
  ImplementsRegister
