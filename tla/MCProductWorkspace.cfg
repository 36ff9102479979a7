CONSTANTS
  u1 = u1
  u2 = u2
  advisory = advisory
  fail = fail
  sample = sample
  x1 = x1
  x2 = x2
  b3 = b3
  w1 = w1
  w2 = w2
  z = z
  d1 = d1
  e1 = e1
  NoRun = NoRun
  NoBase = NoBase
  NoKey = NoKey
  Nothing = Nothing
  Client = {u1, u2}
  Run = {advisory, fail, sample}
  RunInfo <- MCRunInfo
  Campaign = {x1, x2}
  SlotKey <- MCSlotKey
  Label = {"r1", "r2"}
  DraftTables <- MCDraftTables
  MaxSlots = 20
  MaxClock = 4
  Environment = {"prod", "stage"}
  Baseline = {x1, x2, b3}
  Scenario = {x1, x2}
  Key = {"k"}
  LoadRun = {x1, x2}
  Zone = {z}
  Demands <- MCDemands
  Worker = {w1, w2}
  Card = {d1}
  Estimate = {e1}
  MaxCalls = 5
SYMMETRY Symmetry
SPECIFICATION WorkspaceSpec
CHECK_DEADLOCK FALSE
INVARIANTS
  CampaignTypeOK
  TypeOK
  TokenNamesContent
  FrozenIsAudited
  KeyNamesOneScenario
  ReadyWasComplete
  ApprovedWasPriced
PROPERTIES
  NoLostUpdate
  ImplementsReview
  ImplementsRegister
