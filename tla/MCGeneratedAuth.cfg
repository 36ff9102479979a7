CONSTANTS
  Document <- MCDocument
  Option <- MCOption
  Spelling <- MCSpelling
  PathName <- MCPathName
  Placeholders <- MCPlaceholders
  Defined <- MCDefined
  LocalHost = LocalHost
  NotAName = NotAName
  Truncated = Truncated
  Missing = Missing
SPECIFICATION FileSpec
INVARIANTS
  SecuredRequestsCarryToken
CHECK_DEADLOCK FALSE
