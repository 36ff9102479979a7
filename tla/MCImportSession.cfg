CONSTANTS
  first = first
  second = second
  Client = {"u1", "u2"}
  Session = {"s1"}
  Run = {"r1", "r2", "r3"}
  File = {"history", "stats", "other_stats"}
  Candidate = {first, second}
  FilesOf <- MCFilesOf
  MaxRestarts = 1
  MaxChanges = 1
  Nothing = Nothing
SPECIFICATION Spec
INVARIANTS
  TypeOK
  EvidenceIsWhole
  EvidenceWasValidated
  FailedCommitCanBeRepeated
  OfferedUntilCommitted
  SamplesOnlyFromOverlap
PROPERTIES
  EvidenceIsKept
  CommitDeletesStaging
CHECK_DEADLOCK FALSE
