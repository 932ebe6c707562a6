\* The system stops when a publication has succeeded, or when a directory without a
\* readable journal, or with a marker, waits for an operator.
SPECIFICATION FairSpec
CHECK_DEADLOCK FALSE
CONSTANTS
  u1 = u1
  u2 = u2
  Nothing = Nothing
  Plans <- MCPlans
  Edits <- MCEdits
  MaxCrashes = 2
INVARIANTS
  TypeOK
  RestingTreeIsWhole
  OldBytesUntilCommit
  UserBytesKept
PROPERTIES
  ValidatedTreeIsNeverUndone
  PublishIsAtomic
  InterruptedPublishSettles
