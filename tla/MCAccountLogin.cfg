\* Two Operations of either kind.
\* The system rests when both have their verdict and no session waits.
SPECIFICATION Spec
CHECK_DEADLOCK FALSE
CONSTANTS
  MaxOps = 2
  Supervisor = Supervisor
  Free = Free
INVARIANTS
  TypeOK
  AccountFollowsLastLogin
  ChildKeepsItsSession
  VerdictIsTrue
