\* One generation; one of two contents is not acceptable media.
CONSTANTS
  c1 = c1
  c2 = c2
  Tokens = {t1, t2, t3}
  NoToken = NoToken
  MaxAttempts = 2
  Workers = {w1}
  Contents = {c1, c2}
  Unacceptable = {c2}
  NoContent = NoContent
  MaxGeneration = 1
SPECIFICATION FairSpec
PROPERTIES
  CrashedJobIsReclaimed
CHECK_DEADLOCK FALSE
