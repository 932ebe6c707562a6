\* Two generations and two contents, one of which is not acceptable media.
CONSTANTS
  c1 = c1
  c2 = c2
  Tokens = {t1, t2, t3}
  NoToken = NoToken
  MaxAttempts = 2
  Workers = {w1}
  Contents = {c1, c2}
  Unacceptable = {c2}
  NoContent = NoContent
  MaxGeneration = 2
SPECIFICATION FairSpec
INVARIANTS
  TypeOK
  VerifiedWasFetched
  RowsAgree
  PartIsOneContent
PROPERTIES
  OvertakenRunIsHarmless
  DownloadSettles
