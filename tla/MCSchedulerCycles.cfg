\* One subscription through two cycles with one worker: pipeline, pause, removal.
CONSTANTS
  s1 = s1
  s2 = s2
  a1 = a1
  a2 = a2
  p1 = p1
  NoJob = NoJob
  NoToken = NoToken
  NoRun = NoRun
  Subs = {s1}
  Platforms = {p1}
  Accounts = {a1}
  AccountOf <- OneAccountOf
  PlatformOf <- OnePlatformOf
  Workers = {w1}
  Tokens = {t1, t2}
  Runs = {r1, r2, r3}
  Policies <- JustOne
  DefaultPolicy <- OneAtATime
  FailureCap = 1
  MaxAttempts = 1
  MaxRevision = 2
  Capacity = 2
SPECIFICATION Spec
SYMMETRY Symmetry
VIEW LiveRows
INVARIANTS
  ActiveCycleIsCurrent
PROPERTIES
  KeepsLedger
CHECK_DEADLOCK FALSE
