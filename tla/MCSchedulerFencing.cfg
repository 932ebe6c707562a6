\* One subscription, one cycle, two workers: leases, Runs and the coordinator.
CONSTANTS
  s1 = s1
  s2 = s2
  a1 = a1
  a2 = a2
  p1 = p1
  NoJob = NoJob
  NoToken = NoToken
  NoRun = NoRun
  Subs = {s1}
  Platforms = {p1}
  Accounts = {a1}
  AccountOf <- OneAccountOf
  PlatformOf <- OnePlatformOf
  Workers = {w1, w2}
  Tokens = {t1, t2, t3}
  Runs = {r1, r2, r3}
  Policies <- JustOne
  DefaultPolicy <- OneAtATime
  FailureCap = 1
  MaxAttempts = 2
  MaxRevision = 1
  Capacity = 2
SPECIFICATION Spec
SYMMETRY Symmetry
VIEW LiveRows
INVARIANTS
  TypeOK
  DormantCycleCanRun
  RunTruthIsKept
  CoordinatorPerSuccess
  HolderRunIsItsOwn
PROPERTIES
  StaleWorkerIsHarmless
  JobFollowsTransitionTable
CHECK_DEADLOCK FALSE
