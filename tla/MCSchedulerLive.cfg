\* Two subscriptions on two accounts of one platform: every cycle comes to an end.
CONSTANTS
  s1 = s1
  s2 = s2
  a1 = a1
  a2 = a2
  p1 = p1
  NoJob = NoJob
  NoToken = NoToken
  NoRun = NoRun
  Subs = {s1, s2}
  Platforms = {p1}
  Accounts = {a1, a2}
  AccountOf <- TwoAccountOf
  PlatformOf <- OnePlatformOf
  Workers = {w1}
  Tokens = {t1}
  Runs = {r1, r2}
  Policies <- JustOne
  DefaultPolicy <- OneAtATime
  FailureCap = 1
  MaxAttempts = 2
  MaxRevision = 1
  Capacity = 2
SPECIFICATION LiveSpec
PROPERTIES
  CycleComesToAnEnd
CHECK_DEADLOCK FALSE
