\* Two subscriptions of one account: lanes, circuits, probes.
CONSTANTS
  s1 = s1
  s2 = s2
  a1 = a1
  a2 = a2
  p1 = p1
  NoJob = NoJob
  NoToken = NoToken
  NoRun = NoRun
  Subs = {s1, s2}
  Platforms = {p1}
  Accounts = {a1}
  AccountOf <- SharedAccountOf
  PlatformOf <- OnePlatformOf
  Workers = {w1, w2}
  Tokens = {t1, t2}
  Runs = {r1, r2, r3}
  Policies <- JustTwo
  DefaultPolicy <- TwoAtATime
  FailureCap = 1
  MaxAttempts = 2
  MaxRevision = 1
  Capacity = 2
SPECIFICATION LaneSpec
SYMMETRY Symmetry
VIEW LiveRows
CONSTRAINT NoStaleMemory
INVARIANTS
  ProbeCanReport
  ProbesNeverCross
PROPERTIES
  LaneAdmission
CHECK_DEADLOCK FALSE
