\* The delivery of a creator's works, with the service's source moving and rolling back.
SPECIFICATION Spec
CHECK_DEADLOCK FALSE
CONSTANTS
  Tokens <- MCTokens
  NoToken = 0
  MaxAttempts = 2
  Contents = {c1}
  Workers = {w1}
  Sources = {s1, s2}
  Auths = {a1, a2}
  MaxCycles = 3
  MaxEvents = 4
INVARIANTS
  BaselineIsEarned
PROPERTIES
  ReceiptIsTrue
  FallsBehindSilentlyOnly
