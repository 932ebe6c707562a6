\* Two callers, three Jobs of two attempts.
CONSTANTS
  w1 = w1
  w2 = w2
  Tokens = {1, 2}
  NoToken = 0
  MaxAttempts = 2
  Workers = {w1, w2}
  Sources = {a, b}
  NoTree = NoTree
  MaxJobs = 3
SPECIFICATION Spec
SYMMETRY Symmetry
INVARIANTS
  ForkNeedsReturnedTree
  TreeIsAccountedFor
  RecordsTellTheChain
  RunningRecordHasItsJob
