\* Windows of two records, batches of one, three Runs, one capture by hand.
\* The system rests when its Runs are used up.
SPECIFICATION Spec
CHECK_DEADLOCK FALSE
CONSTANTS
  Dates <- MCDates
  MaxItems = 2
  BatchSize = 1
  MaxRuns = 3
CONSTRAINT OneCrawlByHand
INVARIANTS
  TypeOK
  SucceededRunIsStored
  CheckpointIsExact
