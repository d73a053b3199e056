SPECIFICATION FairSpec
CONSTANTS
  Backend = "rocksdb"
  MaxReq = 3
  MaxSubs = 1
  Cap = 1
  Replacing = {1}
INVARIANTS AnswersAreTrue AllOrNothing FirstErrorSurvives FeedIsCommitted NoSilentGap
PROPERTIES CallsReturn WorkerEnds
CHECK_DEADLOCK FALSE
