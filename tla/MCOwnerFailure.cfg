CONSTANTS
  Failing = TRUE
  StaleReads = FALSE
SPECIFICATION MCSpec
INVARIANTS FailureMeansFault
