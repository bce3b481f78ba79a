CONSTANTS
  Failing = TRUE
  StaleReads = TRUE
SPECIFICATION MCSpec
INVARIANTS OwnerTyped CompletedMeansGone CrashResolved 
PROPERTIES  PhaseMonotone AuditKept
