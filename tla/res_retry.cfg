SPECIFICATION Spec
CONSTANTS
  Attempts = {"duo"}
  Duos = {"duo"}
  MaxRuns = 2
  MaxSessions = 2
  Outcomes <- MCOutcomes
CHECK_DEADLOCK FALSE
INVARIANTS RetryCounts
