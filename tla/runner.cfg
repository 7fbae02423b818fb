SPECIFICATION FairSpec
CONSTANTS
  MaxTime = 2
  Experiments <- MCExperiments
  Troubles <- AllTroubles
  MaxTroubles = 1
CHECK_DEADLOCK FALSE
INVARIANTS PausedInTurns OneTurnAtATime PlayedOut RecordsAgree EveryoneIsTold ManagerSurvives
PROPERTIES RunnerEnds GameReturns
