SPECIFICATION Spec
CONSTANTS
  MaxSessions = 2
  MaxTurns = 2
  MaxStops = 2
  Troubles = {"skip", "configure", "turn", "reflection", "recovery", "bomb_state", "peer", "missed"}
CHECK_DEADLOCK FALSE
INVARIANTS OwnMessagesOnly SurvivesStops ReturnedUnlessOutlived
PROPERTIES StepsReachDisk ActsInOwnSession
CONSTRAINT UpToThreeTroubles
