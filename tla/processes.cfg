SPECIFICATION FairSpec
CONSTANTS
  Rooms = 2
  Players = 1
CHECK_DEADLOCK FALSE
INVARIANTS NoOrphans ReportsTheCause
PROPERTIES TroubleEndsRun
