SPECIFICATION Spec
CONSTANTS
  small = small
  large = large
  Bodies = {small, large}
  MissionsOf <- MCMissionsOf
  Revisions = {2}
  MinimumRevision = 2
  MaxReleases = 2
  MaxSessions = 2
  MaxDays = 2
  MaxTroubles = 1
INVARIANTS ListedIsFrozen OneEntryPerTarget ListedIsTrue
CHECK_DEADLOCK FALSE
