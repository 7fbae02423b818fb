SPECIFICATION FairSpec
CONSTANTS
  p1 = p1
  p2 = p2
  p3 = p3
  g1 = g1
  g2 = g2
  solo = solo
  solo2 = solo2
  duo = duo
  A = A
  B = B
  NoExpert = NoExpert
  Players = {p1, p2}
  Games = {g1}
  Specs = {duo}
  PlayerName <- MCPlayerName
  AttemptName <- MCAttemptName
  DefuserName <- MCDefuserName
  ExpertName <- MCExpertName
  Fragile = {p2}
  Resumable = {}
  Slow = {p2}
  MaxSessions = 2
  MaxEpochs = 1
CHECK_DEADLOCK FALSE
INVARIANT InExperimentHasSession
PROPERTY QueueServed
