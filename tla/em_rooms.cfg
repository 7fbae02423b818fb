SPECIFICATION Spec
CONSTANTS
  p1 = p1
  p2 = p2
  p3 = p3
  g1 = g1
  g2 = g2
  solo = solo
  solo2 = solo2
  duo = duo
  A = A
  B = B
  NoExpert = NoExpert
  Players = {p1, p3}
  Games = {g1, g2}
  Specs = {solo, solo2}
  PlayerName <- MCPlayerName
  AttemptName <- MCAttemptName
  DefuserName <- MCDefuserName
  ExpertName <- MCExpertName
  Fragile = {p3}
  Resumable = {}
  Slow = {}
  MaxSessions = 2
  MaxEpochs = 1
CHECK_DEADLOCK FALSE
VIEW MCView
SYMMETRY MCSymmetry
INVARIANTS ExclusiveServices
PROPERTIES NeverTakenAtWork
