SPECIFICATION Spec
CONSTANTS
  c1 = c1
  c2 = c2
  doctor = doctor
  first = first
  second = second
  wires = wires
  cover = cover
  own = own
  inner = inner
  Compilers = {c1, c2}
  Doctor = doctor
  Asked <- MCAsked
  Profile <- MCProfile
  RuleSeed <- MCRuleSeed
  Entry <- MCEntry
  LocalFiles = {"page", "part"}
  LocalVersions = {"one", "two", "missing"}
  References <- MCReferences
  Rooted <- MCRooted
  Tree <- MCTree
  TreeReferences <- MCTreeReferences
  Merger = "merger"
  Original = "one"
  OfficialPages = 3
  MaxTroubles = 1
  MaxEdits = 1
CHECK_DEADLOCK FALSE
INVARIANTS  SeenReadyIsReady
PROPERTIES PlayersGetWhatWasChecked
