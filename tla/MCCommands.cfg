CONSTANTS
  Focus = {"build", "learning", "git", "tests", "merge", "bots", "panes"}
  p = p
  q = q
  h1 = h1
  h2 = h2
  x = x
  y = y
  m1 = m1
  r1 = r1
  r2 = r2
  Shells = {p, q}
  Contents = {x, y}
  Trees <- MCTrees
  MaxBuilds = 3
  MaxEdits = 1
  MaxTick = 1
  Learners = {p, q}
  Messages <- MCMessages
  Commands <- MCRan
  MaxFailures = 3
  MaxWsSnaps = 1
  MaxRecoveries = 2
  Admins = {p, q}
  Labels = {m1}
  Boxes = {h1, h2}
  Bares = {r1, r2}
  Settings <- MCSettings
  Legacy <- MCLegacy
  Talkative = {h1}
  Unsteady = {h1}
  NoServer = NoServer
  MaxCommands = 2
  Testers = {p, q}
  Frameworks = {"none", "ctest", "pytest", "cargo"}
  Outputs <- MCOutputs
  Leftovers <- MCLeftovers
  MaxRuns = 2
  MaxSeconds = 1
  Options <- MCOptions
  Terminals = {p, q}
  HostLabels = {m1}
  Watched = {}
  MachineStates <- MCMachineStates
  BotNames = {"git-doctor", "doctor"}
  MaxHosts = 2
  MaxSpawns = 3
  MaxPanes = 3
  MaxWindows = 2
SPECIFICATION CommandsSpec
SYMMETRY Symmetric
INVARIANTS
  SkipIsGrounded PatternsAreEarned SuggestionsWereLive
  UnchangedMeansSame CompleteMeansDeployed SyncedMeansArrived
  ResultsAreOfTheirRun PassMeansCollision HistoryGoesWithHost StatusIsEarned
  NoShellLeftBehind KeysGoWhereShown
CHECK_DEADLOCK FALSE
