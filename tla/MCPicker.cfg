SPECIFICATION MCSpec
CONSTANTS
  None = None
  t1 = t1
  t2 = t2
  vim = vim
  url = url
  d1 = d1
  Kinds = {"build"}
  Targets = {t1, t2}
  AptKeys = {vim}
  UrlKeys = {url}
  Digests = {d1}
  Content <- MCContent
  Caches = {{t1}}
  MaxGen <- MCOnce
  MaxTarget = 2
  MaxRev = 4
  Texts = {"", "vi", "vi "}
  NoText = ""
  Trimmed <- MCTrimmed
  Rows <- MCRows
  PageSize = 1
  Viewport = 1
  Overscan = 0
  Fling = 1
  MaxCachedPages = 2
  MaxPageAttempts = 2
  MaxRecovery = 1
  MaxGeneration = 3
  MaxVersion = 2
  MaxErrors = 0
  MaxScrolls = 2
  Names = {a, b}
  MaxTargets = 2
  MaxActs = 2
  MarkActs = 2
  StatusActs = 2
  MaxSearches = 2
  MaxEvents = 3
  NoToken = 0
  Hosts = {"linux", "windows"}
  Machines <- MCMachines
  NoCheck = NoCheck
  MaxMachineChanges = 1
  MaxPresses = 3
  VerdictPresses = 3
  ScreenPresses = 3
SYMMETRY Symmetry
INVARIANTS DraftIsTrue PagesAreOfTheQuery NoRowWaits QuietScreenIsTrue VerdictIsOfTheMachine QuietReadinessIsTrue
CHECK_DEADLOCK FALSE
