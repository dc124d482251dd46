SPECIFICATION DeliverySpec
CONSTANTS
  Builds = {b1, b2}
  NameOrder <- MCNameOrder
  Versions = {1, 2}
  Archive <- MCArchive
  Vendor <- MCVendor
  Installed <- MCInstalled
  Held = {"hold"}
  Needs <- MCNeeds
  Resolves <- MCResolves
  MaxResolves = 2
  MaxDiskFaults = 1
  Paths <- MCPaths
  Debs <- MCPoolDebs
  Link = 9
  Media <- MCMedia
  Indexes <- MCIndexes
  LockDocs <- MCLockDocs
  RunOptions <- MCRunOptions
  Arch = "amd64"
  Foreign = {}
  MaxBlocks = 2
  ChunkSize = 2
  MaxInstalls = 2
  MaxChanges = 1
  PoolFiles <- MCPoolFiles
  Requests <- MCRequests
  MaxBuilds = 3
  Archives <- MCArchives
  Folded <- MCFolded
  MaxEntries = 2
  MaxEntry = 2
  MaxTotal = 3
  Documents <- MCDocuments
  KeyFiles <- MCKeyFiles
  Plans <- MCPlans
  RootSpecs <- MCRootSpecs
  KeyPaths <- MCKeyPaths
  Spelled <- MCSpelled
  Globs <- MCGlobs
  Lower <- MCLower
INVARIANTS SignedMeansFinished OpenIsAllOrNothing PolicyIsApplied RootIsFaithful VersionsAreLocked ReportIsTrue
PROPERTIES ImplementsSignedBundle AcceptedPlanIsOnTheHost InstalledIsAttested
SYMMETRY Symmetry
CHECK_DEADLOCK FALSE
