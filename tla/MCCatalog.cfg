SPECIFICATION CatalogSpec
CONSTANTS
  Writers = {w1, w2}
  Readers = {r1}
  Attempts = 2
  MaxGen = 5
  MaxLoads = 1
  Foreign = {3}
  Targets = {t1, t2}
  Callers = {c1, c2}
  NoTarget = nt
  MaxCalls = 3
  MaxIndex = 2
  Buckets = 4
  NameLen <- MCNameLen
  MaxInterned = 5
  MaxPage = 2
  SourceFiles <- MCSourceFiles
  Arch = "amd64"
  Placeholders = {"${release}"}
  Unfetchable = {"cdrom"}
  FlatSuites = {"flat/"}
  Published <- MCPublished
  Metadata <- MCMetadata
  Workers = {k1, k2}
  MaxEntries = 4
  MaxDescriptions = 5
  Texts <- MCTexts
  MainCategories = {"Network"}
INVARIANTS OnlyDamageIsRemoved ServedTargetWasBound IndexIsTheSources SearchIsRanked
PROPERTIES NoQuietMismatch
SYMMETRY Symmetry
CHECK_DEADLOCK FALSE
