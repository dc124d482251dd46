SPECIFICATION JobsSpec
CONSTANTS
  None = None
  t1 = t1
  t2 = t2
  vim = vim
  url = url
  d1 = d1
  Kinds = {"catalog","export"}
  Targets = {t1, t2}
  AptKeys = {}
  UrlKeys = {}
  Digests = {}
  Content <- MCContent
  Caches = {{t1}}
  MaxGen <- MCCatalogTwice
  MaxTarget = 2
  MaxRev = 1
INVARIANTS RunsAccountedFor
PROPERTY EveryRunReports
CHECK_DEADLOCK FALSE
