CONSTANTS
  php1 = php1
  php2 = php2
  node = node
  web = web
  phpweb = phpweb
  dev = dev
  prod = prod
  site = site
  t1 = t1
  t2 = t2
  g1 = g1
  g2 = g2
  Def = {php1, php2, phpweb, web}
  ZbuildDef = {php1, php2, phpweb}
  Stage = {dev, prod, site}
  WebStage = site
  Tag = {t1, t2}
  Digest = {g1, g2}
  Builder = {b1}
  TornWrites = FALSE
  Targets = {"context"}
  MaxEdits = 2
  MaxDrifts = 1
  MaxRuns = 2
  None = None
  Garbled = Garbled
  Kind <- MCKind
  Web <- MCWeb
  Stages <- MCStages
  Rank <- MCRank
  ImageTag <- MCImageTag
  Flags <- AlwaysFull
SPECIFICATION Spec
INVARIANTS UsesOwnLocks UsesOneUpdate NothingMissing InSyncBuildsEveryStage
PROPERTY KeepsContract
