CONSTANTS
  php1 = php1
  php2 = php2
  node = node
  web = web
  phpweb = phpweb
  dev = dev
  prod = prod
  site = site
  t1 = t1
  t2 = t2
  g1 = g1
  g2 = g2
  Def = {php1, node, web}
  ZbuildDef = {php1, node, web}
  Stage = {dev, prod, site}
  WebStage = site
  Tag = {t1}
  Digest = {g1}
  Builder = {b1}
  TornWrites = TRUE
  Targets = {"context", "cwd"}
  MaxEdits = 1
  MaxDrifts = 0
  MaxRuns = 2
  None = None
  Garbled = Garbled
  Kind <- MCKind
  Web <- MCWeb
  Stages <- MCStages
  Rank <- MCRank
  ImageTag <- MCImageTag
  Flags <- AnyFlags
SPECIFICATION Spec
INVARIANTS TypeOK HashCheckExact
