CONSTANTS
  php1 = php1
  php2 = php2
  node = node
  web = web
  phpweb = phpweb
  dev = dev
  prod = prod
  site = site
  t1 = t1
  t2 = t2
  g1 = g1
  g2 = g2
  Def = {phpweb, web}
  ZbuildDef = {phpweb}
  Stage = {dev, prod, site}
  WebStage = site
  Tag = {t1}
  Digest = {g1, g2}
  Builder = {b1}
  TornWrites = FALSE
  Targets = {"context"}
  MaxEdits = 0
  MaxDrifts = 0
  MaxRuns = 1
  None = None
  Garbled = Garbled
  Kind <- MCKind
  Web <- MCWeb
  Stages <- MCStages
  Rank <- MCRank
  ImageTag <- MCImageTag
  Flags <- AlwaysFull
SPECIFICATION Spec
INVARIANT HashCheckExact
