CONSTANTS
  Missing = Missing
  Broken = Broken
  Mistyped = Mistyped
  None = None
  Inputs <- Definitions
  Ext <- MCExt
  Package <- MCPackage
  Version = {"1", "2"}
  Core <- MCCore
  Preinstalled <- MCPreinstalled
  Deps <- MCDeps
  Pecl <- MCPecl
  Contents <- MCContents
  MaxEdits = 1
  MaxUpdates = 2
SPECIFICATION Spec
INVARIANTS TypeOK OneComposerLock RequirementsMet DepsLocked LockedStagesBuild HealthcheckHasClient
