SPECIFICATION FairInstallSpec
CONSTANTS
  Version = {1, 2}
  GameExt = TRUE
  MaxSets = 1
INVARIANTS InstallUndisturbed TogglesAgree
PROPERTIES ThreadEnds
CHECK_DEADLOCK FALSE
