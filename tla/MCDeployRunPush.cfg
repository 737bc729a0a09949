CONSTANTS
  Order <- MCOrder
  Identity <- MCIdentity
  NoBuild = "prebuilt"
  ShareRepos = TRUE
  AutoRoll = {"django", "worker", "web"}
  Tags = {"v1"}
  Filters <- MCFilters
  Workers = 2
  MaxVersion = 2
  MaxFixes = 1
  MaxDeploys = 2
SPECIFICATION Spec
INVARIANT
  ReturnedIsPushed
CHECK_DEADLOCK FALSE
