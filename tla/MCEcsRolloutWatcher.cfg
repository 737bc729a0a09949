CONSTANTS
  Name <- MCName
  Live <- MCLive
  Group <- MCGroup
  Configurations <- MCConfigurations
  Candidates <- MCCandidates
  MayBeNew = {}
  LiveDesired <- MCLiveDesired
  ReconcileScale = FALSE
  DescribeLimit = 10
  WatchBudget = 1
  WaitBudget = 1
  FailLimit = 1
  MaxErrors = 1
  MaxCrashes = 0
SPECIFICATION Spec
PROPERTY NewErrorIsFlagged
CHECK_DEADLOCK FALSE
