CONSTANTS
  Name <- MCName
  Live <- MCLive
  Group <- MCGroup
  Configurations <- MCConfigurations
  Candidates <- MCCandidates
  MayBeNew = {"legacy-web"}
  LiveDesired <- MCLiveDesired
  ReconcileScale = FALSE
  DescribeLimit = 10
  WatchBudget = 1
  WaitBudget = 1
  FailLimit = 1
  MaxErrors = 1
  MaxCrashes = 1
SPECIFICATION Spec
INVARIANTS
  TypeOK
  RejectedConfigRollsNothing
  StatefulNeverOverlaps
  GreenMeansNewForStateful
  FlaggedErrorIsNew
PROPERTY ImplementsGate
CHECK_DEADLOCK FALSE
