CONSTANTS
  MaxReplicas = 4
  MinPercents <- MCMinPercents
  MaxPercents <- MCMaxPercents
  Proc = {"p1", "p2"}
  Host = {"a", "b"}
  MaxCommands = 3
  MaxCrashes = 1
  Calls = {"c1", "c2"}
  Specs = {"web", "api"}
  MaxUnread = 1
  EmptyTries = 2
  MaxTransfers = 2
  MaxTransferFaults = 2
  Presigned = 2
  DumpSizes = {0, 2, 3}
  ComposeServices = {"db", "api"}
  DependsOn <- MCDependsOn
  BuildPrimary <- MCBuildPrimary
  WithVolume = {"db"}
  Project = "project"
  MaxRuns = 2
  MaxPipeFaults = 2
SPECIFICATION Spec
INVARIANTS
  TypeOK
  RefusalIsExact
  HintsAreTight
  RegistryIsSound
  BackupIsWholeOrNothing
  GreenRunsThisRun
  RetryIsGreen
PROPERTIES
  AcceptedRollFinishes
  CommandsEnd
  ImplementsBackend
CHECK_DEADLOCK FALSE
