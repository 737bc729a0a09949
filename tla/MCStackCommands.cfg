CONSTANTS
  Services = {"web", "api"}
  EcsServices = {"web", "api", "grp"}
  Layouts <- MCLayouts
  Secrets = {"a", "b"}
  UsesOf <- MCUsesOf
  KeysAt <- MCKeysAt
  MaxVersion = 1
  MaxRuns = 2
  MaxEdits = 1
  Faults = TRUE
  Ec2Services = {"x", "y"}
  AwsFails = TRUE
  Deploys = {"p", "q"}
  MaxDeployRuns = 2
  RcFaults = TRUE
  PipeCapacity = 2
  MaxLines = 4
  SizedServices = {"x", "y"}
  Ladder <- MCLadder
  Shapes <- MCShapes
  TaskDemands <- MCDemands
  Requests <- MCRequests
SPECIFICATION Spec
INVARIANTS
  TypeOK
  UpToDateAfterUp
  DrainsBeforeDestroy
  SizingIsHonest
PROPERTIES
  NothingTooEarly
  UpSettles
  TerraformIsReached
  GreenOwnsWhatIsThere
  ReplacementIsAnnounced
  RunEndsWithAllOutput
CHECK_DEADLOCK FALSE
