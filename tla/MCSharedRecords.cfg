CONSTANTS
  Stacks = {"s1", "s2"}
  Clis = {"cli"}
  Reaper = "reaper"
  Ttl = 1
  MaxClock = 2
  MaxDeploys = 2
  MaxFaults = 1
  Projects = {"a", "b"}
  Graphs <- MCGraphs
  Rank <- MCRank
  CanaryProjects = {"b"}
  TaskProject = "a"
  BatchSize = 1
  MaxRetries = 1
  MaxOrchFaults = 1
  Clients = {"c1", "c2"}
  Buckets <- MCBuckets
  Limit <- MCLimit
  Window <- MCWindow
  MaxTime = 5
  MaxCalls = 3
  ServiceTasks = {"t1", "t2"}
  MaxPolls = 1
  MaxCommandFaults = 1
SPECIFICATION Spec
INVARIANTS
  TypeOK
  RegisteredUnlessRaced
  FailedRunRollsBackAll
  BucketHoldsItsLimit
  ReportIsTrue
PROPERTIES
  PastDueIsReaped
  LockIsReleased
CHECK_DEADLOCK FALSE
