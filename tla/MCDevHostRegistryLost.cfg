CONSTANTS
  Proc = {"p1", "p2"}
  Host = {"a", "b"}
  MaxCommands = 2
  MaxCrashes = 0
SPECIFICATION RegistrySpec
INVARIANT NoUpdateLost
CHECK_DEADLOCK FALSE
