CONSTANTS
  SizedServices = {"worker"}
  Ladder <- MCLadder
  Shapes <- MCShapes
  TaskDemands <- MCDemands
  Requests <- MCRequests
SPECIFICATION SizeSpec
INVARIANTS
  AutoSizedFleetHostsAll
CHECK_DEADLOCK FALSE
