CONSTANTS
  MaxTransfers = 2
  MaxTransferFaults = 0
  Presigned = 2
  DumpSizes = {0, 2, 3}
SPECIFICATION Spec
INVARIANT PushRestoresItsDump
CHECK_DEADLOCK FALSE
