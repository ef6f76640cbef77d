CONSTANTS
  N = 3
  MaxPid = 4
SPECIFICATION FairSpec
INVARIANTS TypeOK PidsUnique FatherAlive WaiterInformed
PROPERTIES WaitReturns
CHECK_DEADLOCK FALSE
