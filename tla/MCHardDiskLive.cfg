CONSTANTS
  p1 = p1
  p2 = p2
  p3 = p3
  p4 = p4
  NoProc = NoProc
  Procs = {p1, p2, p3}
  NR_REQUEST = 2
  Commands = {"read", "write"}
  Places <- MCPlace1
  MAX_ERRORS = 1
  MaxTimeouts = 1
SPECIFICATION FairSpec
 
PROPERTIES  HeadsServed WaiterWoken
CHECK_DEADLOCK FALSE
