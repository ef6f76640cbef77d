CONSTANTS
  p1 = p1
  p2 = p2
  p3 = p3
  p4 = p4
  NoProc = NoProc
  Procs = {p1, p2, p3, p4}
  NR_REQUEST = 4
  Commands = {"read"}
  Places <- MCPlaces
  MAX_ERRORS = 0
  MaxTimeouts = 0
SPECIFICATION Spec
SYMMETRY ProcSymmetry
INVARIANTS  QueueComplete
CHECK_DEADLOCK FALSE
