CONSTANTS
  p1 = p1
  p2 = p2
  NULL = NULL
  Nobody = Nobody
  Procs = {p1, p2}
  First = p1
  NR_OPEN = 2
  NR_FILE = 2
  PAGE_SIZE = 4
  Bytes = {b1, b2}
  Counts <- MCCounts
SPECIFICATION Spec
INVARIANTS CountsExact SleepersBlocked
PROPERTIES ImplementsFifo
CHECK_DEADLOCK FALSE
CONSTRAINT Bound
SYMMETRY ByteSymmetry
