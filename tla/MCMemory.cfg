CONSTANTS
  NR_TASKS = 3
  Pages = {p1, p2, p3, p4, p5, p6}
  DIRS = 2
  ENTRIES = 1
  Values = {0, 1}
  MaxUnverified = 1
SPECIFICATION MemSpec
INVARIANTS CountsReferences WritableAlone
PROPERTY MemoriesApart
SYMMETRY PageSymmetry
CHECK_DEADLOCK FALSE
CONSTRAINT Bound
