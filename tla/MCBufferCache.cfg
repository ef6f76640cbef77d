CONSTANTS
  p1 = p1
  p2 = p2
  x1 = x1
  x2 = x2
  x3 = x3
  x4 = x4
  None = None
  Procs = {p1, p2}
  NR_BUFFERS = 3
  Blocks = {x1, x2, x3, x4}
  Writable = {x1}
  MaxHeld = 2
SPECIFICATION Spec
SYMMETRY Symmetry
INVARIANTS OneBufferEach CountsUsers HeldStays FreeListWhole SleeperRemembered Coherent
