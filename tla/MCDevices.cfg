CONSTANTS
  Slots = {0, 1}
  BROJ = 1
  Keys <- MCKeys
  LocalLife = 2
  GlobalLife = 2
  MaxTime = 2
  BLOCK_SIZE = 4
  Files = {2, 12}
  Dir = 3
  Fresh = {4}
  Byte = {9}
  Counts = {2}
  MaxSize = 8
  MaxCalls = 4
  Readers = {p}
  Writers = {q}
  TTY_BUF_SIZE = 3
  Room = 0
  Low = 1
  startup = 1
  Sizes = {2}
  Nobody = Nobody
  columns = 2
  lines = 3
  SCREEN_CELLS = 8
  TAB = 2
  Letters = {"a"}
  Digits = {2}
  NPAR = 2
  Seven = 1
  Eight = 2
  KEY_QUEUE = 5
  layouts_num = 3
  KeyboardKeys = {"lctrl", "rctrl", "lalt", "lshift", "a", "slash", "cursor", "func", "pause"}
SPECIFICATION DevicesSpec
INVARIANTS   LinesCounted  KeyboardInStep
PROPERTY ShowsScreen
CONSTRAINT Bound
CHECK_DEADLOCK FALSE
