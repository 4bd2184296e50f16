SPECIFICATION Spec
CONSTANTS
  Conns = {k1, k2}
  Blocks = {b1}
  None = None
  Busy = {k1}
  MaxUp = 2
  MaxDown = 2
INVARIANTS
  DanglesOnlyUntilClose
  NoGaps
  NothingLeftBehind
PROPERTIES
  ErrorEndsThread
CHECK_DEADLOCK FALSE
