SPECIFICATION EscapesSpec
CONSTANTS
  Sockets = {1, 2, 3}
  First = 1
  Lanes = {s1}
  LogIds = {l1, l2}
  Guest = TRUE
  Throttled = FALSE
  Quick = FALSE
  Background = FALSE
  MaxWire = 2
  MaxRestarts = 0
  None = None
SYMMETRY Symmetry
CHECK_DEADLOCK FALSE
INVARIANTS
  PresentNotCharged
