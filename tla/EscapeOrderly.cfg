SPECIFICATION EscapesFairSpec
CONSTANTS
  Sockets = {1, 2, 3}
  First = 1
  Lanes = {s1}
  LogIds = {l1, l2}
  Guest = FALSE
  Throttled = FALSE
  Quick = FALSE
  Background = FALSE
  MaxWire = 2
  MaxRestarts = 1
  None = None
CHECK_DEADLOCK FALSE
INVARIANTS
  EscapesTypeOK
  ChargedAsAway
  EntryCurrent
  
PROPERTIES
  GoneNoticed
