SPECIFICATION Spec
CONSTANTS
  Members = {m1}
  Notices = {}
  Handlers = {h1}
  Workers = {w1}
  Boot = boot
  Requests = {"connect", "start", "giveup"}
  Apart = {{"connect", "start"}}
  MaxStarts = 1
  MaxCrashes = 0
  MaxFaults = 0
  Mixed = FALSE
  NoOne = NoOne
SYMMETRY Symmetry
CHECK_DEADLOCK FALSE
PROPERTIES
  RevealJobReveals
