SPECIFICATION Spec
CONSTANTS
  Members = {m1, m2}
  Notices = {1}
  Handlers = {h1, h2}
  Workers = {w1}
  Boot = boot
  Requests = {"connect", "start", "touch", "giveup", "leave", "cleanup", "result"}
  Apart = {{"connect", "start", "touch", "cleanup", "leave"}, {"start", "giveup"}, {"touch", "giveup"}}
  MaxStarts = 2
  MaxCrashes = 0
  MaxFaults = 0
  Mixed = FALSE
  NoOne = NoOne
SYMMETRY Symmetry
CHECK_DEADLOCK FALSE
INVARIANTS
  AllGaveUpMeansOver
  TypeOK
  SettledJustified

  
