SPECIFICATION FairSpec
CONSTANTS
  Members = {m1}
  Notices = {}
  Handlers = {h1, h2}
  Workers = {w1}
  Boot = boot
  Requests = {"connect", "start", "giveup"}
  Apart = {{"connect", "start"}, {"connect", "giveup"}}
  MaxStarts = 1
  MaxCrashes = 1
  MaxFaults = 2
  Mixed = FALSE
  NoOne = NoOne
CHECK_DEADLOCK FALSE
INVARIANTS
  EndInSight
PROPERTIES
  
  SessionEnds
