SPECIFICATION Spec
CONSTANTS
  Members = {m1, m2}
  Slots = {s1, s2}
  Requests = {"giveup", "end", "result", "giveup_result", "spin", "exit", "job"}
  MaxFaults = 1
  MaxCrashes = 1
  NoOne = NoOne
SYMMETRY Symmetry
CHECK_DEADLOCK FALSE
INVARIANTS
  TypeOK
  ForfeitInTime
  ResultComplete
  
PROPERTIES
  KeepsLedger
  ExpiryAnnounced
