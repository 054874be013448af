SPECIFICATION Spec
CONSTANTS
  Members = {m1, m2}
  Slots = {s1, s2}
  Requests = {"giveup", "end", "result"}
  MaxFaults = 0
  MaxCrashes = 0
  NoOne = NoOne
SYMMETRY Symmetry
CHECK_DEADLOCK FALSE
INVARIANTS
  ForfeitAlways
