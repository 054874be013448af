SPECIFICATION FairSpec
CONSTANTS
  Members = {m1, m2}
  Slots = {s1, s2}
  Requests = {"giveup", "end", "result"}
  MaxFaults = 0
  MaxCrashes = 0
  NoOne = NoOne
CHECK_DEADLOCK FALSE
PROPERTIES
  HandlersReturn
