SPECIFICATION Spec
CONSTANTS
  h = h
  g = g
  t1 = t1
  t2 = t2
  Users = {h, g}
  Host = h
  Accounts = {h}
  Sockets <- MCSockets
  Tasks = {t1, t2}
  Trials <- MCQuietTrials
  KickRetries = 0
  NoOne = NoOne
SYMMETRY Symmetry
CHECK_DEADLOCK FALSE
INVARIANTS
  EmptyRoomCloses
