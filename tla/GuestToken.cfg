SPECIFICATION PagesSpec
CONSTANTS
  Screens = {"account"}
  h = h
  g = g
  a = a
  b = b
  t1 = t1
  d1 = d1
  r1 = r1
  None = None
  Pages = {h, g}
  Host = h
  Trials <- MCTrials
  Limit = 600
  Pcts = {40, 99}
  Typed = {1, 500}
  SavedTiers <- MCSavedTiers
  SavedFields <- MCSavedFields
  MaxTiers = 3
  NoPct = NoPct
  Backlog = 2
  MaxCalls = 5
  Pool <- MCPool
  Dealt <- MCDealt
  Threshold = 3
  MaxLosses = 1
  MaxRefetches = 1
  Tabs = {t1}
  Devices = {d1, d2}
  Ids = {u1}
  Guests = {g1}
  Codes = {r1, r2}
  Scenes <- MCScenes
  Friend = Friend
  Third = Third
  Focuses = {1, 2}
  Breaks = {1, 2}
  RoundCounts = {1, 2, 3}
  TierLists <- MCTierLists
  MaxTotal = 5
  LogIds = {l1, l2}
  MaxLate = 1
  MaxClicks = 3
  Members = {h, g}
  Androids = {g}
  Alerts = {s1}
  MaxSubs = 2
  MaxPushTurns = 3
  Titles = {x}
  MaxSaves = 3
  MaxRuleTurns = 1
  Escapes = {0, 1, 2}
  PageSize = 2
  MaxResults = 5
  MaxListTurns = 1
CHECK_DEADLOCK FALSE
INVARIANT
  ClearsTheRoomless
