-------------------------------- MODULE MCRooms --------------------------------
(***************************************************************************)
(* What a browser shows of the rooms that the server keeps, beside the      *)
(* contract: its accounts and seats, the room page, and saved contracts.   *)
(***************************************************************************)
EXTENDS ContractEditing

CONSTANTS
  Backlog, MaxCalls,                                           \* RoomPage
  Tabs, Devices, Ids, Guests, Codes, Scenes, Friend,           \* Accounts
  Titles, MaxSaves, MaxRuleTurns                               \* RuleTemplates

VARIABLES
  viewer, room, up, shaking, copy, incoming, outgoing, route, store, misled, late, calls,
  device, scene, user, issued, cookie, host, phase, seat, task, excused,
  rules, asking, saved, stale, opened, behind, blended, made, saves, rturns

R == INSTANCE RoomPage WITH Users <- Pages, Viewers <- Pages, NoOne <- None
A == INSTANCE Accounts
S == INSTANCE RuleTemplates WITH task <- asking, list <- saved, turns <- rturns, MaxTurns <- MaxRuleTurns

ASSUME PageGiven == R!NoOneAssumption
=============================================================================
