-------------------------------- MODULE MCPages --------------------------------
(***************************************************************************)
(* What runs in browsers, and the arithmetic behind it, as one browser      *)
(* meets it: it is on one screen, whose module moves while the others rest *)
(* in an initial state.  A screen keeps nothing of the one before it but   *)
(* the cookie, which Accounts has.  Beside the screens, what the server     *)
(* keeps for the pages: saved contracts, and subscriptions to messages.    *)
(***************************************************************************)
EXTENDS MCRooms, MCResults, MCTabs

CONSTANTS
  Screens,                          \* the screens looked at
  h, g, a, b, t1, d1, r1            \* two members, two penalties, a tab, a device, a room

VARIABLE screen

roomPage  == <<viewer, room, up, shaking, copy, incoming, outgoing, route, store, misled, late, calls>>
results   == <<giveUp, guest, order, hidden, token, place, seen, list, index, spinning, landing,
               pinned, drawn, finished, dialog, timeUp, skipping, offered, asked, lost, refetches>>
accounts  == <<device, scene, user, issued, cookie, host, phase, seat, task, excused>>
times     == <<contract, now, logs, opening, closing, gaveUpAt, endedAt, result, away>>
tab       == <<tphase, mine, thost, tguest, owes, ttoken, entries, pos, shown, guard, nav, going, leaving,
               from, tfresh, blocked, link, told, twire, tasked, step, tseen, card, tlate, tlost, clicks>>
notices   == <<ended, subscribed, posts, pushSub, quitters, cooldown, alert, warning, notified, steady,
               rejected, pturns>>
library   == <<rules, asking, saved, stale, opened, behind, blended, made, saves, rturns>>
lists     == <<held, where, records, total, page, request, failed, restore, cache, board, since, torn, lturns>>
terms     == <<popup, opener, window, boxes, pending, oauth, departing, ahead, reloaded, readied, mail, back,
               sending, agreed, me, stands, undisturbed, given>>
ASSUME Screens \subseteq {"contract", "room", "result", "account", "timer", "tab", "notices", "library", "lists", "terms"}

-----------------------------------------------------------------------------
(* Values *)

Trio(what, can, count, sign, again) == <<what, can, count, sign, again>>
MCTrials ==
  {Trio("tiers", {h}, 3, {}, 0), Trio("tiers", {h, g}, 1, {h}, 0),
   Trio("fields", {h, g}, 1, {h}, 1), Trio("fields", {h}, 2, {}, 0),
   Trio("penalties", {h, g}, 1, {h, g}, 1), Trio("penalties", {g}, 2, {h}, 0)}
MCSavedTiers  == {<<[min |-> 0, max |-> 30, count |-> 0], [min |-> 30, max |-> NoPct, count |-> 1]>>}
MCSavedFields == {<<50, 10, 2>>}

MCPool  == <<b, a, b>>
MCDealt == <<a, a, b>>

MCScenes == {{"login", "create", "join", "giveUp"}, {"login", "create", "leave", "delete"},
             {"login", "join", "delete"}, {"guest", "login", "join"},
             {"guest", "join", "active", "leave", "logout", "double"}}

Tier(n, minPct, maxPct) == [tier |-> n, minPct |-> minPct, maxPct |-> maxPct]
\* A list whose boundaries sessions this short can meet, without a tier for the
\* shortest escapes, and one with a gap, which is refused.
MCTierLists ==
  {<<Tier(1, 25, 50), Tier(2, 50, 75), Tier(3, 75, None)>>,
   <<Tier(1, 0, 25), Tier(2, 50, None)>>}
\* Of the contracts, those that differ for a session this short: a single round has no
\* break, of two rounds the break is longer than the focus, of three it is as long.
MCContracts ==
  {c \in M!Contracts :
     CASE c.rounds = 1 -> c.break = 1
       [] c.rounds = 2 -> c.break > c.focus
       [] OTHER -> TRUE}

-----------------------------------------------------------------------------
(* The browser *)

\* A module whose screen is not shown starts in one state only.
Resting(s, one) == screen # s => one

PagesInit ==
  /\ screen \in Screens
  /\ Init /\ Resting("contract", subject = "penalties" /\ reloads = 1)
  /\ R!Init /\ Resting("room", viewer = Host)
  /\ W!Init /\ Resting("result", ~giveUp /\ ~guest /\ order = Dealt)
  \* the tabs, devices and rooms are alike; what a guest becomes is a matter of one device
  /\ A!Init /\ device[t1] = d1 /\ (host[r1] = None => \A c \in Codes : host[c] = None)
  /\ scene = {"guest", "login", "join"} => device = [t \in Tabs |-> d1]
  /\ Resting("account", /\ device = [t \in Tabs |-> d1]
                        /\ scene = CHOOSE one \in Scenes : TRUE
                        /\ \A c \in Codes : host[c] = None)
  /\ M!Init /\ contract \in MCContracts
  /\ Resting("timer", contract = CHOOSE one \in MCContracts : TRUE)
  /\ N!Init /\ Resting("tab", tfresh /\ ~owes)
  /\ P!Init /\ Resting("notices", \A m \in Members : subscribed[m] = 0)
  /\ S!Init
  /\ L!Init /\ Resting("lists", held = 0)
  /\ C!Init /\ Resting("terms", popup)

PagesNext ==
  /\ UNCHANGED screen
  /\ \/ screen = "contract" /\ UNCHANGED <<roomPage, results, accounts, times, tab, notices, library, lists, terms>> /\ Next
     \/ screen = "room" /\ UNCHANGED <<vars, results, accounts, times, tab, notices, library, lists, terms>> /\ R!Next
     \/ screen = "result" /\ UNCHANGED <<vars, roomPage, accounts, times, tab, notices, library, lists, terms>> /\ W!Next
     \/ screen = "account" /\ UNCHANGED <<vars, roomPage, results, times, tab, notices, library, lists, terms>> /\ A!Next
     \/ screen = "timer" /\ UNCHANGED <<vars, roomPage, results, accounts, tab, notices, library, lists, terms>> /\ M!Next
     \/ screen = "tab" /\ UNCHANGED <<vars, roomPage, results, accounts, times, notices, library, lists, terms>> /\ N!NavNext
     \/ screen = "notices" /\ UNCHANGED <<vars, roomPage, results, accounts, times, tab, library, lists, terms>> /\ P!PushNext
     \/ screen = "library" /\ UNCHANGED <<vars, roomPage, results, accounts, times, tab, notices, lists, terms>> /\ S!RulesNext
     \/ screen = "lists" /\ UNCHANGED <<vars, roomPage, results, accounts, times, tab, notices, library, terms>> /\ L!ListsNext
     \/ screen = "terms" /\ UNCHANGED <<vars, roomPage, results, accounts, times, tab, notices, library, lists>> /\ C!ConsentNext

PagesSpec == PagesInit /\ [][PagesNext]_<<screen, vars, roomPage, results, accounts, times, tab, notices, library, lists, terms>>

-----------------------------------------------------------------------------
(* The properties of the modules, which say what they are.  A module that    *)
(* rests is in a state that a shown one starts in too.                       *)

\* Every module keeps its types.
PagesTypeOK ==
  CASE screen = "contract" -> TypeOK
    [] screen = "room"     -> R!RoomPageTypeOK
    [] screen = "result"   -> W!TypeOK
    [] screen = "account"  -> A!AccountsTypeOK
    [] screen = "timer"    -> M!TypeOK
    [] screen = "tab"      -> N!NavTypeOK
    [] screen = "notices"  -> P!PushTypeOK
    [] screen = "library"  -> S!RulesTypeOK
    [] screen = "lists"    -> L!ListsTypeOK
    [] screen = "terms"    -> C!ConsentTypeOK

\* A settled room page shows the room: see RoomPage.
PageAgrees == screen = "room" => R!PageAgrees

\* The roulette lists what the server has dealt, and makes it public: see ResultPages.
DrawnAndPublished == screen = "result" => W!DrawnAndPublished

\* The roulette is never stuck: see ResultPages.
CanGoOn == screen = "result" => W!CanGoOn

\* One room for a host, and a way back for whoever has a seat: see Accounts.
SeatsHold == screen = "account" => A!SeatsHold

\* Who serves in a session enters no other room: see Accounts.
EntersOne == A!EntersOne

\* A guest's token is cleared when the guest has no room: see Accounts.
ClearsTheRoomless == A!ClearsTheRoomless

\* The total of a result is the focus time away: see PenaltyMath.
ChargedAsShown == screen = "timer" => M!ChargedAsShown

\* What the user sees is where the room is: see Navigation.
PageShown == screen = "tab" => N!PageShown

\* Nobody who serves is sent home: see Navigation.
Welcome == N!Welcome

\* A warning reaches everybody who can be reached: see PushNotices.
WarnsAll == screen = "notices" => P!WarnsAll

\* What is saved is what was meant: see RuleTemplates.
SavedAsMeant == screen = "library" => S!SavedAsMeant

\* The lists show what there is: see ResultLists.
ListsTrue == screen = "lists" => L!ListsTrue

\* The consent that the server has was given: see TermsConsent.
ConsentMeant == screen = "terms" => C!ConsentMeant

\* The page's clock and the server's timetable agree: see PenaltyMath.
TimetableAgrees == screen = "timer" => M!TimetableAgrees
=============================================================================
