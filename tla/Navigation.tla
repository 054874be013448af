------------------------------- MODULE Navigation -------------------------------
(***************************************************************************)
(* One tab on its way through a room: the session history and its guard    *)
(* entries (useBlockBrowserBack), the router's navigations that are asked  *)
(* for and not yet carried out, the redirects of the pages, of the room's  *)
(* socket and of answers that arrive when the page that asked is gone, and *)
(* the room itself, which moves on meanwhile.                              *)
(*                                                                         *)
(* Next.js is modelled from its use here: a navigation is carried out some *)
(* time after it was asked for, on the history entry that is current then; *)
(* a later one replaces it; going to a page that the address bar already   *)
(* shows replaces the entry.  Entries of one document are traversed with a *)
(* popstate event, a traversal between documents loads the page anew.      *)
(***************************************************************************)
EXTENDS Naturals, Sequences

CONSTANTS
  MaxClicks,  \* bound: what the user does, and connections lost
  None        \* null

VARIABLES
  phase,   \* Room.phase, "none" before the room exists
  mine,    \* the user's RoomMember: no, in, out (gaveUpAt), banned
  host,    \* the user is Room.hostId
  guest,   \* the user has a guest's token
  owes,    \* the result has penalties to draw for the user
  token,   \* access_token
  entries, \* the session history: [page, flag (ddtGuard), doc]
  pos,     \* the current entry
  shown,   \* the page that is mounted
  guard,   \* __ddt_back_guard.stack: None, "stay", or "home" (redirectTo)
  nav,     \* the router's pending navigation, or None
  going,   \* history.go(1) calls not yet carried out
  leaving, \* location.replace('/') is under way
  from,    \* totalResultFrom is 'room'
  fresh,   \* justLoggedIn
  blocked, \* CreateRoom, shouldBlockBack
  link,    \* the socket: none, down (connecting), up, cut (for good)
  told,    \* useRoomStore: [phase, out]
  wire,    \* events on their way to the page
  asked,   \* requests and their answers
  step,    \* CreateRoom: form, creating, complete
  seen,    \* JoinRoom: the room's phase, the active room, initialCheckRef
  card,    \* useActiveRoom: the phase of the active room, "no", or None
  late,    \* the session's time is over, or the window has been focused again
  lost,    \* history: an answer has navigated away from a page that had not asked, or was going
           \* on, or history.go(1) has gone beyond the page it was to return to
  clicks

room    == <<phase, mine, host, guest, owes>>
session == <<entries, pos, shown, guard>>
moves   == <<nav, going, leaving>>
tab     == <<from, fresh, blocked>>
socket  == <<link, told, wire>>
pages   == <<step, seen, card, late>>
vars    == <<room, token, session, moves, tab, socket, asked, lost, pages, clicks>>

Joined   == {"contract", "timer", "semi"}
Routes   == Joined \cup {"home", "create", "join", "roulette", "giveup", "total"}
Phases   == {"none", "lobby", "contract", "timer", "result", "closed"}
Requests == {"enter", "create", "destroy", "join", "leave", "giveUp", "poll"}
Untold   == [phase |-> None, out |-> FALSE]
Unseen   == [room |-> None, active |-> None, done |-> FALSE]
Push(p)    == [how |-> "push", page |-> p]
Replace(p) == [how |-> "replace", page |-> p]

\* null is none of the values.
NothingAssumption ==
  /\ MaxClicks \in Nat /\ None \notin BOOLEAN
  /\ None \notin Phases \cup {"stay", "home", "sent", "ok", "no", "gone"}
  /\ None \notin [how : {"push", "replace"}, page : Routes]

NavTypeOK ==
  /\ phase \in Phases /\ mine \in {"no", "in", "out", "banned"}
  /\ {host, guest, owes, token, leaving, from, fresh, blocked, late, lost} \subseteq BOOLEAN
  /\ entries \in Seq([page : Routes, flag : BOOLEAN, doc : Nat]) /\ pos \in 1..Len(entries)
  /\ shown \in Routes /\ guard \in {None, "stay", "home"} /\ going \in Nat
  /\ nav = None \/ nav \in [how : {"push", "replace"}, page : Routes]
  /\ link \in {"none", "down", "up", "cut"} /\ (link = "none" <=> shown \notin Joined)
  /\ told \in [phase : Phases \cup {None}, out : BOOLEAN]
  /\ wire \in Seq({"started", "ended", "closed", "kicked"})
  /\ asked \in [Requests -> {None, "sent", "ok", "no", "gone"}]
  /\ step \in {"form", "creating", "complete"} /\ card \in Phases \cup {"no", None}
  /\ seen \in [room : Phases \cup {None}, active : BOOLEAN \cup {None}, done : BOOLEAN]
  /\ clicks \in 0..MaxClicks

\* A guest opens a link; a user comes from the home page, or has just logged
\* in to create a room.
Init ==
  /\ guest \in BOOLEAN /\ owes \in BOOLEAN /\ fresh \in BOOLEAN /\ phase \in {"none", "lobby", "contract"}
  /\ phase = "none" => ~guest
  /\ fresh => phase = "none"
  /\ mine = "no" /\ host = FALSE /\ token = TRUE
  /\ LET first == IF phase = "none" /\ fresh THEN "create" ELSE IF guest THEN "join" ELSE "home" IN
     /\ shown = first
     /\ entries = <<[page |-> "home", flag |-> FALSE, doc |-> 0], [page |-> first, flag |-> FALSE, doc |-> 1]>>
                     \o (IF fresh THEN <<[page |-> first, flag |-> TRUE, doc |-> 1]>> ELSE <<>>)
     /\ guard = IF fresh THEN "home" ELSE None
  /\ pos = Len(entries) /\ blocked = fresh
  /\ nav = None /\ going = 0 /\ leaving = FALSE /\ from = FALSE
  /\ link = "none" /\ told = Untold /\ wire = <<>> /\ asked = [r \in Requests |-> None]
  /\ step = "form" /\ seen = Unseen /\ card = None /\ late = FALSE /\ lost = FALSE /\ clicks = 0

-----------------------------------------------------------------------------
(* Pages *)

\* The guard a page mounts with.
GuardOf(page) ==
  CASE page \in {"timer", "semi", "roulette", "giveup"} -> "stay"
    [] page = "total"  -> IF from THEN "home" ELSE None
    [] page = "create" -> IF fresh THEN "home" ELSE None
    [] OTHER -> None

\* The redirects of ContractForm and Timer: of the two effects of Timer the
\* one on the phase is the later one.
Followed(page, t) ==
  CASE page = "contract" /\ t.phase = "timer" -> Replace("timer")
    [] page \in {"contract", "timer"} /\ t.phase = "result" -> Replace("semi")
    [] page = "timer" /\ t.phase = "contract" -> Replace("contract")
    [] page = "timer" /\ t.phase # "result" /\ t.out -> Replace("giveup")
    [] OTHER -> None

\* The page is mounted at entry p of es, and pushGuard adds the guard entry
\* unless the entry is one.  The pages of a joined room share the socket.
Mounted(page, es, p, loaded) ==
  LET kept == shown \in Joined /\ ~loaded  guarding == GuardOf(page) IN
  /\ shown' = page /\ guard' = guarding
  /\ IF guarding # None /\ ~es[p].flag
     THEN /\ entries' = Append(SubSeq(es, 1, p), [es[p] EXCEPT !.flag = TRUE])
          /\ pos' = p + 1
     ELSE entries' = es /\ pos' = p
  /\ IF page = "create" THEN blocked' = fresh /\ fresh' = FALSE ELSE UNCHANGED <<blocked, fresh>>
  /\ IF page \in Joined /\ kept THEN UNCHANGED socket
     ELSE /\ link' = IF page \in Joined THEN "down" ELSE "none"
          /\ told' = Untold /\ wire' = <<>>
  /\ step' = "form" /\ seen' = Unseen /\ card' = None /\ late' = FALSE
  /\ nav' = IF page \in Joined /\ kept THEN Followed(page, told) ELSE None

\* A document is loaded: nothing of the old one is left.
Loaded(page, es, p) ==
  /\ Mounted(page, es, p, TRUE)
  /\ going' = 0 /\ leaving' = FALSE /\ asked' = [r \in Requests |-> None]

\* The router shows the page of entry p of es.
Shown(page, es, p, left) ==
  /\ IF page # shown THEN Mounted(page, es, p, FALSE)
     ELSE entries' = es /\ pos' = p /\ nav' = None /\ UNCHANGED <<shown, guard, socket, fresh, blocked, pages>>
  /\ going' = left /\ UNCHANGED leaving

\* The router carries the navigation out.  Its entries have no flag.
Commit ==
  /\ nav # None
  /\ LET e == [page |-> nav.page, flag |-> FALSE, doc |-> entries[pos].doc] IN
     IF nav.how = "push" /\ entries[pos].page # nav.page
     THEN Shown(nav.page, Append(SubSeq(entries, 1, pos), e), pos + 1, going)
     ELSE Shown(nav.page, [entries EXCEPT ![pos] = e], pos, going)
  /\ UNCHANGED <<asked, room, token, from, clicks, lost>>

-----------------------------------------------------------------------------
(* The session history *)

\* Mutant: a traversal away from a guarded page is kept from the router and
\* not taken back.
PoppedSwallowed(to, left) ==
  IF guard = None THEN Shown(entries[to].page, entries, to, left)
  ELSE /\ pos' = to /\ going' = left
       /\ leaving' = (leaving \/ (~entries[to].flag /\ guard = "home"))
       /\ UNCHANGED <<entries, shown, guard, nav, fresh, blocked, socket, pages>>

\* handlePopState, ahead of the router: left calls of history.go(1) remain.
Popped(to, left) ==
  IF guard = None THEN Shown(entries[to].page, entries, to, left)
  ELSE /\ pos' = to
       /\ going' = left + (IF entries[to].flag \/ guard = "home" THEN 0 ELSE 1)
       /\ leaving' = (leaving \/ (~entries[to].flag /\ guard = "home"))
       /\ UNCHANGED <<entries, shown, guard, nav, fresh, blocked, socket, pages>>

\* as: the requests that are under way, unless the document is left
Traversed(to, left, as) ==
  IF entries[to].doc = entries[pos].doc THEN Popped(to, left) /\ asked' = as
  ELSE Loaded(entries[to].page, entries, to)

\* The guarded page is back at its guard entry, and is still sent on: of Backs that came
\* faster than history.go(1) each has asked for it, though one had only met a guard.
Overshoots == guard = "stay" /\ entries[pos].flag /\ entries[pos].page = shown /\ pos < Len(entries)

\* history.go(1); without a next entry it does nothing.
GoForward ==
  /\ going > 0
  /\ IF pos < Len(entries) THEN Traversed(pos + 1, going - 1, asked)
     ELSE going' = going - 1 /\ UNCHANGED <<session, nav, leaving, fresh, blocked, socket, asked, pages>>
  /\ lost' = (lost \/ Overshoots)
  /\ UNCHANGED <<room, token, from, clicks>>

\* location.replace('/')
Leave ==
  /\ leaving
  /\ LET docs == {entries[i].doc : i \in DOMAIN entries}
         e == [page |-> "home", flag |-> FALSE, doc |-> CHOOSE d \in 0..Len(entries) : d \notin docs] IN
     Loaded("home", [entries EXCEPT ![pos] = e], pos)
  /\ UNCHANGED <<room, token, from, clicks, lost>>

-----------------------------------------------------------------------------
(* The user *)

Touch == clicks < MaxClicks /\ clicks' = clicks + 1
\* Bound: on a page nothing is clicked before history.go(1) is carried out.
Click == going = 0 /\ Touch
\* What a click that only asks the router leaves alone.
Still == UNCHANGED <<room, session, going, leaving, fresh, blocked, socket, asked, pages, lost>>
Goto(n) == nav' = n /\ Click /\ Still
Ask(r)  == asked' = [asked EXCEPT ![r] = "sent"]
Idle(r) == asked[r] = None
\* (Bound: no request from a page that is about to be left.)
Asks(r) ==
  /\ Idle(r) /\ nav = None /\ Ask(r) /\ Click
  /\ UNCHANGED <<room, token, session, moves, tab, socket, seen, card, late, lost>>

\* clearGuestAccessToken
GuestGone == token' = (token /\ ~guest)

Back ==
  /\ pos > 1 /\ Touch /\ Traversed(pos - 1, going, asked)
  /\ UNCHANGED <<room, token, from, lost>>

Reload ==
  /\ Click /\ Loaded(entries[pos].page, entries, pos)
  /\ UNCHANGED <<room, token, from, lost>>

\* MainPage: back to the room, to a new one, or by a code (RoomCodeDialog).
Path(p) == IF p \in {"contract", "timer"} THEN p ELSE "join"
Home ==
  /\ shown = "home" /\ UNCHANGED <<token, from>>
  /\ \/ card \in Phases /\ Goto(Push(Path(card)))
     \/ card = "no" /\ token /\ ~guest /\ Goto(Push("create"))
EnterCode == shown = "home" /\ card = "no" /\ Asks("enter") /\ UNCHANGED step
\* The dialog is closed: an answer to come is as good as a refusal.
CloseDialog ==
  /\ shown = "home" /\ asked["enter"] \in {"sent", "ok"} /\ asked' = [asked EXCEPT !["enter"] = "no"]
  /\ Click /\ UNCHANGED <<room, token, session, moves, tab, socket, pages, lost>>

\* CreateRoom: the form, the way into the new room, its end, and the question
\* about the room there is already.
Submit == shown = "create" /\ step = "form" /\ Asks("create") /\ step' = "creating"
Destroy == shown = "create" /\ step = "complete" /\ Asks("destroy") /\ UNCHANGED step
Create ==
  /\ shown = "create" /\ UNCHANGED <<token, from>>
  /\ \/ step = "complete" /\ Goto(Push("join"))
     \/ card \in Phases /\ (Goto(Push(Path(card))) \/ Goto(Push("home")))

\* JoinRoom and ContractForm
Join      == shown = "join" /\ token /\ seen.room \in {"lobby", "contract"} /\ Asks("join") /\ UNCHANGED step
LeaveRoom == shown = "contract" /\ link # "cut" /\ Asks("leave") /\ UNCHANGED step
\* Timer
Forfeit   == shown = "timer" /\ told.phase = "timer" /\ Asks("giveUp") /\ UNCHANGED step

\* RoomNotFound, SemiResult, useRouletteLogic (moveToFinishTarget, and an exit
\* that failed), TotalResult
GoOn ==
  \/ shown \in Joined /\ link = "cut" /\ Goto(Push("home")) /\ UNCHANGED <<token, from>>
  \/ /\ shown = "semi" /\ Goto(Push(IF owes THEN "roulette" ELSE "total"))
     /\ from' = (from \/ ~owes) /\ UNCHANGED token
  \/ shown = "roulette" /\ Goto(Replace("total")) /\ from' = TRUE /\ UNCHANGED token
  \/ shown = "roulette" /\ Goto(Push("home")) /\ GuestGone /\ UNCHANGED from
  \/ shown = "giveup" /\ Goto(Replace("home")) /\ GuestGone /\ UNCHANGED from
  \/ shown = "total" /\ Goto(Push("home")) /\ GuestGone /\ from' = FALSE
  \/ shown = "total" /\ Goto(Replace("home")) /\ UNCHANGED <<token, from>>

-----------------------------------------------------------------------------
(* What the pages look up *)

Active == token /\ phase \in {"lobby", "contract", "timer"} /\ (mine = "in" \/ (host /\ mine = "no"))
Quiet  == UNCHANGED <<room, session, going, leaving, tab, socket, asked, step, clicks, lost>>

\* useActiveRoom, on the home page and in CreateRoom, which asks about the room
\* while it shows the form: a guest without a room loses the token.
LookForRoom ==
  /\ shown = "home" \/ (shown = "create" /\ step # "complete")
  /\ card' = IF Active THEN phase ELSE "no"
  /\ IF Active THEN UNCHANGED token ELSE GuestGone
  /\ UNCHANGED <<nav, seen, late>> /\ Quiet

\* The effects of JoinRoom, when one of its lookups has been answered.
Turned(s) ==
  /\ seen' = [s EXCEPT !.done = s.done \/ s.room = "result" \/ (s.room = "timer" /\ (~token \/ s.active # None))]
  /\ nav' = CASE s.room \in {"none", "closed"} -> Replace("home")
              [] s.room = "result" /\ ~s.done -> Replace("home")
              [] s.room = "timer" /\ ~s.done /\ seen'.done ->
                   Replace(IF token /\ s.active = TRUE THEN "timer" ELSE "home")
              [] OTHER -> nav
  /\ UNCHANGED <<token, card, late>> /\ Quiet

\* Mutant: the room's phase decides before the active room is known.
JoinLookEager ==
  /\ shown = "join" /\ \/ Turned([seen EXCEPT !.room = phase, !.active = (@ = TRUE)])
                       \/ token /\ Turned([seen EXCEPT !.active = Active])

JoinLook ==
  /\ shown = "join" /\ \/ Turned([seen EXCEPT !.room = phase])
                       \/ token /\ Turned([seen EXCEPT !.active = Active])

\* syncEndedSessionRoute, every two seconds from the end on
Poll ==
  /\ shown = "timer" /\ told.phase = "timer" /\ late /\ Idle("poll") /\ Ask("poll")
  /\ UNCHANGED <<room, token, session, moves, tab, socket, pages, clicks, lost>>
TimeOver ==
  /\ shown = "timer" /\ told.phase = "timer" /\ ~late /\ late' = TRUE
  /\ UNCHANGED <<room, token, session, moves, tab, socket, asked, step, seen, card, clicks, lost>>

-----------------------------------------------------------------------------
(* The server *)

Tells(e, l) == /\ wire' = (IF link = "up" THEN Append(wire, e) ELSE wire)
               /\ link' = (IF link = "up" THEN l ELSE link)
               /\ UNCHANGED told
Elsewhere == UNCHANGED <<token, session, moves, tab, asked, pages, clicks, lost>>
Answers(r, how) == asked' = [asked EXCEPT ![r] = how]

\* Others bring the room on; a host that removes somebody; the room's end.
RoomMoves ==
  /\ \/ phase = "lobby" /\ phase' = "contract" /\ UNCHANGED <<mine, socket>>
     \/ phase = "contract" /\ phase' = "timer" /\ Tells("started", "up") /\ UNCHANGED mine
     \/ phase = "timer" /\ phase' = "result" /\ Tells("ended", "up") /\ UNCHANGED mine
     \/ phase \in {"lobby", "contract"} /\ phase' = "closed" /\ Tells("closed", "cut") /\ UNCHANGED mine
     \/ phase = "contract" /\ mine = "in" /\ ~host /\ mine' = "banned" /\ Tells("kicked", "cut") /\ UNCHANGED phase
  /\ UNCHANGED <<host, guest, owes>> /\ Elsewhere

\* A request is served.
Serve ==
  /\ UNCHANGED <<guest, owes, token, session, moves, tab, pages, clicks, lost>>
  /\ \/ /\ asked["enter"] = "sent"
        /\ Answers("enter", IF phase \in {"none", "closed"} THEN "no" ELSE "ok")
        /\ UNCHANGED <<phase, mine, host, socket>>
     \/ /\ asked["create"] = "sent" /\ IF phase = "none" THEN phase' = "lobby" /\ host' = TRUE /\ Answers("create", "ok")
                                       ELSE UNCHANGED <<phase, host>> /\ Answers("create", "no")
        /\ UNCHANGED <<mine, socket>>
     \/ /\ asked["join"] = "sent" /\ UNCHANGED <<phase, host, socket>>
        /\ IF ~token \/ mine \in {"out", "banned"} \/ phase \in {"closed", "result"} \/ (phase = "timer" /\ mine = "no")
           THEN Answers("join", "no") /\ UNCHANGED mine
           ELSE mine' = "in" /\ Answers("join", "ok")
     \/ /\ asked["giveUp"] = "sent" /\ UNCHANGED <<phase, host, told, wire>>
        /\ IF token /\ phase = "timer" /\ mine = "in"
           THEN mine' = "out" /\ Answers("giveUp", "ok") /\ link' = (IF link = "up" THEN "cut" ELSE link)
           ELSE Answers("giveUp", "no") /\ UNCHANGED <<mine, link>>
     \/ /\ asked["poll"] = "sent" /\ UNCHANGED <<phase, mine, host, socket>>
        /\ Answers("poll", CASE phase = "result" -> "ok" [] phase = "closed" -> "gone" [] OTHER -> "no")
     \/ \E r \in {"leave", "destroy"} : asked[r] = "sent" /\
        IF ~token \/ phase \notin {"lobby", "contract"} \/ (~host /\ mine # "in")
        THEN Answers(r, "no") /\ UNCHANGED <<phase, mine, host, socket>>
        ELSE /\ Answers(r, "ok") /\ UNCHANGED host
             /\ IF host THEN phase' = "closed" /\ Tells("closed", "cut") /\ UNCHANGED mine
                ELSE mine' = "no" /\ UNCHANGED <<phase, socket>>

-----------------------------------------------------------------------------
(* Answers: what they do does not ask which page is mounted by now *)

Asker == [enter |-> "home", create |-> "create", destroy |-> "create", join |-> "join",
          leave |-> "contract", giveUp |-> "timer", poll |-> "timer"]
Told(r) == asked' = [asked EXCEPT ![r] = None]
Answered ==
  /\ UNCHANGED <<room, fresh, blocked, socket, seen, card, late, clicks>>
  /\ \/ /\ asked["enter"] \in {"ok", "no"} /\ Told("enter")
        /\ nav' = (IF asked["enter"] = "ok" THEN Push("join") ELSE nav)
        /\ UNCHANGED <<token, session, going, leaving, from, step>>
     \/ /\ asked["create"] \in {"ok", "no"} /\ Told("create")
        /\ step' = (IF step # "creating" THEN step ELSE IF asked["create"] = "ok" THEN "complete" ELSE "form")
        /\ UNCHANGED <<token, session, moves, from>>
     \/ /\ asked["join"] \in {"ok", "no"} /\ Told("join")
        /\ nav' = (IF asked["join"] = "ok" THEN Push("contract") ELSE nav)
        /\ UNCHANGED <<token, session, going, leaving, from, step>>
     \/ /\ asked["leave"] \in {"ok", "no"} /\ Told("leave")
        /\ IF asked["leave"] = "ok" THEN GuestGone /\ nav' = Replace("home") ELSE UNCHANGED <<token, nav>>
        /\ UNCHANGED <<session, going, leaving, from, step>>
     \/ /\ asked["giveUp"] \in {"ok", "no"} /\ Told("giveUp")
        /\ nav' = (IF asked["giveUp"] = "ok" THEN Push("giveup") ELSE nav)
        /\ UNCHANGED <<token, session, going, leaving, from, step>>
     \/ /\ asked["poll"] \in {"ok", "no", "gone"} /\ Told("poll")
        /\ nav' = CASE asked["poll"] = "ok" -> Replace("semi") [] asked["poll"] = "gone" -> Replace("total") [] OTHER -> nav
        /\ from' = (from \/ asked["poll"] = "gone")
        /\ UNCHANGED <<token, session, going, leaving, step>>
  /\ lost' = (lost \/ (nav' # nav /\ (nav # None \/ \A r \in Requests : asked'[r] = asked[r] \/ shown # Asker[r])))

\* destroyRoomMutation: whatever the answer, onBack.
DestroyAnswered ==
  /\ asked["destroy"] \in {"ok", "no"} /\ UNCHANGED <<room, token, from, clicks, lost>>
  /\ IF blocked \/ pos = 1
     THEN /\ Told("destroy") /\ nav' = (IF blocked THEN Push("home") ELSE nav)
          /\ UNCHANGED <<session, going, leaving, fresh, blocked, socket, pages>>
     ELSE Traversed(pos - 1, going, [asked EXCEPT !["destroy"] = None])

-----------------------------------------------------------------------------
(* The socket *)

\* A store that has heard the room's state.
Heard(t) == told' = t /\ nav' = (IF Followed(shown, t) = None THEN nav ELSE Followed(shown, t))

Thrown(page) == nav' = Replace(page) /\ UNCHANGED told

\* handleConnection, and the page's answer to a refusal.
Connect ==
  /\ link = "down" /\ UNCHANGED <<wire, guest, owes, host, mine, session, going, leaving, tab, asked, pages, clicks, lost>>
  /\ \/  /\ (~token \/ phase \in {"none", "closed"}) /\ link' = "cut" /\ UNCHANGED <<phase, token, told, nav>>
     \/ /\ token /\ (phase = "result" \/ (phase = "timer" /\ mine \notin {"in", "out"}))
        /\ link' = "cut" /\ Thrown("home") /\ GuestGone /\ UNCHANGED phase
     \/ /\ token /\ phase \in {"lobby", "contract"} /\ mine # "in"
        /\ link' = "cut" /\ Thrown("join") /\ UNCHANGED <<phase, token>>
     \/ /\ token /\ phase \in {"lobby", "contract", "timer"} /\ mine \in {"in", "out"}
        /\ link' = "up" /\ phase' = (IF phase = "lobby" THEN "contract" ELSE phase)
        /\ Heard([phase |-> phase', out |-> mine = "out"]) /\ UNCHANGED token

Drop ==
  /\ link = "up" /\ Touch
  /\ link' = "down" /\ wire' = <<>>
  /\ UNCHANGED <<room, token, session, moves, tab, told, asked, pages, lost>>

Deliver ==
  /\ wire # <<>> /\ wire' = Tail(wire)
  /\ CASE Head(wire) = "started" -> Heard([told EXCEPT !.phase = "timer"]) /\ UNCHANGED token
       [] Head(wire) = "ended"   -> Heard([told EXCEPT !.phase = "result"]) /\ UNCHANGED token
       [] Head(wire) = "kicked"  -> Thrown("home") /\ GuestGone
       [] OTHER -> told' = Untold /\ nav' = Replace("home") /\ GuestGone
  /\ UNCHANGED <<room, link, session, going, leaving, tab, asked, pages, clicks, lost>>

User    == Back \/ Reload \/ Home \/ EnterCode \/ CloseDialog \/ Submit \/ Destroy \/ Create \/ Join \/ LeaveRoom \/ Forfeit \/ GoOn
Browser == Commit \/ GoForward \/ Leave \/ LookForRoom \/ JoinLook \/ Poll \/ TimeOver
             \/ Answered \/ DestroyAnswered \/ Deliver
NavNext == User \/ Browser \/ RoomMoves \/ Serve \/ Connect \/ Drop
NavSpec == Init /\ [][NavNext]_vars

-----------------------------------------------------------------------------
(* Properties *)

Settled == nav = None /\ going = 0 /\ ~leaving

\* Once the browser has come to rest the address bar names the page that is
\* shown: a Back that a guarded page keeps from the router is always taken
\* back, however quickly it is repeated and whatever redirects meanwhile,
\* unless it has been taken back too often (lost; handlePopState, pushGuard).
UrlShows == Settled /\ ~lost => entries[pos].page = shown

\* A page of a room that has its connection, and has been told everything,
\* is the page of the room's phase (ContractForm, Timer).
FollowsPhase ==
  Settled /\ ~lost /\ link = "up" /\ wire = <<>> =>
    CASE phase = "contract" -> shown = "contract"
      [] phase = "timer"    -> shown = "timer"
      [] phase = "result"   -> shown = "semi"
      [] OTHER -> FALSE

\* What the user sees is where the room is, and the address bar says so.
PageShown == UrlShows /\ FollowsPhase

\* Nobody who writes a contract or serves in its session is sent home by what
\* a page looked up, though the room, the active room and the connection are
\* looked up apart and in any order ("timer: a member goes to the timer"):
\* unless the page has the active room from before the user joined (JoinRoom,
\* useActiveRoom, SocketContext).
Welcome ==
  [][nav' # nav /\ nav' = Replace("home") /\ token /\ mine = "in" /\ phase \in {"contract", "timer"}
       => clicks' # clicks \/ asked' # asked \/ wire' # wire \/ seen.active = FALSE]_vars
=============================================================================
