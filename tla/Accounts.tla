------------------------------- MODULE Accounts -------------------------------
(***************************************************************************)
(* Who a browser is to the server, and the rooms this lets it hold: one    *)
(* Google identity that signs up, deletes its account and signs up again,  *)
(* guests, and what the accounts are kept from by a look at the database   *)
(* that a later statement does not repeat: two rooms hosted at once, a     *)
(* second running session, an account deleted under its room, a guest's    *)
(* token cleared under its seat.  The tabs of a device share the cookie; a *)
(* request carries the token the cookie held when it was sent.             *)
(***************************************************************************)
EXTENDS Naturals, FiniteSets

CONSTANTS
  Tabs, Devices,
  Ids,      \* bound: accounts the identity may be given, one after the other
  Guests,   \* bound: guest ids that can be issued
  Codes,    \* bound: rooms
  Scenes,   \* bound: the kinds of requests that occur together
  Friend,   \* the host of a room none of the tabs has created
  None      \* null

VARIABLES
  device,  \* the device a tab belongs to
  scene,   \* the requests that occur
  user,    \* User: none, live, or deleted (deletedAt)
  issued,  \* the guest ids already given out
  cookie,  \* access_token of a device: whose it is
  host,    \* Room.hostId, None while the room does not exist
  phase,   \* Room.phase: open (lobby, contract), timer, over (result, closed)
  seat,    \* RoomMember: no row, in, out (gaveUpAt)
  task,    \* the request of a tab: [pc, as, code]
  excused  \* history: <<what, who>>, see the properties

rooms == <<host, phase, seat>>
who   == <<user, issued, cookie>>
all   == <<device, scene, who, rooms, task, excused>>

Anyone == Ids \cup Guests
Rest   == [pc |-> "rest", as |-> None, code |-> None]
Busy   == {"login", "signup", "guest", "create", "insert", "join", "upsert",
           "delete", "anonymise", "active", "cleanup"}

AccountsTypeOK ==
  /\ device \in [Tabs -> Devices] /\ scene \in Scenes /\ cookie \in [Devices -> Anyone \cup {None}]
  /\ user \in [Ids -> {"none", "live", "deleted"}] /\ issued \subseteq Guests
  /\ host \in [Codes -> Ids \cup {Friend, None}]
  /\ phase \in [Codes -> {"open", "timer", "over"}]
  /\ seat \in [Codes -> [Anyone -> {"no", "in", "out"}]]
  /\ \A t \in Tabs : task[t] = Rest
       \/ (task[t].pc \in Busy /\ task[t].as \in Anyone \cup {None} /\ task[t].code \in Codes \cup {None})
  /\ excused \subseteq {"create", "join", "delete", "token"} \X Anyone

Init ==
  /\ device \in [Tabs -> Devices] /\ scene \in Scenes
  /\ user = [i \in Ids |-> "none"] /\ issued = {} /\ cookie = [d \in Devices |-> None]
  /\ host \in [Codes -> {Friend, None}]
  /\ phase = [c \in Codes |-> "open"] /\ seat = [c \in Codes |-> [i \in Anyone |-> "no"]]
  /\ task = [t \in Tabs |-> Rest] /\ excused = {}

Me(t)       == cookie[device[t]]
Idle(t)     == task[t] = Rest
At(t, pc)   == task[t].pc = pc
Go(t, pc, as, code) == task' = [task EXCEPT ![t] = [pc |-> pc, as |-> as, code |-> code]]
Done(t)     == task' = [task EXCEPT ![t] = Rest]
Token(t, i) == cookie' = [cookie EXCEPT ![device[t]] = i]
Others(t, i, pcs) == \E o \in Tabs \ {t} : task[o].as = i /\ task[o].pc \in pcs
Excuse(what, ws)  == excused' = excused \cup ({what} \X ws)
\* A row written for somebody who is being deleted, or about to lose the token.
ExcuseRow(t) ==
  LET me == task[t].as IN
  excused' = excused \cup {<<what, me>> : what \in {w \in {"delete", "token"} :
    Others(t, me, IF w = "delete" THEN {"anonymise"} ELSE {"cleanup"})}}

Open(c)      == host[c] # None /\ phase[c] # "over"
Live         == {i \in Ids : user[i] = "live"}
Hosted(i)    == {c \in Codes : host[c] = i /\ Open(c)}
Serving(i)   == {c \in Codes : phase[c] = "timer" /\ seat[c][i] = "in"}
Seated(i)    == {c \in Codes : Open(c) /\ seat[c][i] = "in"}

-----------------------------------------------------------------------------
(* Tokens *)

\* Who loses the token of the device in favour of i.
Replaced(t, i) == {Me(t)} \cap (Guests \ {i})

Login(t) ==
  /\ Idle(t) /\ Me(t) \notin Ids /\ Go(t, "login", None, None)
  /\ UNCHANGED <<device, scene, who, rooms, excused>>

\* OAUTH_SUCCESS, or the callback page: the cookie is set whoever it was.
Signed(t, i) == Token(t, i) /\ Done(t) /\ Excuse("token", Replaced(t, i))

\* validateOAuthLogin, findFirst
Find(t) ==
  /\ At(t, "login")
  /\ \/ \E i \in Live : Signed(t, i)
     \/ Live = {} /\ Go(t, "signup", None, None) /\ UNCHANGED <<cookie, excused>>
  /\ UNCHANGED <<device, scene, user, issued, rooms>>

\* validateOAuthLogin, create: the unique provider id refuses a second account.
SignUp(t) ==
  /\ At(t, "signup")
  /\ \/ Live # {} /\ Done(t) /\ UNCHANGED <<user, cookie, excused>>
     \/ \E i \in Ids : /\ Live = {} /\ user[i] = "none"
                       /\ user' = [user EXCEPT ![i] = "live"] /\ Signed(t, i)
  /\ UNCHANGED <<device, scene, issued, rooms>>

\* handleGuestStart; the dialog shows while nobody is logged in.
GuestStart(t) ==
  /\ Idle(t) /\ Me(t) = None /\ issued # Guests /\ Go(t, "guest", None, None)
  /\ UNCHANGED <<device, scene, who, rooms, excused>>

GuestToken(t) ==
  /\ At(t, "guest")
  /\ \/ \E g \in Guests \ issued : /\ issued' = issued \cup {g} /\ Token(t, g)
                                   /\ Excuse("token", Replaced(t, g))
     \/ UNCHANGED <<issued, cookie, excused>>
  /\ Done(t) /\ UNCHANGED <<device, scene, user, rooms>>

Logout(t) ==
  /\ Idle(t) /\ Me(t) # None /\ Token(t, None) /\ Excuse("token", {Me(t)} \cap Guests)
  /\ UNCHANGED <<device, scene, user, issued, rooms, task>>

-----------------------------------------------------------------------------
(* Rooms *)

Send(t, pc, code) ==
  /\ Idle(t) /\ Me(t) # None /\ Go(t, pc, Me(t), code)
  /\ UNCHANGED <<device, scene, who, rooms, excused>>

\* Mutant: a room its host has not entered yet does not count.
CreateFindEntered(t) ==
  /\ At(t, "create")
  /\ LET me == task[t].as  mine == Hosted(me) IN
     /\ \/ (mine = {} \/ \E c \in mine : seat[c][me] # "in") /\ Go(t, "insert", me, None)
        \/ mine # {} /\ Done(t)
     /\ Excuse("create", IF Others(t, me, {"insert"}) THEN {me} ELSE {})
  /\ UNCHANGED <<device, scene, who, rooms>>

\* create, findActiveRoomByHost: any open room of the host is found, and one
\* that the host has given up is no obstacle, whatever else there is.
CreateFind(t) ==
  /\ At(t, "create")
  /\ LET me == task[t].as  mine == Hosted(me) IN
     \/ /\ mine = {} /\ Go(t, "insert", me, None)
        /\ Excuse("create", IF Others(t, me, {"insert"}) THEN {me} ELSE {})
     \/ \E c \in mine : /\ seat[c][me] = "out" /\ Go(t, "insert", me, None)
                        /\ Excuse("create", IF mine # {c} \/ Others(t, me, {"insert"}) THEN {me} ELSE {})
     \/ \E c \in mine : seat[c][me] # "out" /\ Done(t) /\ UNCHANGED excused
  /\ UNCHANGED <<device, scene, who, rooms>>

\* create, createWithUniqueCode
CreateInsert(t) ==
  /\ At(t, "insert") /\ Done(t)
  /\ \E c \in Codes : host[c] = None /\ host' = [host EXCEPT ![c] = task[t].as]
  /\ ExcuseRow(t) /\ UNCHANGED <<device, scene, who, phase, seat>>

\* Mutant: the running session is looked for in the room that is joined.
JoinFindHere(t) ==
  /\ At(t, "join")
  /\ LET me == task[t].as  c == task[t].code IN
     IF /\ me \in Ids => c \notin Serving(me)
        /\ Open(c) /\ seat[c][me] # "out" /\ (phase[c] = "timer" => seat[c][me] = "in")
     THEN Go(t, "upsert", me, c) ELSE Done(t)
  /\ UNCHANGED <<device, scene, who, rooms, excused>>

\* join: findMemberInTimerRoom is asked for accounts only.
JoinFind(t) ==
  /\ At(t, "join")
  /\ LET me == task[t].as  c == task[t].code IN
     IF /\ me \in Ids => Serving(me) = {}
        /\ Open(c) /\ seat[c][me] # "out" /\ (phase[c] = "timer" => seat[c][me] = "in")
     THEN Go(t, "upsert", me, c) ELSE Done(t)
  /\ UNCHANGED <<device, scene, who, rooms, excused>>

\* handleMemberUpsert: an existing row keeps gaveUpAt.
JoinUpsert(t) ==
  /\ At(t, "upsert") /\ Done(t)
  /\ seat' = [seat EXCEPT ![task[t].code][task[t].as] = IF @ = "no" THEN "in" ELSE @]
  /\ ExcuseRow(t) /\ UNCHANGED <<device, scene, who, host, phase>>

\* leaveRoom; a host that leaves closes the room.
Leave(t, c) ==
  /\ Idle(t) /\ Me(t) # None /\ host[c] # None /\ phase[c] = "open"
  /\ IF host[c] = Me(t) THEN phase' = [phase EXCEPT ![c] = "over"] /\ UNCHANGED seat
     ELSE seat[c][Me(t)] # "no" /\ seat' = [seat EXCEPT ![c][Me(t)] = "no"] /\ UNCHANGED phase
  /\ UNCHANGED <<device, scene, who, host, task, excused>>

GiveUp(t, c) ==
  /\ Idle(t) /\ Me(t) # None /\ c \in Serving(Me(t))
  /\ seat' = [seat EXCEPT ![c][Me(t)] = "out"]
  /\ UNCHANGED <<device, scene, who, host, phase, task, excused>>

\* startTimer: a join that is past its look misses it.
Start(c) ==
  /\ host[c] # None /\ phase[c] = "open" /\ \E i \in Anyone : seat[c][i] = "in"
  /\ phase' = [phase EXCEPT ![c] = "timer"]
  /\ Excuse("join", {i \in Anyone : \E t \in Tabs : task[t].as = i /\ At(t, "upsert")})
  /\ UNCHANGED <<device, scene, who, host, seat, task>>

\* endSession, or the cleanup of an empty room
Finish(c) ==
  /\ Open(c) /\ phase' = [phase EXCEPT ![c] = "over"]
  /\ UNCHANGED <<device, scene, who, host, seat, task, excused>>

-----------------------------------------------------------------------------
(* Deletion *)

\* deleteMe: any row of an unfinished room keeps the account, one given up too.
DeleteFind(t) ==
  /\ At(t, "delete")
  /\ LET me == task[t].as IN
     IF user[me] = "live" /\ \A c \in Codes : Open(c) => host[c] # me /\ seat[c][me] = "no"
     THEN Go(t, "anonymise", me, None) ELSE Done(t)
  /\ UNCHANGED <<device, scene, who, rooms, excused>>

\* deleteMe, the transaction and the blacklist, then logout(): another request
\* of the account, or another device that keeps a token, is not stopped.
DeleteCommit(t) ==
  /\ At(t, "anonymise")
  /\ LET me == task[t].as IN
     /\ user' = [user EXCEPT ![me] = "deleted"]
     /\ excused' = excused \cup ({"token"} \X Replaced(t, me)) \cup
          {<<"delete", i>> : i \in {j \in {me} : \/ Others(t, j, Busy)
                                               \/ \E d \in Devices \ {device[t]} : cookie[d] = j}}
  /\ Token(t, None) /\ Done(t)
  /\ UNCHANGED <<device, scene, issued, rooms>>

-----------------------------------------------------------------------------
(* The way back: useActiveRoom *)

\* getMyActiveRoom answers; an error is taken as "no room".  A guest without a
\* room is to lose the token.
ActiveFind(t, error) ==
  /\ At(t, "active")
  /\ LET me == task[t].as IN
     IF me \in Guests /\ (error \/ Seated(me) = {})
     THEN /\ Go(t, "cleanup", me, None)
          /\ Excuse("token", IF error \/ Others(t, me, {"join", "upsert"}) THEN {me} ELSE {})
     ELSE Done(t) /\ UNCHANGED excused
  /\ UNCHANGED <<device, scene, who, rooms>>

\* clearGuestAccessToken: whichever guest's token the cookie holds by now.
Cleanup(t) ==
  /\ At(t, "cleanup") /\ Done(t)
  /\ cookie' = [cookie EXCEPT ![device[t]] = IF @ \in Guests THEN None ELSE @]
  /\ Excuse("token", IF Me(t) # task[t].as \/ Others(t, Me(t), {"join", "upsert"}) THEN {Me(t)} \cap Guests ELSE {})
  /\ UNCHANGED <<device, scene, user, issued, rooms>>

\* force-disconnect, duplicate-connection: a second tab joins the guest's room,
\* and the first one drops the token of both.
Doubled(t) ==
  /\ Me(t) \in Guests /\ Seated(Me(t)) # {} /\ \E o \in Tabs \ {t} : device[o] = device[t]
  /\ Token(t, None) /\ Excuse("token", {Me(t)})
  /\ UNCHANGED <<device, scene, user, issued, rooms, task>>

Ask(t) ==
  \/ "login" \in scene /\ Login(t)
  \/ "active" \in scene /\ Send(t, "active", None)
  \/ "guest" \in scene /\ GuestStart(t)
  \/ "logout" \in scene /\ Logout(t)
  \/ "double" \in scene /\ Doubled(t)
  \/ \E what \in {"create", "delete"} \cap scene : Me(t) \in Ids /\ Send(t, what, None)
  \/ \E c \in Codes :
       \/ "join" \in scene /\ host[c] # None /\ Send(t, "join", c)
       \/ "leave" \in scene /\ Leave(t, c)
       \/ "giveUp" \in scene /\ GiveUp(t, c)

Answer(t) ==
  \/ Find(t) \/ SignUp(t) \/ GuestToken(t)
  \/ CreateFind(t) \/ CreateInsert(t) \/ JoinFind(t) \/ JoinUpsert(t)
  \/ DeleteFind(t) \/ DeleteCommit(t)
  \/ \E error \in BOOLEAN : ActiveFind(t, error)
  \/ Cleanup(t)

Next == (\E t \in Tabs : Ask(t) \/ Answer(t)) \/ (\E c \in Codes : Start(c) \/ Finish(c))

Spec == Init /\ [][Next]_all

-----------------------------------------------------------------------------
(* Properties *)

\* An account hosts at most one unfinished room that it has not given up (rs
\* create, findActiveRoomByHost), unless two of its creations overlapped or
\* the room found was a given-up one that hid another.
HostsOne ==
  \A i \in Ids : <<"create", i>> \notin excused =>
    Cardinality({c \in Hosted(i) : seat[c][i] # "out"}) < 2

\* An account that serves in a running session enters no other room (join,
\* findMemberInTimerRoom), unless the session began while it was joining;
\* what it had entered before stays.
EntersOne ==
  [][\A i \in Ids : \A c \in Codes :
       (seat[c][i] = "no" /\ seat'[c][i] = "in" /\ Serving(i) # {}) => <<"join", i>> \in excused]_all

\* Whoever has a seat in an unfinished room, or hosts one, can be reached by
\* it: the account is live (deleteMe), the guest's token is in some cookie
\* (useActiveRoom).  Excused are the deletions and cleanups that overtook a
\* request or met an error, and the guests who changed their token themselves
\* or opened their room twice.
NobodyStranded ==
  /\ \A i \in Ids : (Hosted(i) \cup Seated(i) # {} /\ user[i] = "deleted") => <<"delete", i>> \in excused
  /\ \A g \in Guests : (Seated(g) # {} /\ \A d \in Devices : cookie[d] # g) => <<"token", g>> \in excused

\* One room for a host, and a way back for whoever has a seat.
SeatsHold == HostsOne /\ NobodyStranded

\* A guest's token is cleared when the guest has no active room, as
\* useActiveRoom says of itself; nothing else is under way.
ClearsTheRoomless ==
  \A t \in Tabs : (At(t, "cleanup") /\ \A o \in Tabs \ {t} : Idle(o)) => Seated(task[t].as) = {}
=============================================================================
