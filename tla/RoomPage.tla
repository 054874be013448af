------------------------------ MODULE RoomPage ------------------------------
(***************************************************************************)
(* What one browser shows of its room: the store that SocketContext fills  *)
(* from the events of RoomGateway, against the room state in Redis.        *)
(*                                                                         *)
(* handleConnection reads the room state first and answers with that copy  *)
(* several awaits later (room:state to the newcomer, member:joined to the  *)
(* others), while the newcomer already receives what is broadcast.  Every  *)
(* other handler is one step here; how they overlap is RoomPresence's.     *)
(*                                                                         *)
(* misled and late name whom and what such an old copy can hide: changes   *)
(* made while the handshake that carries it was running.  What the page    *)
(* shows of anybody else has to be right.                                  *)
(***************************************************************************)
EXTENDS Integers, Sequences, FiniteSets, SequencesExt

CONSTANTS
  Users,    \* everybody who may be in the room
  Host,     \* room.hostId
  Viewers,  \* whose browser may be the one looked at
  MaxCalls, \* bound: connections, calls and messages
  Backlog,  \* bound: events on their way before one more call
  NoOne     \* undefined

Stages  == {"lobby", "contract", "timer", "result", "closed"}
Open    == {"lobby", "contract"}
\* isSigned is undefined until its member has signed or been reset.
Entry   == [signed : BOOLEAN \cup {NoOne}, can : BOOLEAN]
Entries == [Users -> Entry \cup {NoOne}]
Rooms   == [stage : Stages, members : Entries]
PCs     == {"idle", "read", "valid", "joined"}

\* undefined is none of the values.
NoOneAssumption ==
  /\ Viewers \subseteq Users /\ MaxCalls \in Nat
  /\ NoOne \notin Users /\ NoOne \notin BOOLEAN /\ NoOne \notin Stages
  /\ NoOne \notin Entry /\ NoOne \notin Rooms

VARIABLES
  viewer,  \* whose browser it is
  room,    \* Redis room:state, the phase and the members' entries
  up,      \* Socket.IO: the users whose socket is in the room
  shaking, \* handleConnection: the await every user's handshake is at
  copy,    \* handleConnection: the roomState it has read, or NoOne
  incoming,\* the events on their way to the page
  outgoing,\* the message on its way from the page, or NoOne
  route,   \* the page: room, home, or the form to join
  store,   \* useRoomStore: [phase, members]
  misled,  \* history: whose entry changed under a handshake that shows it
  late,    \* history: the phase changed under the page's own handshake
  calls    \* counter of the bound

browser == <<route, store>>
network == <<up, incoming, outgoing>>
shakes  == <<shaking, copy>>
history == <<misled, late>>
page    == <<viewer, room, shakes, network, browser, history, calls>>

NoStore == [phase |-> NoOne, members |-> [u \in Users |-> NoOne]]

RoomPageTypeOK ==
  /\ viewer \in Viewers /\ room \in Rooms
  /\ up \subseteq Users /\ shaking \in [Users -> PCs]
  /\ copy \in [Users -> Rooms \cup {NoOne}]
  /\ \A u \in Users : (shaking[u] = "idle") = (copy[u] = NoOne)
  /\ route \in {"room", "home", "join"}
  /\ store.phase \in Stages \cup {NoOne} /\ store.members \in Entries
  /\ misled \subseteq Users /\ late \in BOOLEAN /\ calls \in 0 .. MaxCalls

\* The host and the viewer have joined; nobody is connected.
Init ==
  /\ viewer \in Viewers
  /\ room = [stage   |-> "lobby",
             members |-> [u \in Users |->
               IF u \in {Host, viewer} THEN [signed |-> NoOne, can |-> u = Host] ELSE NoOne]]
  /\ up = {} /\ incoming = <<>> /\ outgoing = NoOne
  /\ shaking = [u \in Users |-> "idle"] /\ copy = [u \in Users |-> NoOne]
  /\ route = "room" /\ store = NoStore
  /\ misled = {} /\ late = FALSE /\ calls = 0

-----------------------------------------------------------------------------
(* What every handler does *)

Call == calls < MaxCalls /\ Len(incoming) < Backlog /\ calls' = calls + 1

\* server.to(roomCode).emit, as far as the page is concerned.
Emit(e) == incoming' = IF viewer \in up THEN Append(incoming, e) ELSE incoming

\* History: the entries of the users in changed are not what a copy holds.
Mislead(changed, hidden) ==
  misled' = misled \cup hidden
    \cup {u \in changed : shaking[viewer] # "idle" \/ shaking[u] # "idle"}

Put(u, e) == [room EXCEPT !.members[u] = e]
InRoom(u) == room.members[u] # NoOne
Signs(e)  == e.signed = TRUE

\* A change that is broadcast to everybody in the room.
Change(changed, hidden, r, e) ==
  /\ room' = r /\ Emit(e) /\ Mislead(changed, hidden)
  /\ UNCHANGED <<viewer, shakes, up, browser, late>>

-----------------------------------------------------------------------------
(* RoomGateway.handleConnection *)

\* getRoomState.  The page itself looks afresh: only another member's
\* handshake, still under way, can hide something from it.
Connect(u) ==
  /\ shaking[u] = "idle" /\ u \notin up /\ room.stage # "closed"
  /\ u = viewer => route = "room"
  /\ Call
  /\ IF room.stage = "result" \/ (room.stage = "timer" /\ ~InRoom(u))
     THEN /\ IF u = viewer THEN route' = "home" /\ store' = NoStore ELSE UNCHANGED browser
          /\ UNCHANGED <<shakes, history>>
     ELSE /\ shaking' = [shaking EXCEPT ![u] = "read"]
          /\ copy' = [copy EXCEPT ![u] = room]
          /\ IF u = viewer THEN misled' = {v \in misled : shaking[v] # "idle"} /\ late' = FALSE
                           ELSE UNCHANGED history
          /\ UNCHANGED browser
  /\ UNCHANGED <<viewer, room, network>>

\* isMember, against the member row.
ConnectMember(u) ==
  /\ shaking[u] = "read"
  /\ IF InRoom(u)
     THEN shaking' = [shaking EXCEPT ![u] = "valid"] /\ UNCHANGED <<copy, browser>>
     ELSE /\ shaking' = [shaking EXCEPT ![u] = "idle"] /\ copy' = [copy EXCEPT ![u] = NoOne]
          /\ IF u = viewer THEN route' = "join" /\ store' = NoStore ELSE UNCHANGED browser
  /\ UNCHANGED <<viewer, room, network, history, calls>>

ConnectJoin(u) ==
  /\ shaking[u] = "valid"
  /\ shaking' = [shaking EXCEPT ![u] = "joined"]
  /\ up' = up \cup {u}
  /\ UNCHANGED <<viewer, room, copy, incoming, outgoing, browser, history, calls>>

\* Mutant: the newcomer is told of the room as it was at the handshake.
AnnounceCopy(u) ==
  /\ shaking[u] = "joined"
  /\ IF u = viewer
     THEN IF u \in up THEN incoming' = Append(incoming, <<"state", copy[u]>>) ELSE UNCHANGED incoming
     ELSE Emit(<<"joined", u, copy[u].members[u]>>)
  /\ room' = IF room.stage = "lobby" THEN [room EXCEPT !.stage = "contract"] ELSE room
  /\ shaking' = [shaking EXCEPT ![u] = "idle"] /\ copy' = [copy EXCEPT ![u] = NoOne]
  /\ late' = (late \/ (room'.stage # room.stage /\ shaking[viewer] # "idle" /\ u # viewer))
  /\ UNCHANGED <<viewer, up, outgoing, browser, misled, calls>>

\* transitionToContract hands back the room it has changed, and nothing
\* when there was nothing to change; room:state, member:joined.
Announce(u) ==
  LET updated == IF room.stage = "lobby" THEN [room EXCEPT !.stage = "contract"] ELSE room
  IN /\ shaking[u] = "joined"
     /\ room' = updated
     /\ IF u # viewer THEN Emit(<<"joined", u, copy[u].members[u]>>) /\ UNCHANGED misled
        ELSE /\ incoming' = IF u \notin up THEN incoming ELSE Append(incoming,
                   <<"state", IF room.stage = "lobby" THEN updated ELSE copy[u]>>)
             /\ misled' = IF room.stage = "lobby"
                          THEN {v \in misled : v # u /\ shaking[v] # "idle"} ELSE misled
     /\ late' = (late \/ (room.stage = "lobby" /\ shaking[viewer] # "idle" /\ u # viewer))
     /\ shaking' = [shaking EXCEPT ![u] = "idle"] /\ copy' = [copy EXCEPT ![u] = NoOne]
     /\ UNCHANGED <<viewer, up, outgoing, browser, calls>>

\* emitSessionStartedIfTimer follows for a member of a running session: it
\* repeats the phase that room:state has brought.

(* RoomGateway.handleDisconnect.  The page keeps its store and connects   *)
(* again; what was under way to it is lost.                               *)
Disconnect(u) ==
  /\ u \in up /\ shaking[u] = "idle"
  /\ Call
  /\ up' = up \ {u}
  /\ IF u = viewer THEN incoming' = <<>> ELSE Emit(<<"left", u>>)
  /\ UNCHANGED <<viewer, room, shakes, outgoing, browser, history>>

-----------------------------------------------------------------------------
(* The handlers of RoomGateway, RoomService and TimerService *)

\* joinRoom; whoever joins again starts with a fresh entry, and no event
\* says so.
Join(u) ==
  /\ room.stage \in Open /\ Call
  /\ u = viewer => route = "join"
  /\ room' = Put(u, [signed |-> NoOne, can |-> u = Host])
  /\ Mislead({u}, IF InRoom(u) \/ u \in up THEN {u} ELSE {})
  /\ route' = IF u = viewer THEN "room" ELSE route
  /\ UNCHANGED <<viewer, shakes, network, store, late>>

\* leaveRoom of a member.
Leave(u) ==
  /\ InRoom(u) /\ u # Host /\ room.stage \in Open /\ Call
  /\ room' = Put(u, NoOne) /\ Mislead({u}, {})
  /\ up' = up \ {u}
  /\ IF u = viewer
     THEN route' = "home" /\ store' = NoStore /\ incoming' = <<>> /\ outgoing' = NoOne
     ELSE Emit(<<"left", u>>) /\ UNCHANGED <<browser, outgoing>>
  /\ UNCHANGED <<viewer, shakes, late>>

\* leaveRoom of the host, handleRoomCleanup.
Close ==
  /\ room.stage \in Open \cup {"timer"} /\ Call
  /\ room' = [stage |-> "closed", members |-> [u \in Users |-> NoOne]]
  /\ Emit(<<"closed">>) /\ up' = {}
  /\ Mislead(Users, {})
  /\ late' = TRUE
  /\ UNCHANGED <<viewer, shakes, outgoing, browser>>

\* Nothing comes of a call that is refused.
Refuse == UNCHANGED <<viewer, room, shakes, up, incoming, browser, history>>

\* handleSign; all of the room's phases but the first two refuse.
Sign(u, b) ==
  IF ~InRoom(u) \/ room.stage \notin Open THEN Refuse
  ELSE Change({u}, {}, [room EXCEPT !.members[u].signed = b], <<"signed", u, b>>)

\* handleContractEdited, resetAllSigns.
Edited ==
  IF room.stage \notin Open \/ ~\E u \in Users : InRoom(u) /\ Signs(room.members[u]) THEN Refuse
  ELSE Change({u \in Users : InRoom(u)}, {},
            [room EXCEPT !.members = [u \in Users |->
               IF InRoom(u) THEN [@[u] EXCEPT !.signed = FALSE] ELSE NoOne]],
            <<"reset">>)

\* handleEditMember, setMemberEdit.  Of a member who is disconnected the page
\* has dropped the entry: the event brings back one with nothing else in it.
EditMember(u, b) ==
  IF ~InRoom(u) THEN Refuse
  ELSE Change({u}, {u} \ up, [room EXCEPT !.members[u].can = b], <<"edit", u, b>>)

\* handleEditAll, setAllEdit: everybody but the host.
EditAll(b) ==
  IF room.stage = "closed" THEN Refuse
  ELSE Change({u \in Users : InRoom(u)}, {},
            [room EXCEPT !.members = [u \in Users |->
               IF InRoom(u) /\ u # Host THEN [@[u] EXCEPT !.can = b] ELSE @[u]]],
            <<"edit_all", b>>)

\* handleKick: the room hears of it only if the target has a socket in it.
Kick(u) ==
  /\ u # Host
  /\ room' = Put(u, NoOne)
  /\ Mislead({u}, IF u \in up THEN {} ELSE {u})
  /\ up' = up \ {u}
  /\ CASE u \notin up -> UNCHANGED incoming
       [] u = viewer  -> Emit(<<"kicked">>)
       [] OTHER       -> Emit(<<"out", u>>)
  /\ UNCHANGED <<viewer, shakes, browser, late>>

\* startTimer, and endSession once the session is over.
Begin ==
  /\ room.stage = "contract" /\ Call
  /\ \A u \in Users : InRoom(u) => Signs(room.members[u])
  /\ room' = [room EXCEPT !.stage = "timer"]
  /\ Emit(<<"started">>)
  /\ late' = (late \/ shaking[viewer] # "idle")
  /\ UNCHANGED <<viewer, shakes, up, outgoing, browser, misled>>

Finish ==
  /\ room.stage = "timer" /\ Call
  /\ room' = [room EXCEPT !.stage = "result"]
  /\ Emit(<<"ended">>)
  /\ late' = (late \/ shaking[viewer] # "idle")
  /\ UNCHANGED <<viewer, shakes, up, outgoing, browser, misled>>

\* What the other members' pages send.
FromOthers ==
  /\ Call
  /\ \/ \E u \in up \ {viewer} : \/ \E b \in BOOLEAN : Sign(u, b)
                                 \/ InRoom(u) /\ room.members[u].can /\ Edited
     \/ /\ Host \in up \ {viewer}
        /\ \/ \E u \in Users, b \in BOOLEAN : EditMember(u, b)
           \/ \E b \in BOOLEAN : EditAll(b)
           \/ \E u \in Users : Kick(u)
  /\ UNCHANGED outgoing

-----------------------------------------------------------------------------
(* The page *)

Listed    == {u \in Users : store.members[u] # NoOne}
Present   == viewer \in up /\ route = "room" /\ outgoing = NoOne
\* EditPermissionToggle: no listed member is without the permission.
AllMayEdit == \A u \in Listed \ {Host} : store.members[u].can

Send(m) == /\ outgoing' = m /\ Call
           /\ UNCHANGED <<viewer, room, shakes, up, incoming, browser, history>>

\* MemberSignList.handleSignToggle: the opposite of what the page shows.
SignToggle ==
  Present /\ Send(<<"sign", viewer, ~(viewer \in Listed /\ Signs(store.members[viewer]))>>)

\* The host's switch and menu beside every other member, and the switch
\* for all of them.
Manage ==
  /\ Present /\ viewer = Host /\ store.phase # NoOne
  /\ \/ \E u \in Listed \ {viewer} : \/ Send(<<"edit", u, ~store.members[u].can>>)
                                     \/ Send(<<"kick", u>>)
     \/ Send(<<"edit_all", ~AllMayEdit>>)

\* The server gets the message ...
Serve ==
  /\ outgoing # NoOne /\ viewer \in up
  /\ CASE outgoing[1] = "sign"     -> Sign(outgoing[2], outgoing[3])
       [] outgoing[1] = "edit"     -> EditMember(outgoing[2], outgoing[3])
       [] outgoing[1] = "edit_all" -> EditAll(outgoing[2])
       [] outgoing[1] = "kick"     -> Kick(outgoing[2])
  /\ outgoing' = NoOne /\ UNCHANGED calls

\* ... unless the connection is gone, or a new one not yet in the room.
SendLost ==
  /\ outgoing # NoOne /\ viewer \notin up
  /\ outgoing' = NoOne
  /\ UNCHANGED <<viewer, room, shakes, up, incoming, browser, history, calls>>

\* useRoomStore.upsertMember: the fields that are given, over those it has.
Upsert(u, signed, can) ==
  LET old == store.members[u]
      Merged(new, had) == IF new = NoOne THEN had ELSE new
  IN [store EXCEPT !.members[u] =
        IF old = NoOne THEN [signed |-> signed, can |-> Merged(can, FALSE)]
        ELSE [signed |-> Merged(signed, old.signed), can |-> Merged(can, old.can)]]

\* edit:all-updated
EditedAll(b) ==
  [store EXCEPT !.members = [u \in Users |->
     IF u \in Listed \ {Host} THEN [@[u] EXCEPT !.can = b] ELSE @[u]]]

\* What an event makes of the store.
Applied(e) ==
  CASE e[1] = "state"    -> [phase |-> e[2].stage, members |-> e[2].members]
    [] e[1] = "joined"   -> IF e[3] = NoOne THEN Upsert(e[2], NoOne, NoOne)
                            ELSE Upsert(e[2], e[3].signed, e[3].can)
    [] e[1] \in {"left", "out"} -> [store EXCEPT !.members[e[2]] = NoOne]
    [] e[1] = "signed"   -> Upsert(e[2], e[3], NoOne)
    [] e[1] = "reset"    -> [store EXCEPT !.members = [u \in Users |->
                              IF u \in Listed THEN [@[u] EXCEPT !.signed = FALSE] ELSE NoOne]]
    [] e[1] = "edit"     -> Upsert(e[2], NoOne, e[3])
    [] e[1] = "edit_all" -> EditedAll(e[2])
    [] e[1] = "started"  -> [store EXCEPT !.phase = "timer"]
    [] e[1] = "ended"    -> [store EXCEPT !.phase = "result"]

\* The listeners of SocketContext, in the order of the events; the last two
\* kinds make the page leave the room and its provider unmount.
Receive ==
  /\ incoming # <<>> /\ route = "room"
  /\ IF Head(incoming)[1] \in {"closed", "kicked"}
     THEN /\ route' = "home" /\ store' = NoStore
          /\ incoming' = <<>> /\ outgoing' = NoOne /\ up' = up \ {viewer}
     ELSE /\ store' = Applied(Head(incoming)) /\ incoming' = Tail(incoming)
          /\ UNCHANGED <<route, up, outgoing>>
  /\ UNCHANGED <<viewer, room, shakes, history, calls>>

Next ==
  \/ \E u \in Users : \/ Connect(u) \/ ConnectMember(u) \/ ConnectJoin(u) \/ Announce(u)
                      \/ Disconnect(u) \/ Leave(u)
                      \/ Join(u) /\ UNCHANGED outgoing
  \/ FromOthers \/ Close \/ Begin \/ Finish
  \/ SignToggle \/ Manage \/ Serve \/ SendLost \/ Receive

Spec == Init /\ [][Next]_page

-----------------------------------------------------------------------------
\* The page has its connection and has seen every event there is.
Settled == /\ viewer \in up /\ shaking[viewer] = "idle"
           /\ incoming = <<>> /\ route = "room"

\* A settled page shows, of everybody whom no handshake hides, the
\* signature and the permission the server has, lists nobody who is out of
\* the room, and leaves nobody out who is connected (SocketContext,
\* useRoomStore, RoomGateway).  It is at the phase the room is in, unless the
\* phase changed while it was connecting: nothing tells it again (ContractForm
\* and Timer route by this phase).
PageAgrees ==
  Settled =>
    /\ \A u \in Users \ misled :
         LET mine == store.members[u]  theirs == room.members[u] IN
         /\ mine # NoOne => /\ theirs # NoOne
                            /\ Signs(mine) = Signs(theirs) /\ mine.can = theirs.can
         /\ theirs # NoOne /\ u \in up /\ shaking[u] = "idle" => mine # NoOne
    /\ ~late => store.phase = room.stage
=============================================================================
