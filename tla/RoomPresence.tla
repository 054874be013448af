---------------------------- MODULE RoomPresence ----------------------------
(***************************************************************************)
(* Who is in a room before and at the start of its session: the member     *)
(* rows in PostgreSQL, the bans and the room state in Redis (members,      *)
(* their socket and signature), the Socket.IO connections and the          *)
(* 10-second cleanup timer of RoomGateway.                                 *)
(*                                                                         *)
(* A task is one run of a handler; pc names the await it stands at.  Every *)
(* handler that changes the room state reads all of it, changes its part   *)
(* and writes all of it back: seen is the copy it holds in between.        *)
(*                                                                         *)
(* Handlers of every kind follow each other in any order.  Which two kinds *)
(* may be in flight together in one behaviour is mix, chosen at the start: *)
(* a property then names exactly the overlaps under which it is lost.      *)
(***************************************************************************)
EXTENDS Integers, FiniteSets

CONSTANTS
  Users,      \* everyone who may join, the host included
  Host,       \* room.hostId
  Accounts,   \* the users with an account; the others hold a guest token
  Sockets,    \* bound: the connections each user can hold, <<user, n>>
  Tasks,      \* bound: slots for handlers in flight
  Trials,     \* what a behaviour may be: <<kinds that may overlap, room size,
              \* and (bound) calls of a kick that may be rejected>>
  KickRetries,\* KICK_MAX_RETRIES
  NoOne       \* null

Kinds == {"join", "connect", "drop", "cleanup", "leave", "kick", "sign",
          "edited", "permit", "start", "force"}

ASSUME PresenceAssumption ==
  /\ Host \in Accounts /\ Accounts \subseteq Users /\ IsFiniteSet(Users)
  /\ Sockets \subseteq Users \X Nat /\ IsFiniteSet(Sockets)
  /\ Trials \subseteq (SUBSET Kinds) \X Nat \X Nat
  /\ KickRetries \in Nat
  /\ NoOne \notin Users \cup Sockets

Phases  == {"lobby", "contract", "timer", "closed"}
Open    == {"lobby", "contract"}

\* A member's entry in the room state: the socketId, set exactly while
\* connected is, and isSigned.
Entry   == [sock : Sockets \cup {NoOne}, signed : BOOLEAN]
Fresh   == [sock |-> NoOne, signed |-> FALSE]
States  == [phase : Phases, members : [Users -> Entry \cup {NoOne}]]

ASSUME NullAssumption == NoOne \notin Entry \cup States

PCs == {"idle", "join_ban", "join_member", "join_row", "join_read", "join_save",
        "conn_check", "conn_member", "conn_read", "conn_save",
        "contract_read", "contract_save", "contract_db",
        "drop_check", "drop_read", "drop_save", "drop_count",
        "cleanup_active", "cleanup_count",
        "delete", "leave_row", "leave_read", "leave_save",
        "kick_host", "kick_row", "kick_read", "kick_save", "kick_ban", "kick_socket",
        "entry_save", "start_sign", "start_db", "start_read", "start_save",
        "force_sign", "force_next", "force_check"}

TaskStates == [kind : Kinds \cup {"none"}, pc : PCs, who : Users \cup {NoOne},
               sock : Sockets \cup {NoOne}, seen : States \cup {NoOne},
               flag : BOOLEAN, tries : Nat,
               todo : (SUBSET (Users \X (Sockets \cup {NoOne}))) \cup (SUBSET {"state", "phase"})]

Idle == [kind |-> "none", pc |-> "idle", who |-> NoOne, sock |-> NoOne,
         seen |-> NoOne, flag |-> FALSE, tries |-> 0, todo |-> {}]

VARIABLES
  phase,    \* DB room.phase
  rows,     \* DB room_member: the users with a row
  bans,     \* Redis room:ban keys
  cache,    \* Redis room:state, or NoOne
  socks,    \* every connection: closed, opening (handshake), joined
  dying,    \* connections with a disconnect scheduled in 100 ms
  timer,    \* pending cleanup timers: the one cleanupTimers holds, or a loose one
  task,     \* the handler run in every slot
  faults,   \* calls that may still be rejected
  mix,      \* the kinds of handler that may overlap in this behaviour
  capacity, \* the members the room holds; ten in the code
  agreed,   \* history: who signed the contract as it is now, and is in
  twice,    \* history: who joined again while connected, or was
            \* kicked with two connections open
  visited   \* history: somebody has been connected

stores  == <<phase, rows, bans, cache>>
network == <<socks, dying, timer>>
history == <<agreed, twice, visited>>
trial   == <<mix, capacity>>
vars    == <<stores, network, task, faults, trial, history>>

TypeOK ==
  /\ phase \in Phases
  /\ rows \subseteq Users /\ bans \subseteq Users
  /\ cache \in States \cup {NoOne}
  /\ socks \in [Sockets -> {"closed", "opening", "joined"}]
  /\ dying \subseteq Sockets /\ timer \subseteq {"held", "loose"}
  /\ task \in [Tasks -> TaskStates]
  /\ faults \in Nat /\ mix \in SUBSET Kinds /\ capacity \in Nat
  /\ agreed \subseteq Users /\ twice \subseteq Users /\ visited \in BOOLEAN

\* RoomService.create: a lobby without a member.
Init ==
  /\ phase = "lobby" /\ rows = {} /\ bans = {}
  /\ cache = [phase |-> "lobby", members |-> [u \in Users |-> NoOne]]
  /\ socks = [s \in Sockets |-> "closed"] /\ dying = {} /\ timer = {}
  /\ task = [t \in Tasks |-> Idle]
  /\ \E r \in Trials : mix = r[1] /\ capacity = r[2] /\ faults = r[3]
  /\ agreed = {} /\ twice = {} /\ visited = FALSE

-----------------------------------------------------------------------------
(* Tasks, the room state *)

In(u)        == cache # NoOne /\ cache.members[u] # NoOne
Joined(u)    == {s \in Sockets : s[1] = u /\ socks[s] = "joined"}
Online(u)    == Joined(u) # {}
Connected(c) == IF c = NoOne THEN {}
                ELSE {u \in Users : c.members[u] # NoOne /\ c.members[u].sock # NoOne}
Unsigned(c)  == IF c = NoOne THEN {}
                ELSE {u \in Users : c.members[u] # NoOne /\ ~c.members[u].signed}

\* A handler starts in slot t.
New(kind, pc, who) == [Idle EXCEPT !.kind = kind, !.pc = pc, !.who = who]
MayStart(t, kind) ==
  /\ task[t].kind = "none"
  /\ \A o \in Tasks : task[o].kind # "none" => {kind, task[o].kind} = mix
Issue(t, new) == MayStart(t, new.kind) /\ task' = [task EXCEPT ![t] = new]

At(t, pc)    == task[t].pc = pc
Goto(t, pc)  == task' = [task EXCEPT ![t].pc = pc]
Return(t)    == task' = [task EXCEPT ![t] = Idle]

\* RoomRepository.getState on the way to a write; the write is skipped when
\* there is no state or ok does not hold of it.
Read(t, from, save, skip, ok(_)) ==
  /\ At(t, from)
  /\ IF cache # NoOne /\ ok(cache)
     THEN task' = [task EXCEPT ![t].pc = save, ![t].seen = cache]
     ELSE IF skip = "return" THEN Return(t) ELSE Goto(t, skip)
  /\ UNCHANGED <<stores, network, faults, trial, history>>

\* RoomRepository.saveState: all of the state that was read, changed to c.
Save(t, from, to, c) ==
  /\ At(t, from)
  /\ cache' = c
  /\ IF to = "return" THEN Return(t)
     ELSE task' = [task EXCEPT ![t].pc = to, ![t].seen = NoOne]
  /\ UNCHANGED <<phase, rows, bans, network, faults, trial>>

Anyway(c) == TRUE

-----------------------------------------------------------------------------
(* RoomService.join *)

\* Mutant: a full room admits one more.
JoinFull(t, u) ==
  /\ phase # "closed"
  /\ ~(u \in Accounts /\ u \in rows /\ phase = "timer")
  /\ Issue(t, [New("join", "join_ban", u) EXCEPT
                !.flag = phase # "timer" /\ Cardinality(rows) <= capacity])
  /\ UNCHANGED <<stores, network, faults, trial, history>>

\* findMemberInTimerRoom and findByCode; flag: a newcomer may still enter.
Join(t, u) ==
  /\ phase # "closed"
  /\ ~(u \in Accounts /\ u \in rows /\ phase = "timer")
  /\ Issue(t, [New("join", "join_ban", u) EXCEPT
                !.flag = phase # "timer" /\ Cardinality(rows) < capacity])
  /\ UNCHANGED <<stores, network, faults, trial, history>>

\* Mutant: the ban is not asked for.
JoinBanIgnored(t) ==
  /\ At(t, "join_ban")
  /\ Goto(t, "join_member")
  /\ UNCHANGED <<stores, network, faults, trial, history>>

\* isBanned
JoinBan(t) ==
  /\ At(t, "join_ban")
  /\ IF task[t].who \in bans THEN Return(t) ELSE Goto(t, "join_member")
  /\ UNCHANGED <<stores, network, faults, trial, history>>

\* findMember; from here on flag says that the member is returning.
JoinMember(t) ==
  /\ At(t, "join_member")
  /\ IF task[t].who \in rows \/ task[t].flag
     THEN task' = [task EXCEPT ![t].pc = "join_row", ![t].flag = task[t].who \in rows]
     ELSE Return(t)
  /\ UNCHANGED <<stores, network, faults, trial, history>>

\* upsertUserMember, or createGuestMember for a new guest.
JoinRow(t) ==
  /\ At(t, "join_row")
  /\ Goto(t, "join_read")
  /\ rows' = IF task[t].who \in Accounts \/ ~task[t].flag THEN rows \cup {task[t].who} ELSE rows
  /\ UNCHANGED <<phase, bans, cache, network, faults, trial, history>>

JoinRead(t) == Read(t, "join_read", "join_save", "return", Anyway)

\* handleMemberUpsert: the entry starts over, not connected and not signed.
JoinSave(t) ==
  LET u == task[t].who IN
  /\ Save(t, "join_save", "return", [task[t].seen EXCEPT !.members[u] = Fresh])
  /\ agreed' = IF phase = "timer" THEN agreed ELSE agreed \ {u}
  /\ twice' = IF Online(u) THEN twice \cup {u} ELSE twice
  /\ UNCHANGED visited

-----------------------------------------------------------------------------
(* RoomGateway.handleConnection *)

Connect(t, s) ==
  /\ socks[s] = "closed" /\ s \notin dying
  /\ \A o \in Tasks : task[o].sock # s
  /\ ~(In(s[1]) /\ cache.members[s[1]].sock = s)
  /\ socks' = [socks EXCEPT ![s] = "opening"]
  /\ Issue(t, [New("connect", "conn_check", s[1]) EXCEPT !.sock = s])
  /\ UNCHANGED <<stores, dying, timer, faults, trial, history>>

\* getRoomState: refused without a state, in a running room without an
\* entry, and once the room is over.
ConnCheck(t) ==
  LET u == task[t].who IN
  /\ At(t, "conn_check")
  /\ IF cache = NoOne \/ (cache # NoOne /\ (cache.phase = "closed" \/ (cache.phase = "timer" /\ ~In(u))))
     THEN Return(t) /\ socks' = [socks EXCEPT ![task[t].sock] = "closed"]
     ELSE /\ task' = [task EXCEPT ![t].pc = "conn_member", ![t].seen = cache]
          /\ UNCHANGED socks
  /\ UNCHANGED <<stores, dying, timer, faults, trial, history>>

\* isMember; then, without an await: the socket the state named is told to
\* go, the cleanup timer is cleared, the socket joins the room.  A socket
\* that went meanwhile joins nothing, and the handler carries on.
ConnMember(t) ==
  LET u == task[t].who s == task[t].sock old == task[t].seen.members[u] IN
  /\ At(t, "conn_member")
  /\ IF u \notin rows
     THEN /\ Return(t) /\ socks' = [socks EXCEPT ![s] = "closed"]
          /\ UNCHANGED <<dying, timer>>
     ELSE /\ task' = [task EXCEPT ![t].pc = "conn_read", ![t].seen = NoOne]
          /\ socks' = IF socks[s] = "opening" THEN [socks EXCEPT ![s] = "joined"] ELSE socks
          /\ dying' = IF old = NoOne THEN dying
                      ELSE dying \cup {d \in {old.sock} : d # NoOne /\ socks[d] = "joined"}
          /\ timer' = timer \ {"held"}
  /\ UNCHANGED <<stores, faults, trial, history>>

HasEntry(t, c) == c.members[task[t].who] # NoOne

\* setConnected(true)
ConnRead(t) == Read(t, "conn_read", "conn_save", "contract_read", LAMBDA c : HasEntry(t, c))
\* Mutant: the user's id is stored in the place of the socket's.
ConnSaveUser(t) ==
  /\ Save(t, "conn_save", "contract_read",
          [task[t].seen EXCEPT !.members[task[t].who].sock = task[t].who])
  /\ visited' = TRUE
  /\ UNCHANGED <<agreed, twice>>

ConnSave(t) ==
  /\ Save(t, "conn_save", "contract_read",
          [task[t].seen EXCEPT !.members[task[t].who].sock = task[t].sock])
  /\ visited' = TRUE
  /\ UNCHANGED <<agreed, twice>>

\* transitionToContract
ContractRead(t) == Read(t, "contract_read", "contract_save", "return", LAMBDA c : c.phase = "lobby")
ContractSave(t) ==
  /\ Save(t, "contract_save", "contract_db", [task[t].seen EXCEPT !.phase = "contract"])
  /\ UNCHANGED history
ContractDB(t) ==
  /\ At(t, "contract_db")
  /\ phase' = "contract"
  /\ Return(t)
  /\ UNCHANGED <<rows, bans, cache, network, faults, trial, history>>

-----------------------------------------------------------------------------
(* RoomGateway.handleDisconnect *)

\* A connection ends: the browser closes it, or its disconnect is due.
Drop(t, s) ==
  /\ socks[s] = "joined"
  /\ socks' = [socks EXCEPT ![s] = "closed"] /\ dying' = dying \ {s}
  /\ Issue(t, [New("drop", "drop_check", s[1]) EXCEPT !.sock = s])
  /\ UNCHANGED <<stores, timer, faults, trial, history>>

\* The connection ends during its own handshake: client.data.roomCode is not
\* set, so handleDisconnect returns at once.
DropEarly(s) ==
  /\ mix = {"connect", "drop"}
  /\ socks[s] = "opening"
  /\ socks' = [socks EXCEPT ![s] = "closed"]
  /\ UNCHANGED <<stores, dying, timer, task, faults, trial, history>>

\* Mutant: the state is not asked whether this was the member's socket.
DropCheckAny(t) == Read(t, "drop_check", "drop_read", "return", LAMBDA c : HasEntry(t, c))

DropCheck(t) ==
  Read(t, "drop_check", "drop_read", "return",
       LAMBDA c : HasEntry(t, c) /\ c.members[task[t].who].sock = task[t].sock)

\* setConnected(false), on a state read afresh
DropRead(t) == Read(t, "drop_read", "drop_save", "drop_count", LAMBDA c : HasEntry(t, c))
DropSave(t) ==
  /\ Save(t, "drop_save", "drop_count", [task[t].seen EXCEPT !.members[task[t].who].sock = NoOne])
  /\ UNCHANGED history

\* countConnectedMembers: nobody left starts the ten seconds anew, somebody
\* stops them.
DropCount(t) ==
  /\ At(t, "drop_count")
  /\ Return(t)
  /\ timer' = IF Connected(cache) = {} THEN timer \cup {"held"} ELSE timer \ {"held"}
  /\ UNCHANGED <<stores, socks, dying, faults, trial, history>>

-----------------------------------------------------------------------------
(* RoomGateway.handleRoomCleanup, RoomService.deleteRoom *)

\* The timer fires.  Its entry stays in the map until the handler is done.
Cleanup(t) ==
  \E k \in timer :
    /\ timer' = timer \ {k}
    /\ Issue(t, New("cleanup", "cleanup_active", NoOne))
    /\ UNCHANGED <<stores, socks, dying, faults, trial, history>>

\* finally: cleanupTimers.delete forgets whatever timer is there by now.
CleanupDone(t) ==
  /\ Return(t)
  /\ timer' = IF "held" \in timer THEN {"loose"} ELSE timer

\* getRoomState and countActiveMembersInRoom: a session with members stays.
CleanupActive(t) ==
  /\ At(t, "cleanup_active")
  /\ IF cache # NoOne /\ cache.phase = "timer" /\ rows # {} THEN CleanupDone(t)
     ELSE Goto(t, "cleanup_count") /\ UNCHANGED timer
  /\ UNCHANGED <<stores, socks, dying, faults, trial, history>>

CleanupCount(t) ==
  /\ At(t, "cleanup_count")
  /\ IF Connected(cache) # {} THEN CleanupDone(t)
     ELSE /\ task' = [task EXCEPT ![t].pc = "delete", ![t].todo = {"state", "phase"}]
          /\ UNCHANGED timer
  /\ UNCHANGED <<stores, socks, dying, faults, trial, history>>

\* deleteRoom: both writes at once, in either order; then the sockets go,
\* at once after leaveRoom and 100 ms later after a cleanup.
Delete(t) ==
  /\ At(t, "delete")
  /\ \/ \E w \in task[t].todo :
          /\ task' = [task EXCEPT ![t].todo = @ \ {w}]
          /\ IF w = "state" THEN cache' = NoOne /\ UNCHANGED phase
             ELSE phase' = "closed" /\ UNCHANGED cache
          /\ UNCHANGED <<dying, timer>>
     \/ /\ task[t].todo = {}
        /\ IF task[t].kind = "cleanup" THEN CleanupDone(t) ELSE Return(t) /\ UNCHANGED timer
        /\ dying' = dying \cup {s \in Sockets : socks[s] = "joined"}
        /\ UNCHANGED <<phase, cache>>
  /\ UNCHANGED <<rows, bans, socks, faults, trial, history>>

-----------------------------------------------------------------------------
(* RoomService.leaveRoom *)

\* findByCode; the host closes the room.
LeaveHost(t) ==
  /\ phase \in Open
  /\ Issue(t, [New("leave", "delete", Host) EXCEPT !.todo = {"state", "phase"}])
  /\ UNCHANGED <<stores, network, faults, trial, history>>

\* A member needs a row.
Leave(t, u) ==
  /\ phase \in Open /\ u # Host /\ u \in rows
  /\ Issue(t, New("leave", "leave_row", u))
  /\ UNCHANGED <<stores, network, faults, trial, history>>

\* deleteMemberById
LeaveRow(t) ==
  /\ At(t, "leave_row")
  /\ Goto(t, "leave_read")
  /\ rows' = rows \ {task[t].who}
  /\ UNCHANGED <<phase, bans, cache, network, faults, trial, history>>

LeaveRead(t) == Read(t, "leave_read", "leave_save", "return", Anyway)
LeaveSave(t) ==
  /\ Save(t, "leave_save", "return", [task[t].seen EXCEPT !.members[task[t].who] = NoOne])
  /\ agreed' = agreed \ {task[t].who}
  /\ UNCHANGED <<twice, visited>>

-----------------------------------------------------------------------------
(* RoomGateway.handleKick, RoomService.kickMember, TimerService.kickWithRetry *)

Kick(t, u) ==
  /\ Online(Host) /\ u # Host
  /\ Issue(t, New("kick", "kick_host", u))
  /\ UNCHANGED <<stores, network, faults, trial, history>>

\* getRoomState: only the host's entry may kick.
KickHost(t) ==
  /\ At(t, "kick_host")
  /\ IF In(Host) THEN Goto(t, "kick_row") ELSE Return(t)
  /\ UNCHANGED <<stores, network, faults, trial, history>>

\* deleteMember
KickRow(t) ==
  /\ At(t, "kick_row")
  /\ Goto(t, "kick_read")
  /\ rows' = rows \ {task[t].who}
  /\ UNCHANGED <<phase, bans, cache, network, faults, trial, history>>

KickRead(t) == Read(t, "kick_read", "kick_save", "kick_ban", Anyway)
KickSave(t) ==
  /\ Save(t, "kick_save", "kick_ban", [task[t].seen EXCEPT !.members[task[t].who] = NoOne])
  /\ agreed' = agreed \ {task[t].who}
  /\ UNCHANGED <<twice, visited>>

KickBan(t) ==
  /\ At(t, "kick_ban")
  /\ Goto(t, "kick_socket")
  /\ bans' = bans \cup {task[t].who}
  /\ UNCHANGED <<phase, rows, cache, network, faults, trial, history>>

\* A rejected call ends a kick where it stands.  forceStartTimer repeats it,
\* and when the attempts are used up goes on to the next member.
KickFault(t) ==
  /\ task[t].pc \in {"kick_row", "kick_read", "kick_save", "kick_ban"}
  /\ faults > 0 /\ faults' = faults - 1
  /\ IF task[t].kind = "kick" THEN Return(t)
     ELSE IF task[t].tries < KickRetries
     THEN task' = [task EXCEPT ![t].pc = "kick_row", ![t].seen = NoOne, ![t].tries = @ + 1]
     ELSE task' = [task EXCEPT ![t].pc = "force_next", ![t].seen = NoOne, ![t].flag = TRUE]
  /\ UNCHANGED <<stores, network, trial, history>>

\* One socket of the member is told and disconnected 100 ms later: the first
\* one fetchSockets lists, which forceStartTimer asked before its first kick.
KickSocket(t) ==
  LET found == Joined(task[t].who) IN
  /\ At(t, "kick_socket")
  /\ IF task[t].kind = "force"
     THEN dying' = dying \cup {s \in {task[t].sock} : s # NoOne /\ socks[s] = "joined"}
     ELSE \/ found = {} /\ UNCHANGED dying
          \/ \E s \in found : dying' = dying \cup {s}
  /\ IF task[t].kind = "force" THEN Goto(t, "force_next") ELSE Return(t)
  /\ twice' = IF Cardinality(found) > 1 THEN twice \cup {task[t].who} ELSE twice
  /\ UNCHANGED <<stores, socks, timer, faults, trial, agreed, visited>>

-----------------------------------------------------------------------------
(* handleSign, handleContractEdited, handleEditMember, handleEditAll *)

Signable(c) == c.phase \in Open

\* setSigned reads the state and changes the member's signature.
Sign(t, u, b) ==
  /\ Online(u) /\ In(u) /\ Signable(cache)
  /\ Issue(t, [New("sign", "entry_save", u) EXCEPT
               !.seen = [cache EXCEPT !.members[u].signed = b]])
  /\ agreed' = IF b THEN agreed \cup {u} ELSE agreed \ {u}
  /\ UNCHANGED <<stores, network, faults, trial, twice, visited>>

\* resetAllSigns: the contract has changed under every signature.
Edited(t, u) ==
  /\ Online(u) /\ cache # NoOne /\ Signable(cache)
  /\ IF Unsigned(cache) # {v \in Users : In(v)}
     THEN Issue(t, [New("edited", "entry_save", u) EXCEPT !.seen =
            [cache EXCEPT !.members = [v \in Users |->
               IF In(v) THEN [@[v] EXCEPT !.signed = FALSE] ELSE @[v]]]])
     ELSE MayStart(t, "edited") /\ UNCHANGED task
  /\ agreed' = {}
  /\ UNCHANGED <<stores, network, faults, trial, twice, visited>>

\* setMemberEdit, setAllEdit: canEdit is read by the pages alone and is not
\* kept here; the state is written back with everything else as it was read.
Permit(t) ==
  /\ Online(Host) /\ cache # NoOne
  /\ Issue(t, [New("permit", "entry_save", Host) EXCEPT !.seen = cache])
  /\ UNCHANGED <<stores, network, faults, trial, history>>

EntrySave(t) == Save(t, "entry_save", "return", task[t].seen) /\ UNCHANGED history

-----------------------------------------------------------------------------
(* TimerService.startTimer, forceStartTimer, beginSession *)

\* verifyHost and ensureContractPhase
Start(t, kind) ==
  /\ phase = "contract"
  /\ Issue(t, New(kind, IF kind = "start" THEN "start_sign" ELSE "force_sign", Host))
  /\ UNCHANGED <<stores, network, faults, trial, history>>

HostUnsigned(c) == Host \in Unsigned(c)

\* Mutant: only the host's signature is asked for.
StartHostSigned(t) ==
  /\ At(t, "start_sign")
  /\ IF cache = NoOne \/ HostUnsigned(cache) THEN Return(t) ELSE Goto(t, "start_db")
  /\ UNCHANGED <<stores, network, faults, trial, history>>

\* loadSignState: refused without a state and while anybody is unsigned.
StartSign(t) ==
  /\ At(t, "start_sign")
  /\ IF cache = NoOne \/ Unsigned(cache) # {} THEN Return(t) ELSE Goto(t, "start_db")
  /\ UNCHANGED <<stores, network, faults, trial, history>>

StartDB(t) ==
  /\ At(t, "start_db")
  /\ Goto(t, "start_read")
  /\ phase' = "timer"
  /\ UNCHANGED <<rows, bans, cache, network, faults, trial, history>>

\* updateRedisPhase; the jobs and the shared document are not this module's.
StartRead(t) == Read(t, "start_read", "start_save", "return", Anyway)
StartSave(t) ==
  /\ Save(t, "start_save", "return", [task[t].seen EXCEPT !.phase = "timer"])
  /\ UNCHANGED history

\* loadSignState and fetchSockets: who is to go, each with one of the
\* sockets that are in the room now.
ForceSign(t) ==
  /\ At(t, "force_sign")
  /\ IF cache = NoOne \/ HostUnsigned(cache) THEN Return(t)
     ELSE IF Unsigned(cache) = {} THEN Goto(t, "start_db")
     ELSE \E f \in [Unsigned(cache) -> Sockets \cup {NoOne}] :
            /\ \A u \in Unsigned(cache) :
                 IF Online(u) THEN f[u] # NoOne /\ f[u][1] = u /\ socks[f[u]] = "joined"
                 ELSE f[u] = NoOne
            /\ task' = [task EXCEPT ![t].pc = "force_next",
                          ![t].todo = {<<u, f[u]>> : u \in Unsigned(cache)}]
  /\ UNCHANGED <<stores, network, faults, trial, history>>

\* The next member; after the last one, an error when a kick failed.
ForceNext(t) ==
  /\ At(t, "force_next")
  /\ \/ \E k \in task[t].todo :
          task' = [task EXCEPT ![t].pc = "kick_row", ![t].todo = @ \ {k},
                               ![t].who = k[1], ![t].sock = k[2], ![t].tries = 0]
     \/ /\ task[t].todo = {}
        /\ IF task[t].flag THEN Return(t) ELSE Goto(t, "force_check")
  /\ UNCHANGED <<stores, network, faults, trial, history>>

\* The state is read afresh: everybody who is left has signed.
ForceCheck(t) ==
  /\ At(t, "force_check")
  /\ IF cache # NoOne /\ Unsigned(cache) # {} THEN Return(t) ELSE Goto(t, "start_db")
  /\ UNCHANGED <<stores, network, faults, trial, history>>

-----------------------------------------------------------------------------
Requests(t) ==
  \/ \E u \in Users : Join(t, u) \/ Leave(t, u) \/ Kick(t, u) \/ Edited(t, u)
  \/ \E u \in Users, b \in BOOLEAN : Sign(t, u, b)
  \/ \E s \in Sockets : Connect(t, s) \/ Drop(t, s)
  \/ Cleanup(t) \/ LeaveHost(t) \/ Permit(t) \/ \E k \in {"start", "force"} : Start(t, k)

Steps(t) ==
  \/ JoinBan(t) \/ JoinMember(t) \/ JoinRow(t) \/ JoinRead(t) \/ JoinSave(t)
  \/ ConnCheck(t) \/ ConnMember(t) \/ ConnRead(t) \/ ConnSave(t)
  \/ ContractRead(t) \/ ContractSave(t) \/ ContractDB(t)
  \/ DropCheck(t) \/ DropRead(t) \/ DropSave(t) \/ DropCount(t)
  \/ CleanupActive(t) \/ CleanupCount(t) \/ Delete(t)
  \/ LeaveRow(t) \/ LeaveRead(t) \/ LeaveSave(t)
  \/ KickHost(t) \/ KickRow(t) \/ KickRead(t) \/ KickSave(t) \/ KickBan(t)
  \/ KickFault(t) \/ KickSocket(t) \/ EntrySave(t)
  \/ StartSign(t) \/ StartDB(t) \/ StartRead(t) \/ StartSave(t)
  \/ ForceSign(t) \/ ForceNext(t) \/ ForceCheck(t)

Next == (\E t \in Tasks : Requests(t) \/ Steps(t)) \/ \E s \in Sockets : DropEarly(s)
Spec == Init /\ [][Next]_vars

-----------------------------------------------------------------------------
(* Properties *)

Quiet == \A t \in Tasks : task[t].kind = "none"

\* Overlaps that lose a signature's withdrawal or let it outlive an edit:
\* one handler changes who has signed while another still holds a copy of
\* the state, or has read it to start.
SignatureLost == {{a, b} : a \in {"join", "sign", "edited"}, b \in Kinds \ {"cleanup"}}
                   \ {{"edited"}}

\* Nobody is locked into a contract they have not signed as it now reads:
\* when a session starts, every member with a row has signed since the last
\* edit and since joining (startTimer, forceStartTimer).
OnlySigned ==
  [][phase = "contract" /\ phase' = "timer" /\ mix \notin SignatureLost
       => rows \subseteq agreed]_vars

\* Overlaps that lose the socket of a member who has just connected.
SocketLost == {{a, b} : a \in {"join", "connect"}, b \in Kinds \ {"start"}}

\* The cleanup never takes an open room from under a member who is connected
\* (handleRoomCleanup), unless they joined again while connected, which
\* erases their socket from the state.
CleanupSpares ==
  \A t \in Tasks :
    task[t].kind = "cleanup" /\ task[t].pc = "delete" /\ phase \in Open /\ mix \notin SocketLost =>
      \A u \in rows : Online(u) =>
        u \in twice \/ Joined(u) \subseteq dying

\* Overlaps that write a kicked member's entry back, or let them in before
\* the ban, which is the last of kickMember's writes.
KickUndone == {{a, b} : a \in {"kick", "force"}, b \in Kinds \ {"cleanup"}}

\* A banned member keeps nothing of the room once every handler is done: no
\* row, no entry and no connection (handleKick, forceStartTimer), unless
\* they had two connections open: a kick finds one of them.
KickedOut ==
  (\A t \in Tasks : task[t].kind = "none") /\ mix \notin KickUndone =>
    \A u \in bans : u \notin rows /\ ~In(u) /\ (u \in twice \/ Joined(u) \subseteq dying)

\* The room never has more members than it holds (RoomService.join), unless
\* two people join at once.
CapacityHeld == mix # {"join"} => Cardinality(rows) <= capacity

\* "When all members have left, the room is closed ten seconds later"
\* (handleDisconnect): once somebody was there and nobody is connected or
\* about to be, a timer runs.
EmptyRoomCloses ==
  (\A t \in Tasks : task[t].kind = "none") /\ (\A s \in Sockets : socks[s] = "closed")
    /\ visited /\ phase \in Open => timer # {}
=============================================================================
