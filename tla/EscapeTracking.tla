---------------------------- MODULE EscapeTracking ----------------------------
(***************************************************************************)
(* One member of a running session: the page that notices when its user    *)
(* looks away, the sockets it connects with, the member's entry in the     *)
(* cached room state, the heartbeat key in Redis, and the escape logs in   *)
(* PostgreSQL that the penalties are computed from.                        *)
(*                                                                         *)
(* A log is opened by an escape:start message, by a disconnection and by   *)
(* the expiry of the heartbeat key, and closed by an escape:end message,   *)
(* by a reconnection and by giving up.  Each of these is an asynchronous   *)
(* handler that finds the log, waits, and writes.  With one slot the       *)
(* member's handlers run one after the other; with two they overlap.       *)
(***************************************************************************)
EXTENDS Integers, Sequences, FiniteSets

CONSTANTS
  Sockets,     \* the connections the page makes, one after the other
  First,       \* the one it has when the session begins
  Slots,       \* handlers in flight at once
  LogIds,      \* bound: escape logs in use at once
  Guest,       \* the member is a guest, not a logged-in user
  Throttled,   \* the browser slows the timers of a page that is not in front
  Quick,       \* the user may look away again within 300 ms
  Background,  \* the page may reconnect while it is not in front
  MaxWire,     \* bound: messages on their way
  MaxCrashes,  \* bound: restarts of the server
  NoOne        \* null: no socket, no log

\* What is assumed of the constants.
EscapesAssumption ==
  /\ First \in Sockets /\ NoOne \notin Sockets \cup LogIds
  /\ {Guest, Throttled, Quick, Background} \subseteq BOOLEAN
  /\ MaxWire \in Nat /\ MaxCrashes \in Nat

Messages == {"escape:start", "escape:end"}

\* The member's part of the cached room state: the socket that is connected.
Entries == [sock : Sockets \cup {NoOne}, gaveUp : BOOLEAN]

\* past: the log's time runs on behind gaveUpAt.
Logs == [state : {"none", "open", "closed"}, past : BOOLEAN]
NoLog == [state |-> "none", past |-> FALSE]

PCs == {"idle", "connect_member", "connect_read", "connect_save",
        "gone_clear", "gone_read", "gone_copy", "gone_save",
        "start_room", "start_member", "start_find", "start_create",
        "end_member", "end_find", "end_update",
        "giveup_tx", "giveup_read", "giveup_save", "giveup_kick"}

Tasks == [pc : PCs, sock : Sockets \cup {NoOne}, copy : Entries,
          counted : BOOLEAN, log : LogIds \cup {NoOne}]

NoEntry  == [sock |-> NoOne, gaveUp |-> FALSE]
IdleTask == [pc |-> "idle", sock |-> NoOne, copy |-> NoEntry, counted |-> FALSE, log |-> NoOne]

VARIABLES
  over,       \* the session has ended (phase result, in the database and in Redis)
  gaveUp,     \* roomMember.gaveUpAt
  quitting,   \* giveUp has taken the time that becomes gaveUpAt
  focus,      \* the page's isFocus: a focus slot, not a break
  page,       \* in front, not in front, or closed
  escaping,   \* the page's isEscapingRef
  recent,     \* less than 300 ms since lastEscapeStartRef
  buffer,     \* messages the page emitted while it was not connected
  link,       \* the page's socket, or NoOne
  wire,       \* messages on their way over link
  conn,       \* what the server knows of each socket
  entry,      \* the member in room:state
  heartbeat,  \* the key heartbeat:{roomCode}:{identifier} exists
  logs,       \* escape_log
  task,       \* the handler run in every slot
  crashes

room   == <<over, gaveUp, quitting>>
client == <<focus, page, escaping, recent, buffer>>
net    == <<link, wire, conn>>
redis  == <<entry, heartbeat>>
vars   == <<room, client, net, redis, logs, task, crashes>>

TypeOK ==
  /\ over \in BOOLEAN /\ gaveUp \in BOOLEAN /\ quitting \in BOOLEAN
  /\ focus \in BOOLEAN /\ escaping \in BOOLEAN /\ recent \in BOOLEAN
  /\ page \in {"front", "away", "closed"}
  /\ buffer \in Seq(Messages) /\ wire \in Seq(Messages)
  /\ link \in Sockets \cup {NoOne}
  /\ conn \in [Sockets -> {"new", "up", "lost", "gone"}]
  /\ entry \in Entries /\ heartbeat \in BOOLEAN
  /\ logs \in [LogIds -> Logs]
  /\ task \in [Slots -> Tasks]
  /\ crashes \in Nat

\* The session has just begun: the member is connected and looks at the page.
Init ==
  /\ over = FALSE /\ gaveUp = FALSE /\ quitting = FALSE
  /\ focus = TRUE /\ page = "front" /\ escaping = FALSE /\ recent = FALSE
  /\ buffer = <<>> /\ wire = <<>> /\ link = First
  /\ conn = [s \in Sockets |-> IF s = First THEN "up" ELSE "new"]
  /\ entry = [sock |-> First, gaveUp |-> FALSE] /\ heartbeat = FALSE
  /\ logs = [l \in LogIds |-> NoLog]
  /\ task = [t \in Slots |-> IdleTask]
  /\ crashes = 0

-----------------------------------------------------------------------------
(* The page: useFocusEscapeTracking, and Timer's heartbeat *)

\* socket.emit: what cannot be sent is buffered until the next connection.
Emit(m) ==
  /\ Len(wire) + Len(buffer) < MaxWire
  /\ IF link = NoOne THEN buffer' = Append(buffer, m) /\ UNCHANGED wire
                     ELSE wire' = Append(wire, m) /\ UNCHANGED buffer

\* emitEscapeStart, with its debounce.
EmitStart ==
  IF recent THEN UNCHANGED <<escaping, recent, buffer, wire>>
  ELSE escaping' = TRUE /\ recent' = TRUE /\ Emit("escape:start")

EmitEnd == escaping' = FALSE /\ Emit("escape:end") /\ UNCHANGED recent

\* visibilitychange or blur.
LookAway ==
  /\ page = "front" /\ (recent => Quick)
  /\ page' = "away"
  /\ IF focus /\ ~escaping THEN EmitStart
     ELSE UNCHANGED <<escaping, recent, buffer, wire>>
  /\ UNCHANGED <<room, focus, link, conn, redis, logs, task, crashes>>

\* visibilitychange with the focus, or focus.
LookBack ==
  /\ page = "away" /\ page' = "front"
  /\ IF escaping THEN EmitEnd ELSE UNCHANGED <<escaping, recent, buffer, wire>>
  /\ UNCHANGED <<room, focus, link, conn, redis, logs, task, crashes>>

\* isFocus changes (a break is longer than 300 ms): a user who is away starts or
\* stops escaping with it.
SlotChanges ==
  /\ page # "closed" /\ ~over /\ (recent => focus)
  /\ focus' = ~focus
  /\ IF page = "away" /\ focus' /\ ~escaping THEN EmitStart
     ELSE IF page = "away" /\ ~focus' /\ escaping THEN EmitEnd
     ELSE UNCHANGED <<escaping, recent, buffer, wire>>
  /\ UNCHANGED <<room, page, link, conn, redis, logs, task, crashes>>

\* handleConnection has not set client.data.roomCode yet.
Joining(s) == \E t \in Slots : task[t].pc = "connect_member" /\ task[t].sock = s

DebounceOver ==
  /\ recent /\ recent' = FALSE
  /\ UNCHANGED <<room, focus, page, escaping, buffer, net, redis, logs, task, crashes>>

\* The interval of five seconds, over a socket the server has admitted.
Beat ==
  /\ page # "closed" /\ link # NoOne /\ conn[link] = "up" /\ ~Joining(link)
  /\ heartbeat' = TRUE
  /\ UNCHANGED <<room, client, net, entry, logs, task, crashes>>

\* The connection breaks: what was on its way is lost, the server has not
\* noticed yet.
Drop ==
  /\ link # NoOne
  /\ link' = NoOne /\ wire' = <<>>
  /\ conn' = [conn EXCEPT ![link] = IF @ = "up" THEN "lost" ELSE @]
  /\ UNCHANGED <<room, client, redis, logs, task, crashes>>

\* The page is closed, or the phone dies: the same, and the refs are gone.
Close ==
  /\ page # "closed" /\ page' = "closed"
  /\ escaping' = FALSE /\ recent' = FALSE /\ buffer' = <<>>
  /\ link' = NoOne /\ wire' = <<>>
  /\ conn' = [s \in Sockets |-> IF s = link /\ conn[s] = "up" THEN "lost" ELSE conn[s]]
  /\ UNCHANGED <<room, focus, redis, logs, task, crashes>>

-----------------------------------------------------------------------------
(* Handlers *)

Free(t) == task[t].pc = "idle"

Run(t, pc, s) == task' = [task EXCEPT ![t] = [IdleTask EXCEPT !.pc = pc, !.sock = s]]

Goto(t, from, to) ==
  /\ task[t].pc = from
  /\ task' = [task EXCEPT ![t].pc = to]

Return(t) == task' = [task EXCEPT ![t] = IdleTask]

Copy(t, from, to) ==
  /\ task[t].pc = from
  /\ task' = [task EXCEPT ![t].pc = to, ![t].copy = entry]

\* handleConnection.  The page, opened again or reconnecting, has a new socket;
\* what it buffered goes out over it.
Connect(t, s) ==
  /\ link = NoOne /\ conn[s] = "new" /\ ~over
  /\ page = "away" => Background
  /\ Free(t) /\ Run(t, "connect_member", s)
  /\ link' = s /\ conn' = [conn EXCEPT ![s] = "up"]
  /\ wire' = buffer /\ buffer' = <<>>
  /\ page' = IF page = "closed" THEN "front" ELSE page
  /\ UNCHANGED <<room, focus, escaping, recent, redis, logs, crashes>>

\* isMember; client.data.roomCode and join; then setConnected(true).
ConnectMember(t) ==
  /\ Goto(t, "connect_member", "connect_read")
  /\ UNCHANGED <<room, client, net, redis, logs, crashes>>

ConnectRead(t) ==
  /\ Copy(t, "connect_read", "connect_save")
  /\ UNCHANGED <<room, client, net, redis, logs, crashes>>

\* Mutant: a reconnection does not end the escape.
ConnectSaveOnly(t) ==
  /\ task[t].pc = "connect_save"
  /\ entry' = [task[t].copy EXCEPT !.sock = task[t].sock]
  /\ Return(t)
  /\ UNCHANGED <<room, client, net, heartbeat, logs, crashes>>

\* logEscapeEnd follows, for a logged-in user.
ConnectSave(t) ==
  /\ task[t].pc = "connect_save"
  /\ entry' = [task[t].copy EXCEPT !.sock = task[t].sock]
  /\ IF Guest THEN Return(t) ELSE Goto(t, "connect_save", "end_member")
  /\ UNCHANGED <<room, client, net, heartbeat, logs, crashes>>

\* handleDisconnect, once the server notices; without a roomCode it returns.
Gone(t, s) ==
  /\ conn[s] = "lost" /\ conn' = [conn EXCEPT ![s] = "gone"]
  /\ Free(t) /\ Run(t, IF Joining(s) THEN "idle" ELSE "gone_clear", s)
  /\ UNCHANGED <<room, client, link, wire, redis, logs, crashes>>

GoneClear(t) ==
  /\ Goto(t, "gone_clear", "gone_read")
  /\ heartbeat' = FALSE
  /\ UNCHANGED <<room, client, net, entry, logs, crashes>>

\* Mutant: any socket of the member counts as the member's.
GoneReadAny(t) ==
  /\ task[t].pc = "gone_read"
  /\ task' = [task EXCEPT ![t].pc = "gone_copy", ![t].counted = ~over /\ ~entry.gaveUp]
  /\ UNCHANGED <<room, client, net, redis, logs, crashes>>

\* Only the socket of the entry counts; an old one is ignored.
GoneRead(t) ==
  /\ task[t].pc = "gone_read"
  /\ IF entry.sock = task[t].sock
     THEN task' = [task EXCEPT ![t].pc = "gone_copy", ![t].counted = ~over /\ ~entry.gaveUp]
     ELSE Return(t)
  /\ UNCHANGED <<room, client, net, redis, logs, crashes>>

\* setConnected(false), on the state read again; logEscapeStart on the first.
GoneCopy(t) ==
  /\ Copy(t, "gone_copy", "gone_save")
  /\ UNCHANGED <<room, client, net, redis, logs, crashes>>

\* Mutant: the escape is left to the heartbeat.
GoneSaveOnly(t) ==
  /\ task[t].pc = "gone_save"
  /\ entry' = [task[t].copy EXCEPT !.sock = NoOne]
  /\ Return(t)
  /\ UNCHANGED <<room, client, net, heartbeat, logs, crashes>>

GoneSave(t) ==
  /\ task[t].pc = "gone_save"
  /\ entry' = [task[t].copy EXCEPT !.sock = NoOne]
  /\ IF task[t].counted THEN Goto(t, "gone_save", "start_room") ELSE Return(t)
  /\ UNCHANGED <<room, client, net, heartbeat, logs, crashes>>

\* Before the server has set the socket's room, escape:start is rejected, and
\* escape:end looks for the user in any room.
Handlers(m) ==
  IF ~Joining(link) THEN {IF m = "escape:start" THEN "start_room" ELSE "end_member"}
  ELSE IF m = "escape:start" THEN {"idle"} ELSE {"idle", "end_member"}

\* A message arrives.
Deliver(t) ==
  /\ wire # <<>> /\ wire' = Tail(wire)
  /\ Free(t)
  /\ \E pc \in Handlers(Head(wire)) : Run(t, pc, NoOne)
  /\ UNCHANGED <<room, client, link, conn, redis, logs, crashes>>

\* The heartbeat key expires: fifteen seconds without a beat.
Expire(t) ==
  /\ heartbeat /\ heartbeat' = FALSE
  /\ link = NoOne \/ (Throttled /\ page = "away")
  /\ Free(t) /\ Run(t, "start_room", NoOne)
  /\ UNCHANGED <<room, client, net, entry, logs, crashes>>

-----------------------------------------------------------------------------
(* EscapeService.logEscapeStart *)

StartRoom(t) ==
  /\ task[t].pc = "start_room"
  /\ IF over THEN Return(t) ELSE Goto(t, "start_room", "start_member")
  /\ UNCHANGED <<room, client, net, redis, logs, crashes>>

\* Mutant: members who gave up are recorded, too.
StartMemberAny(t) ==
  /\ Goto(t, "start_member", "start_find")
  /\ UNCHANGED <<room, client, net, redis, logs, crashes>>

StartMember(t) ==
  /\ task[t].pc = "start_member"
  /\ IF gaveUp THEN Return(t) ELSE Goto(t, "start_member", "start_find")
  /\ UNCHANGED <<room, client, net, redis, logs, crashes>>

Open == {l \in LogIds : logs[l].state = "open"}

StartFind(t) ==
  /\ task[t].pc = "start_find"
  /\ IF Open # {} THEN Return(t) ELSE Goto(t, "start_find", "start_create")
  /\ UNCHANGED <<room, client, net, redis, logs, crashes>>

\* A log that was closed in time and that no handler holds gives up its id.
StartCreate(t) ==
  /\ task[t].pc = "start_create"
  /\ \E l \in LogIds :
       /\ logs[l].state # "open" /\ ~logs[l].past
       /\ \A u \in Slots : task[u].log # l
       /\ logs' = [logs EXCEPT ![l] = [state |-> "open", past |-> quitting]]
  /\ Return(t)
  /\ UNCHANGED <<room, client, net, redis, crashes>>

-----------------------------------------------------------------------------
(* EscapeService.logEscapeEnd *)

EndMember(t) ==
  /\ task[t].pc = "end_member"
  /\ IF gaveUp THEN Return(t) ELSE Goto(t, "end_member", "end_find")
  /\ UNCHANGED <<room, client, net, redis, logs, crashes>>

EndFind(t) ==
  /\ task[t].pc = "end_find"
  /\ \/ \E l \in Open : task' = [task EXCEPT ![t].pc = "end_update", ![t].log = l]
     \/ Open = {} /\ Return(t)
  /\ UNCHANGED <<room, client, net, redis, logs, crashes>>

\* Mutant: the state column gets a value of its own for a return.
EndUpdateReturned(t) ==
  /\ task[t].pc = "end_update"
  /\ logs' = [logs EXCEPT ![task[t].log].state = "returned"]
  /\ Return(t)
  /\ UNCHANGED <<room, client, net, redis, crashes>>

\* The update does not ask whether the log is still open.
EndUpdate(t) ==
  /\ task[t].pc = "end_update"
  /\ logs' = [logs EXCEPT ![task[t].log] = [state |-> "closed", past |-> quitting]]
  /\ Return(t)
  /\ UNCHANGED <<room, client, net, redis, crashes>>

-----------------------------------------------------------------------------
(* Giving up, the end of the session, restarts *)

GiveUp(t) ==
  /\ page = "front" /\ ~over /\ ~quitting
  /\ quitting' = TRUE
  /\ Free(t) /\ Run(t, "giveup_tx", NoOne)
  /\ UNCHANGED <<over, gaveUp, client, net, redis, logs, crashes>>

\* giveUpTransaction: every open log is closed at gaveUpAt.
GiveUpTx(t) ==
  /\ Goto(t, "giveup_tx", "giveup_read")
  /\ gaveUp' = TRUE
  /\ logs' = [l \in LogIds |-> IF l \in Open THEN [state |-> "closed", past |-> FALSE] ELSE logs[l]]
  /\ UNCHANGED <<over, quitting, client, net, redis, crashes>>

\* saveGiveUpState: the whole state is read and saved.
GiveUpRead(t) ==
  /\ Copy(t, "giveup_read", "giveup_save")
  /\ UNCHANGED <<room, client, net, redis, logs, crashes>>

GiveUpSave(t) ==
  /\ Goto(t, "giveup_save", "giveup_kick")
  /\ entry' = [task[t].copy EXCEPT !.gaveUp = TRUE]
  /\ UNCHANGED <<room, client, net, heartbeat, logs, crashes>>

\* The member's socket is disconnected and the page goes to the roulette.
GiveUpKick(t) ==
  /\ task[t].pc = "giveup_kick" /\ Return(t)
  /\ page' = "closed" /\ escaping' = FALSE /\ recent' = FALSE /\ buffer' = <<>>
  /\ link' = NoOne /\ wire' = <<>>
  /\ conn' = [s \in Sockets |-> IF s = link /\ conn[s] = "up" THEN "lost" ELSE conn[s]]
  /\ UNCHANGED <<room, focus, redis, logs, crashes>>

EndSession ==
  /\ ~over /\ over' = TRUE
  /\ UNCHANGED <<gaveUp, quitting, client, net, redis, logs, task, crashes>>

\* The server restarts: handlers and sockets are lost, no handleDisconnect runs;
\* a key that expires meanwhile expires unheard.
Crash ==
  /\ crashes < MaxCrashes /\ crashes' = crashes + 1
  /\ task' = [t \in Slots |-> IdleTask]
  /\ link' = NoOne /\ wire' = <<>>
  /\ conn' = [s \in Sockets |-> IF conn[s] = "new" THEN "new" ELSE "gone"]
  /\ heartbeat' \in {heartbeat, FALSE}
  /\ UNCHANGED <<room, client, entry, logs>>

-----------------------------------------------------------------------------
Page == LookAway \/ LookBack \/ SlotChanges \/ DebounceOver \/ Beat \/ Drop \/ Close

Arrive(t) ==
  \/ \E s \in Sockets : Connect(t, s) \/ Gone(t, s)
  \/ Deliver(t) \/ Expire(t) \/ GiveUp(t)

Advance(t) ==
  \/ ConnectMember(t) \/ ConnectRead(t) \/ ConnectSave(t)
  \/ GoneClear(t) \/ GoneRead(t) \/ GoneCopy(t) \/ GoneSave(t)
  \/ StartRoom(t) \/ StartMember(t) \/ StartFind(t) \/ StartCreate(t)
  \/ EndMember(t) \/ EndFind(t) \/ EndUpdate(t)
  \/ GiveUpTx(t) \/ GiveUpRead(t) \/ GiveUpSave(t) \/ GiveUpKick(t)

Next == Page \/ (\E t \in Slots : Arrive(t) \/ Advance(t)) \/ EndSession \/ Crash

Spec == Init /\ [][Next]_vars

\* A handler that runs goes on, and Socket.IO's ping notices a lost socket.
\* Nothing obliges the user or the page.
FairSpec ==
  /\ Spec
  /\ \A t \in Slots : WF_vars(Advance(t))
  /\ \A s \in Sockets : WF_vars(\E t \in Slots : Gone(t, s))

-----------------------------------------------------------------------------
(* Properties *)

Running == ~over /\ ~quitting

\* The process that holds the member's sockets is still the same.
Up == crashes = 0

\* Everything that happened has been dealt with.
Quiet ==
  /\ wire = <<>> /\ buffer = <<>>
  /\ \A t \in Slots : Free(t)
  /\ \A s \in Sockets : conn[s] # "lost"

\* A user who looks at a connected page in a focus slot is not charged: whatever
\* came before, returning closes what leaving opened (logEscapeEnd, its callers).
PresentNotCharged ==
  Quiet /\ Running /\ link # NoOne /\ page = "front" /\ focus => Open = {}

\* A user who has looked away in a focus slot is charged (logEscapeStart).
AwayCharged == Quiet /\ Running /\ link # NoOne /\ page = "away" /\ focus => Open # {}

\* When everything has been dealt with, the user is charged exactly while away.
ChargedAsAway == PresentNotCharged /\ AwayCharged

\* The cached entry names the page's socket, whichever of an old connection's end
\* and a new connection's beginning is handled first (handleDisconnect's
\* comparison of socket ids): what the cleanup counts is who is there.
EntryCurrent == Quiet /\ Up /\ ~over => entry.sock = link

\* However often leaving is reported, there is one log to close.
OneOpenLog == Quiet => Cardinality(Open) <= 1

\* No log runs on behind gaveUpAt, from where the rest of the session is charged
\* as a whole (giveUpTransaction, calculateAndSaveForGiveUp).
NothingPastGiveUp ==
  gaveUp => \A l \in LogIds : ~logs[l].past /\ logs[l].state # "open"

\* No time is charged twice: not by two logs, not by a log and the give-up.
LogsSound == OneOpenLog /\ NothingPastGiveUp

\* While the server stays up, a member who is gone is charged in the end, unless
\* they are back before.
GoneNoticed == link = NoOne /\ Running ~> Open # {} \/ link # NoOne \/ ~Running \/ ~Up
=============================================================================
