-------------------------- MODULE RoomPresenceProofs --------------------------
(* Types of RoomPresence, that a room never holds more members than it       *)
(* should, that nobody is locked into a contract they have not signed, that  *)
(* a banned member keeps nothing of the room, and that a cleanup spares the  *)
(* connected: for every set of users, connections and handlers, under every  *)
(* overlap but those that SignatureLost, KickUndone and SocketLost name.     *)
EXTENDS RoomPresence, FiniteSetTheorems, TLAPS

\* The awaits of a join, those at which a copy of the state is held, those that
\* lie in a start by force, and those that serve one member.
Joining  == {"join_ban", "join_member", "join_row", "join_read", "join_save"}
Holding  == {"join_save", "conn_member", "conn_save", "contract_save", "drop_save", "leave_save",
             "kick_save", "entry_save", "start_save"}
Kicking  == {"kick_host", "kick_row", "kick_read", "kick_save", "kick_ban", "kick_socket"}
Serving  == Joining \cup Kicking \cup
            {"conn_check", "conn_member", "conn_read", "conn_save",
             "drop_check", "drop_read", "drop_save", "leave_row", "leave_read", "leave_save"}

TaskOK(k) ==
  /\ k \in TaskStates
  /\ k.pc \in Holding => k.seen \in States
  /\ k.pc \in {"conn_save", "drop_save"} => k.seen.members[k.who] # NoOne
  /\ k.pc \in Serving => k.who \in Users
  /\ k.pc \in Joining => k.kind = "join"
  /\ k.pc \in {"force_sign", "force_next"} => k.kind = "force"
  /\ k.pc \in {"cleanup_active", "cleanup_count"} => k.kind = "cleanup"
  /\ k.pc \in Kicking => k.kind \in {"kick", "force"}
  /\ k.kind = "force" => k.todo \subseteq Users \X (Sockets \cup {NoOne})

\* TypeOK but for the tasks.
Typed ==
  /\ phase \in Phases
  /\ rows \subseteq Users /\ bans \subseteq Users
  /\ cache \in States \cup {NoOne}
  /\ socks \in [Sockets -> {"closed", "opening", "joined"}]
  /\ dying \subseteq Sockets /\ timer \subseteq {"held", "loose"}
  /\ faults \in Nat /\ mix \in SUBSET Kinds /\ capacity \in Nat
  /\ agreed \subseteq Users /\ twice \subseteq Users /\ visited \in BOOLEAN

\* A newcomer's place is kept until the row is there.
Place(k) ==
  /\ k.pc \in {"join_ban", "join_member"} /\ k.flag => Cardinality(rows) < capacity
  /\ k.pc = "join_row" => Cardinality(rows \cup {k.who}) <= capacity

Fits ==
  mix # {"join"} =>
    /\ Cardinality(rows) <= capacity
    /\ \A t \in Tasks : Place(task[t])
    /\ \A t, u \in Tasks : t # u => ~ (task[t].kind = "join" /\ task[u].kind = "join")

IInv == /\ Typed /\ task \in [Tasks -> TaskStates] /\ \A t \in Tasks : TaskOK(task[t])
        /\ Fits

-----------------------------------------------------------------------------
(* How a handler's step keeps it *)

LEMMA Fewer ==
  ASSUME NEW S, NEW T, S \subseteq T, T \subseteq Users
  PROVE  /\ IsFiniteSet(S) /\ IsFiniteSet(T) /\ Cardinality(S) \in Nat /\ Cardinality(T) \in Nat
         /\ Cardinality(S) <= Cardinality(T)
<1>1. IsFiniteSet(T) /\ IsFiniteSet(S)
  BY FS_Subset, PresenceAssumption
<1> QED BY <1>1, FS_Subset, FS_CardinalityType

LEMMA OneStep ==
  ASSUME IInv, NEW t \in Tasks, NEW k, task' = [task EXCEPT ![t] = k], TaskOK(k), Typed',
         rows' \subseteq rows, UNCHANGED trial,
         mix # {"join"} => Place(k),
         k.kind \in {task[t].kind, "none"} \/ \A u \in Tasks \ {t} :
           mix # {"join"} => ~ (k.kind = "join" /\ task[u].kind = "join")
  PROVE  IInv'
<1>1. /\ task' \in [Tasks -> TaskStates] /\ \A u \in Tasks : task'[u] = IF u = t THEN k ELSE task[u]
  BY DEF IInv, TaskOK
<1>2. \A u \in Tasks : TaskOK(task[u])'
  BY <1>1 DEF IInv, TaskOK
<1>3. Fits'
  <2> SUFFICES ASSUME mix' # {"join"}
               PROVE  /\ Cardinality(rows') <= capacity'
                      /\ \A u \in Tasks : Place(task[u])'
                      /\ \A v, u \in Tasks : v # u => ~ (task'[v].kind = "join" /\ task'[u].kind = "join")
    BY DEF Fits
  <2>1. mix # {"join"} /\ capacity' = capacity /\ capacity \in Nat
    BY DEF trial, IInv, Typed
  <2>2. /\ Cardinality(rows') \in Nat /\ Cardinality(rows) \in Nat
        /\ Cardinality(rows') <= Cardinality(rows)
    BY Fewer DEF IInv, Typed
  <2>3. Cardinality(rows') <= capacity'
    BY <2>1, <2>2 DEF IInv, Fits
  <2>4. ASSUME NEW u \in Tasks PROVE Place(task[u])'
    <3>1. Place(task'[u])
      BY <1>1, <2>1 DEF IInv, Fits
    <3>2. ASSUME task'[u].pc = "join_row"
          PROVE  Cardinality(rows' \cup {task'[u].who}) <= capacity
      <4>1. task'[u].who \in Users
        BY <1>2, <3>2 DEF TaskOK, Serving, Joining
      <4>2. /\ Cardinality(rows' \cup {task'[u].who}) \in Nat
            /\ Cardinality(rows \cup {task'[u].who}) \in Nat
            /\ Cardinality(rows' \cup {task'[u].who}) <= Cardinality(rows \cup {task'[u].who})
        <5> DEFINE S == rows' \cup {task'[u].who}
                   T == rows \cup {task'[u].who}
        <5>1. S \subseteq T /\ T \subseteq Users
          BY <4>1 DEF IInv, Typed
        <5> HIDE DEF S, T
        <5>2. Cardinality(S) \in Nat /\ Cardinality(T) \in Nat /\ Cardinality(S) <= Cardinality(T)
          BY <5>1, Fewer
        <5> QED BY <5>2 DEF S, T
      <4>3. Cardinality(rows \cup {task'[u].who}) <= capacity
        BY <3>1, <3>2 DEF Place
      <4> QED BY <2>1, <4>2, <4>3
    <3>3. task'[u].pc \in {"join_ban", "join_member"} /\ task'[u].flag => Cardinality(rows') < capacity
      BY <2>1, <2>2, <3>1 DEF Place
    <3> QED BY <2>1, <3>2, <3>3 DEF Place
  <2>5. ASSUME NEW v \in Tasks, NEW u \in Tasks, v # u, task'[v].kind = "join", task'[u].kind = "join"
        PROVE  FALSE
    BY <1>1, <2>1, <2>5 DEF IInv, Fits
  <2> QED BY <2>3, <2>4, <2>5
<1> QED BY <1>1, <1>2, <1>3 DEF IInv

LEMMA StillStep ==
  ASSUME IInv, UNCHANGED <<task, trial, rows>>, Typed'
  PROVE  IInv'
BY DEF IInv, TaskOK, Fits, Place, trial

\* A handler starts.
LEMMA IssueStep ==
  ASSUME IInv, NEW t \in Tasks, NEW k, Issue(t, k), TaskOK(k), Typed', UNCHANGED <<rows, trial>>,
         mix # {"join"} => Place(k)
  PROVE  IInv'
<1>1. ASSUME NEW u \in Tasks, mix # {"join"}, k.kind = "join", task[u].kind = "join" PROVE FALSE
  BY <1>1 DEF Issue, MayStart
<1> QED BY <1>1, OneStep DEF Issue

-----------------------------------------------------------------------------
(* Records *)

LEMMA PCsFacts == \A pc \in Serving \cup Holding \cup
  {"idle", "contract_read", "contract_db", "drop_count", "cleanup_active", "cleanup_count", "delete",
   "start_sign", "start_db", "start_read", "force_sign", "force_next", "force_check"} : pc \in PCs
BY DEF Serving, Joining, Kicking, Holding, PCs

LEMMA IdleOK == TaskOK(Idle) /\ Place(Idle) /\ Idle.kind = "none"
<1>1. Idle \in TaskStates
  BY DEF Idle, TaskStates, PCs
<1> QED BY <1>1 DEF Idle, TaskOK, Place, Serving, Joining, Kicking, Holding

LEMMA GotoType ==
  ASSUME NEW k \in TaskStates, NEW pc \in PCs
  PROVE  /\ [k EXCEPT !.pc = pc] \in TaskStates
         /\ [k EXCEPT !.pc = pc].pc = pc /\ [k EXCEPT !.pc = pc].kind = k.kind
         /\ [k EXCEPT !.pc = pc].who = k.who /\ [k EXCEPT !.pc = pc].flag = k.flag
         /\ [k EXCEPT !.pc = pc].todo = k.todo /\ [k EXCEPT !.pc = pc].seen = k.seen
BY DEF TaskStates

LEMMA SeenType ==
  ASSUME NEW k \in TaskStates, NEW pc \in PCs, NEW c \in States \cup {NoOne}
  PROVE  /\ [k EXCEPT !.pc = pc, !.seen = c] \in TaskStates
         /\ [k EXCEPT !.pc = pc, !.seen = c].pc = pc /\ [k EXCEPT !.pc = pc, !.seen = c].kind = k.kind
         /\ [k EXCEPT !.pc = pc, !.seen = c].who = k.who /\ [k EXCEPT !.pc = pc, !.seen = c].flag = k.flag
         /\ [k EXCEPT !.pc = pc, !.seen = c].todo = k.todo /\ [k EXCEPT !.pc = pc, !.seen = c].seen = c
BY DEF TaskStates

\* The state with one member's entry changed.
LEMMA EntryType ==
  ASSUME NEW c \in States, NEW u \in Users, NEW e \in Entry \cup {NoOne}
  PROVE  [c EXCEPT !.members[u] = e] \in States
BY DEF States

LEMMA MemberType ==
  ASSUME NEW c \in States, NEW u \in Users
  PROVE  c.members[u] \in Entry \cup {NoOne} /\ c.phase \in Phases /\ DOMAIN c.members = Users
         /\ c.members \in [Users -> Entry \cup {NoOne}]
BY DEF States

LEMMA PhaseType ==
  ASSUME NEW c \in States, NEW p \in Phases
  PROVE  [c EXCEPT !.phase = p] \in States
BY DEF States

LEMMA TaskFacts ==
  ASSUME IInv, NEW t \in Tasks
  PROVE  /\ task[t] \in TaskStates /\ TaskOK(task[t]) /\ (mix # {"join"} => Place(task[t]))
         /\ task \in [Tasks -> TaskStates]
BY DEF IInv, Fits

\* A handler goes on to an await that asks nothing of it but its member.
LEMMA GotoStep ==
  ASSUME IInv, NEW t \in Tasks, NEW pc \in PCs, Goto(t, pc), Typed', rows' \subseteq rows, UNCHANGED trial,
         pc \notin Holding \cup {"join_row", "force_sign", "cleanup_active"},
         pc = "force_next" => task[t].kind = "force",
         pc = "cleanup_count" => task[t].kind = "cleanup",
         pc \in Kicking => task[t].pc \in Kicking,
         pc \in Serving => task[t].pc \in Serving,
         pc \in Joining => task[t].pc \in Joining,
         pc \in {"join_ban", "join_member"} => task[t].pc \in {"join_ban", "join_member"}
  PROVE  IInv'
<1> DEFINE k == [task[t] EXCEPT !.pc = pc]
<1>1. task' = [task EXCEPT ![t] = k]
  BY TaskFacts DEF Goto
<1>2. /\ k \in TaskStates /\ k.pc = pc /\ k.kind = task[t].kind /\ k.who = task[t].who
      /\ k.todo = task[t].todo /\ k.flag = task[t].flag
  BY TaskFacts, GotoType
<1> HIDE DEF k
<1>3. TaskOK(k)
  BY <1>2, TaskFacts DEF TaskOK, Holding
<1>4. mix # {"join"} => Place(k)
  BY <1>2, TaskFacts DEF Place
<1> QED BY <1>1, <1>2, <1>3, <1>4, OneStep

LEMMA ReturnStep ==
  ASSUME IInv, NEW t \in Tasks, Return(t), Typed', rows' \subseteq rows, UNCHANGED trial
  PROVE  IInv'
BY IdleOK, OneStep DEF Return

\* getState: c is the state, or nothing is read.
LEMMA ReadStep ==
  ASSUME IInv, NEW t \in Tasks, NEW pc \in (Holding \ {"conn_save", "drop_save"}) \cup {"drop_read"},
         cache # NoOne, task' = [task EXCEPT ![t].pc = pc, ![t].seen = cache],
         UNCHANGED <<stores, network, faults, trial, history>>,
         pc \in Serving => task[t].pc \in Serving, pc \in Joining => task[t].pc \in Joining,
         pc \in Kicking => task[t].pc \in Kicking
  PROVE  IInv'
<1>1. PICK c \in States : c = cache
  BY DEF IInv, Typed
<1> DEFINE k == [task[t] EXCEPT !.pc = pc, !.seen = c]
<1>2. task' = [task EXCEPT ![t] = k]
  BY <1>1, TaskFacts
<1>a. pc \in PCs /\ task[t] \in TaskStates /\ c \in States \cup {NoOne}
  BY TaskFacts, PCsFacts DEF Serving
<1>3. /\ k \in TaskStates /\ k.pc = pc /\ k.kind = task[t].kind /\ k.who = task[t].who
      /\ k.todo = task[t].todo /\ k.seen = c
  BY <1>a DEF TaskStates
<1> HIDE DEF k
<1>4. TaskOK(k)
  BY <1>3, TaskFacts DEF TaskOK, Holding
<1>5. Place(k)
  BY <1>3 DEF Place, Holding
<1>6. Typed' /\ rows' \subseteq rows /\ UNCHANGED trial
  BY DEF IInv, Typed, stores, network, trial, history
<1> QED BY <1>2, <1>3, <1>4, <1>5, <1>6, OneStep

\* ... of a member that has an entry.
LEMMA ReadEntryStep ==
  ASSUME IInv, NEW t \in Tasks, NEW pc \in {"conn_save", "drop_save"},
         cache # NoOne, cache.members[task[t].who] # NoOne,
         task' = [task EXCEPT ![t].pc = pc, ![t].seen = cache],
         UNCHANGED <<stores, network, faults, trial, history>>, task[t].pc \in Serving
  PROVE  IInv'
<1>1. PICK c \in States : c = cache
  BY DEF IInv, Typed
<1> DEFINE k == [task[t] EXCEPT !.pc = pc, !.seen = c]
<1>2. task' = [task EXCEPT ![t] = k]
  BY <1>1, TaskFacts
<1>a. pc \in PCs /\ task[t] \in TaskStates /\ c \in States \cup {NoOne}
  BY TaskFacts, PCsFacts DEF Holding
<1>3. /\ k \in TaskStates /\ k.pc = pc /\ k.kind = task[t].kind /\ k.who = task[t].who
      /\ k.todo = task[t].todo /\ k.seen = c
  BY <1>a DEF TaskStates
<1> HIDE DEF k
<1>4. TaskOK(k)
  BY <1>1, <1>3, TaskFacts DEF TaskOK, Holding, Joining, Kicking
<1>5. Place(k)
  BY <1>3 DEF Place
<1>6. Typed' /\ rows' \subseteq rows /\ UNCHANGED trial
  BY DEF IInv, Typed, stores, network, trial, history
<1> QED BY <1>2, <1>3, <1>4, <1>5, <1>6, OneStep

\* saveState of a state c.
LEMMA SaveStep ==
  ASSUME IInv, NEW t \in Tasks, NEW from, NEW to \in PCs \cup {"return"}, NEW c \in States,
         Save(t, from, to, c),
         agreed' \subseteq Users, twice' \subseteq Users, visited' \in BOOLEAN,
         to \notin Holding \cup Joining \cup {"force_sign", "force_next", "cleanup_active", "cleanup_count"},
         to \in Serving => from \in Serving, to \in Kicking => from \in Kicking
  PROVE  IInv'
<1>1. Typed' /\ rows' \subseteq rows /\ UNCHANGED trial
  BY DEF Save, IInv, Typed, network, trial
<1>2. CASE to = "return"
  BY <1>1, <1>2, ReturnStep DEF Save
<1>3. CASE to # "return"
  <2> DEFINE k == [task[t] EXCEPT !.pc = to, !.seen = NoOne]
  <2>1. task' = [task EXCEPT ![t] = k] /\ task[t].pc = from /\ to \in PCs
    BY <1>3, TaskFacts DEF Save, At
  <2>2. /\ k \in TaskStates /\ k.pc = to /\ k.kind = task[t].kind /\ k.who = task[t].who
        /\ k.todo = task[t].todo
    <3>1. task[t] \in TaskStates /\ NoOne \in States \cup {NoOne}
      BY TaskFacts
    <3> QED BY <2>1, <3>1 DEF TaskStates
  <2> HIDE DEF k
  <2>3. TaskOK(k)
    BY <2>1, <2>2, TaskFacts DEF TaskOK, Holding
  <2>4. Place(k)
    BY <2>2 DEF Place, Joining
  <2> QED BY <1>1, <2>1, <2>2, <2>3, <2>4, OneStep
<1> QED BY <1>2, <1>3

\* The stores as they were.
LEMMA StillTyped ==
  ASSUME IInv, UNCHANGED <<stores, network, faults, trial, history>>
  PROVE  Typed' /\ rows' \subseteq rows /\ UNCHANGED trial
BY DEF IInv, Typed, stores, network, trial, history

-----------------------------------------------------------------------------
(* Joins *)

LEMMA JoinStep ==
  ASSUME IInv, NEW t \in Tasks, JoinBan(t) \/ JoinMember(t) \/ JoinRead(t) \/ JoinSave(t)
  PROVE  IInv'
<1>1. CASE JoinBan(t)
  <2>1. CASE Return(t)
    BY <1>1, <2>1, StillTyped, ReturnStep DEF JoinBan
  <2>2. CASE Goto(t, "join_member")
    <3>1. task[t].pc = "join_ban" /\ "join_member" \in PCs
      BY <1>1 DEF JoinBan, At, PCs
    <3> QED BY <1>1, <2>2, <3>1, StillTyped, GotoStep DEF JoinBan, Holding, Serving, Joining, Kicking
  <2> QED BY <1>1, <2>1, <2>2 DEF JoinBan
<1>2. CASE JoinMember(t)
  <2>1. CASE Return(t)
    BY <1>2, <2>1, StillTyped, ReturnStep DEF JoinMember
  <2>2. CASE /\ task[t].who \in rows \/ task[t].flag
             /\ task' = [task EXCEPT ![t].pc = "join_row", ![t].flag = task[t].who \in rows]
    <3> DEFINE back == task[t].who \in rows
               k == [task[t] EXCEPT !.pc = "join_row", !.flag = back]
    <3>1. task' = [task EXCEPT ![t] = k]
      BY <2>2, TaskFacts
    <3>2. back \in BOOLEAN
      OBVIOUS
    <3> HIDE DEF back
    <3>3. /\ k \in TaskStates /\ k.pc = "join_row" /\ k.kind = task[t].kind /\ k.who = task[t].who
          /\ k.todo = task[t].todo
      <4>1. task[t] \in TaskStates /\ "join_row" \in PCs
        BY TaskFacts DEF PCs
      <4> QED BY <3>2, <4>1 DEF TaskStates
    <3>4. task[t].pc = "join_member" /\ task[t].who \in Users /\ task[t].kind = "join"
      BY <1>2, TaskFacts DEF JoinMember, At, TaskOK, Serving, Joining
    <3> HIDE DEF k
    <3>5. TaskOK(k)
      BY <3>3, <3>4, TaskFacts DEF TaskOK, Holding, Kicking
    <3>6. ASSUME mix # {"join"} PROVE Place(k)
      <4>1. Cardinality(rows \cup {task[t].who}) <= capacity
        <5>1. CASE task[t].who \in rows
          <6>1. rows \cup {task[t].who} = rows
            BY <5>1
          <6> QED BY <3>6, <6>1 DEF IInv, Fits
        <5>2. CASE task[t].who \notin rows
          <6>1. task[t].flag
            BY <2>2, <5>2
          <6>2. Cardinality(rows) < capacity
            BY <3>4, <3>6, <6>1, TaskFacts DEF Place
          <6>3. IsFiniteSet(rows) /\ Cardinality(rows) \in Nat
            BY Fewer DEF IInv, Typed
          <6>4. Cardinality(rows \cup {task[t].who}) = Cardinality(rows) + 1
            BY <5>2, <6>3, FS_AddElement
          <6> QED BY <6>2, <6>3, <6>4 DEF IInv, Typed
        <5> QED BY <5>1, <5>2
      <4> QED BY <3>3, <4>1 DEF Place
    <3> QED BY <1>2, <3>1, <3>3, <3>5, <3>6, StillTyped, OneStep DEF JoinMember
  <2> QED BY <1>2, <2>1, <2>2 DEF JoinMember
<1>3. CASE JoinRead(t)
  <2>1. CASE Return(t)
    BY <1>3, <2>1, StillTyped, ReturnStep DEF JoinRead, Read
  <2>2. CASE cache # NoOne /\ task' = [task EXCEPT ![t].pc = "join_save", ![t].seen = cache]
    BY <1>3, <2>2, ReadStep DEF JoinRead, Read, At, Holding, Serving, Joining, Kicking
  <2> QED BY <1>3, <2>1, <2>2 DEF JoinRead, Read
<1>4. CASE JoinSave(t)
  <2> DEFINE c == [task[t].seen EXCEPT !.members[task[t].who] = Fresh]
  <2>1. task[t].pc = "join_save" /\ Save(t, "join_save", "return", c)
    BY <1>4 DEF JoinSave, Save, At
  <2>2. task[t].seen \in States /\ task[t].who \in Users
    BY <2>1, TaskFacts DEF TaskOK, Holding, Serving, Joining
  <2>3. Fresh \in Entry
    BY DEF Fresh, Entry
  <2>4. c \in States
    BY <2>2, <2>3, EntryType
  <2>5. agreed' \subseteq Users /\ twice' \subseteq Users /\ visited' \in BOOLEAN
    BY <1>4, <2>2 DEF JoinSave, IInv, Typed
  <2> HIDE DEF c
  <2> QED BY <2>1, <2>4, <2>5, SaveStep DEF Holding, Serving, Joining, Kicking
<1> QED BY <1>1, <1>2, <1>3, <1>4

\* A member's row takes the place that was kept for it.
LEMMA RowStep ==
  ASSUME IInv, NEW t \in Tasks, JoinRow(t)
  PROVE  IInv'
<1> DEFINE k == [task[t] EXCEPT !.pc = "join_read"]
<1>1. task' = [task EXCEPT ![t] = k] /\ task[t].pc = "join_row"
  BY TaskFacts DEF JoinRow, Goto, At
<1>2. /\ k \in TaskStates /\ k.pc = "join_read" /\ k.kind = task[t].kind /\ k.who = task[t].who
      /\ k.todo = task[t].todo
  BY TaskFacts, GotoType, PCsFacts DEF Serving, Joining
<1>3. task[t].who \in Users /\ task[t].kind = "join"
  BY <1>1, TaskFacts DEF TaskOK, Serving, Joining
<1> HIDE DEF k
<1>4. TaskOK(k)
  BY <1>2, <1>3, TaskFacts DEF TaskOK, Holding, Kicking
<1>5. rows' = rows \/ rows' = rows \cup {task[t].who}
  BY DEF JoinRow
<1>6. Typed' /\ UNCHANGED trial
  BY <1>3, <1>5 DEF JoinRow, IInv, Typed, network, trial, history
<1>7. /\ task' \in [Tasks -> TaskStates] /\ \A u \in Tasks : task'[u] = IF u = t THEN k ELSE task[u]
  BY <1>1, <1>2, TaskFacts
<1>8. \A u \in Tasks : TaskOK(task[u])'
  BY <1>4, <1>7 DEF IInv, TaskOK
<1>9. ASSUME mix' # {"join"}
      PROVE  /\ Cardinality(rows') <= capacity'
             /\ \A u \in Tasks : Place(task[u])'
             /\ \A v, u \in Tasks : v # u => ~ (task'[v].kind = "join" /\ task'[u].kind = "join")
  <2>1. mix # {"join"} /\ capacity' = capacity
    BY <1>6, <1>9 DEF trial
  <2>2. Cardinality(rows') <= capacity
    BY <1>1, <1>5, <2>1, TaskFacts DEF Place, IInv, Fits
  <2>3. ASSUME NEW u \in Tasks PROVE Place(task[u])'
    <3>1. task'[u].pc \notin {"join_ban", "join_member", "join_row"}
      <4>1. CASE u = t
        BY <1>2, <1>7, <4>1
      <4>2. CASE u # t
        BY <1>3, <1>7, <2>1, <4>2 DEF IInv, Fits, TaskOK, Joining
      <4> QED BY <4>1, <4>2
    <3> QED BY <3>1 DEF Place
  <2>4. \A v, u \in Tasks : v # u => ~ (task'[v].kind = "join" /\ task'[u].kind = "join")
    BY <1>2, <1>7, <2>1 DEF IInv, Fits
  <2> QED BY <2>1, <2>2, <2>3, <2>4
<1> QED BY <1>6, <1>7, <1>8, <1>9 DEF IInv, Fits

-----------------------------------------------------------------------------
(* Connections *)

LEMMA ConnectStep ==
  ASSUME IInv, NEW t \in Tasks, ConnCheck(t) \/ ConnMember(t) \/ ConnRead(t) \/ ConnSave(t)
  PROVE  IInv'
<1>1. CASE ConnCheck(t)
  <2>1. CASE Return(t) /\ socks' = [socks EXCEPT ![task[t].sock] = "closed"]
    <3>1. Typed' /\ rows' \subseteq rows /\ UNCHANGED trial
      BY <1>1, <2>1 DEF ConnCheck, IInv, Typed, stores, trial, history
    <3> QED BY <2>1, <3>1, ReturnStep
  <2>2. CASE /\ cache # NoOne /\ UNCHANGED socks
             /\ task' = [task EXCEPT ![t].pc = "conn_member", ![t].seen = cache]
    <3>1. UNCHANGED <<stores, network, faults, trial, history>> /\ task[t].pc = "conn_check"
      BY <1>1, <2>2 DEF ConnCheck, network, At
    <3> QED BY <2>2, <3>1, ReadStep DEF Holding, Serving, Joining, Kicking
  <2> QED BY <1>1, <2>1, <2>2 DEF ConnCheck
<1>2. CASE ConnMember(t)
  <2> DEFINE old == task[t].seen.members[task[t].who]
  <2>1. task[t].pc = "conn_member" /\ task[t].seen \in States /\ task[t].who \in Users
    BY <1>2, TaskFacts DEF ConnMember, At, TaskOK, Holding, Serving
  <2>2. old \in Entry \cup {NoOne}
    BY <2>1, MemberType, SMTT(30)
  <2> HIDE DEF old
  <2>3. dying' \subseteq Sockets
    <3>1. old # NoOne => {d \in {old.sock} : d # NoOne /\ socks[d] = "joined"} \subseteq Sockets
      BY <2>2 DEF Entry
    <3> QED BY <1>2, <3>1 DEF ConnMember, old, IInv, Typed
  <2>4. socks' \in [Sockets -> {"closed", "opening", "joined"}]
    BY <1>2 DEF ConnMember, IInv, Typed
  <2>5. Typed' /\ rows' \subseteq rows /\ UNCHANGED trial
    BY <1>2, <2>3, <2>4 DEF ConnMember, IInv, Typed, stores, trial, history
  <2>6. CASE Return(t)
    BY <2>5, <2>6, ReturnStep
  <2>7. CASE task' = [task EXCEPT ![t].pc = "conn_read", ![t].seen = NoOne]
    <3> DEFINE k == [task[t] EXCEPT !.pc = "conn_read", !.seen = NoOne]
    <3>1. task' = [task EXCEPT ![t] = k]
      BY <2>7, TaskFacts
    <3>2. task[t] \in TaskStates /\ "conn_read" \in PCs
      BY TaskFacts DEF PCs
    <3>3. /\ k \in TaskStates /\ k.pc = "conn_read" /\ k.kind = task[t].kind /\ k.who = task[t].who
          /\ k.todo = task[t].todo
      BY <3>2 DEF TaskStates
    <3> HIDE DEF k
    <3>4. TaskOK(k)
      BY <2>1, <3>3, TaskFacts DEF TaskOK, Holding, Joining, Kicking
    <3>5. Place(k)
      BY <3>3 DEF Place
    <3> QED BY <2>5, <3>1, <3>3, <3>4, <3>5, OneStep
  <2> QED BY <1>2, <2>6, <2>7, SMTT(30) DEF ConnMember
<1>3. CASE ConnRead(t)
  <2>1. task[t].pc = "conn_read" /\ UNCHANGED <<stores, network, faults, trial, history>>
    BY <1>3 DEF ConnRead, Read, At
  <2>2. CASE Goto(t, "contract_read")
    <3>1. "contract_read" \in PCs
      BY DEF PCs
    <3> QED BY <2>1, <2>2, <3>1, StillTyped, GotoStep DEF Holding, Serving, Joining, Kicking
  <2>3. CASE /\ cache # NoOne /\ cache.members[task[t].who] # NoOne
             /\ task' = [task EXCEPT ![t].pc = "conn_save", ![t].seen = cache]
    BY <2>1, <2>3, ReadEntryStep DEF Serving
  <2> QED BY <1>3, <2>2, <2>3 DEF ConnRead, Read, HasEntry
<1>4. CASE ConnSave(t)
  <2> DEFINE u == task[t].who
             c == [task[t].seen EXCEPT !.members[u].sock = task[t].sock]
             e == [task[t].seen.members[u] EXCEPT !.sock = task[t].sock]
  <2>1. task[t].pc = "conn_save" /\ Save(t, "conn_save", "contract_read", c)
    BY <1>4 DEF ConnSave, Save, At
  <2>2. task[t].seen \in States /\ u \in Users /\ task[t].seen.members[u] # NoOne
    BY <2>1, TaskFacts DEF TaskOK, Holding, Serving
  <2>3. task[t].seen.members[u] \in Entry /\ task[t].sock \in Sockets \cup {NoOne}
    BY <2>2, MemberType, TaskFacts DEF TaskStates
  <2>4. e \in Entry
    BY <2>3 DEF Entry
  <2>5. c = [task[t].seen EXCEPT !.members[u] = e]
    BY <2>2 DEF States
  <2>6. c \in States
    BY <2>2, <2>4, <2>5, EntryType
  <2>7. agreed' \subseteq Users /\ twice' \subseteq Users /\ visited' \in BOOLEAN
    BY <1>4 DEF ConnSave, IInv, Typed
  <2>8. "contract_read" \in PCs
    BY DEF PCs
  <2> HIDE DEF c
  <2> QED BY <2>1, <2>6, <2>7, <2>8, SaveStep DEF Holding, Serving, Joining, Kicking
<1> QED BY <1>1, <1>2, <1>3, <1>4

\* A save of a state that is of its type.
LEMMA PlainSave ==
  ASSUME IInv, NEW t \in Tasks, NEW from, NEW to \in PCs \cup {"return"}, NEW c \in States,
         Save(t, from, to, c),
         to \in {"return", "contract_db", "drop_count", "kick_ban"}, to = "kick_ban" => from \in Kicking,
         agreed' \subseteq agreed, UNCHANGED <<twice, visited>>
  PROVE  IInv'
<1>1. agreed' \subseteq Users /\ twice' \subseteq Users /\ visited' \in BOOLEAN
  BY DEF IInv, Typed
<1> QED BY <1>1, SaveStep DEF Holding, Serving, Joining, Kicking

LEMMA ContractStep ==
  ASSUME IInv, NEW t \in Tasks, ContractRead(t) \/ ContractSave(t) \/ ContractDB(t)
  PROVE  IInv'
<1>1. CASE ContractRead(t)
  <2>1. CASE Return(t)
    BY <1>1, <2>1, StillTyped, ReturnStep DEF ContractRead, Read
  <2>2. CASE cache # NoOne /\ task' = [task EXCEPT ![t].pc = "contract_save", ![t].seen = cache]
    BY <1>1, <2>2, ReadStep DEF ContractRead, Read, At, Holding, Serving, Joining, Kicking
  <2> QED BY <1>1, <2>1, <2>2 DEF ContractRead, Read
<1>2. CASE ContractSave(t)
  <2> DEFINE c == [task[t].seen EXCEPT !.phase = "contract"]
  <2>1. task[t].pc = "contract_save" /\ Save(t, "contract_save", "contract_db", c) /\ UNCHANGED history
    BY <1>2 DEF ContractSave, Save, At
  <2>2. task[t].seen \in States
    BY <2>1, TaskFacts DEF TaskOK, Holding
  <2>3. c \in States
    BY <2>2, PhaseType DEF Phases
  <2>4. "contract_db" \in PCs /\ agreed' \subseteq agreed /\ UNCHANGED <<twice, visited>>
    BY <2>1 DEF PCs, history
  <2> HIDE DEF c
  <2> QED BY <2>1, <2>3, <2>4, PlainSave
<1>3. CASE ContractDB(t)
  <2>1. Typed' /\ rows' \subseteq rows /\ UNCHANGED trial
    BY <1>3 DEF ContractDB, IInv, Typed, Phases, network, trial, history
  <2> QED BY <1>3, <2>1, ReturnStep DEF ContractDB
<1> QED BY <1>1, <1>2, <1>3

LEMMA DropStep ==
  ASSUME IInv, NEW t \in Tasks, DropCheck(t) \/ DropRead(t) \/ DropSave(t) \/ DropCount(t)
  PROVE  IInv'
<1>1. CASE DropCheck(t)
  <2>1. CASE Return(t)
    BY <1>1, <2>1, StillTyped, ReturnStep DEF DropCheck, Read
  <2>2. CASE cache # NoOne /\ task' = [task EXCEPT ![t].pc = "drop_read", ![t].seen = cache]
    BY <1>1, <2>2, ReadStep DEF DropCheck, Read, At, Holding, Serving, Joining, Kicking
  <2> QED BY <1>1, <2>1, <2>2 DEF DropCheck, Read
<1>2. CASE DropRead(t)
  <2>1. task[t].pc = "drop_read" /\ UNCHANGED <<stores, network, faults, trial, history>>
    BY <1>2 DEF DropRead, Read, At
  <2>2. CASE Goto(t, "drop_count")
    <3>1. "drop_count" \in PCs
      BY DEF PCs
    <3> QED BY <2>1, <2>2, <3>1, StillTyped, GotoStep DEF Holding, Serving, Joining, Kicking
  <2>3. CASE /\ cache # NoOne /\ cache.members[task[t].who] # NoOne
             /\ task' = [task EXCEPT ![t].pc = "drop_save", ![t].seen = cache]
    BY <2>1, <2>3, ReadEntryStep DEF Serving
  <2> QED BY <1>2, <2>2, <2>3 DEF DropRead, Read, HasEntry
<1>3. CASE DropSave(t)
  <2> DEFINE u == task[t].who
             c == [task[t].seen EXCEPT !.members[u].sock = NoOne]
             e == [task[t].seen.members[u] EXCEPT !.sock = NoOne]
  <2>1. task[t].pc = "drop_save" /\ Save(t, "drop_save", "drop_count", c) /\ UNCHANGED history
    BY <1>3 DEF DropSave, Save, At
  <2>2. task[t].seen \in States /\ u \in Users /\ task[t].seen.members[u] # NoOne
    BY <2>1, TaskFacts DEF TaskOK, Holding, Serving
  <2>3. task[t].seen.members[u] \in Entry
    BY <2>2, MemberType
  <2>4. e \in Entry
    BY <2>3 DEF Entry
  <2>5. c = [task[t].seen EXCEPT !.members[u] = e]
    BY <2>2 DEF States
  <2>6. c \in States
    BY <2>2, <2>4, <2>5, EntryType
  <2>7. "drop_count" \in PCs /\ agreed' \subseteq agreed /\ UNCHANGED <<twice, visited>>
    BY <2>1 DEF PCs, history
  <2> HIDE DEF c
  <2> QED BY <2>1, <2>6, <2>7, PlainSave
<1>4. CASE DropCount(t)
  <2>1. Typed' /\ rows' \subseteq rows /\ UNCHANGED trial
    BY <1>4 DEF DropCount, IInv, Typed, stores, trial, history
  <2> QED BY <1>4, <2>1, ReturnStep DEF DropCount
<1> QED BY <1>1, <1>2, <1>3, <1>4

\* The end of a connection in its handshake.
LEMMA EarlyStep ==
  ASSUME IInv, NEW s \in Sockets, DropEarly(s)
  PROVE  IInv'
<1>1. Typed' /\ UNCHANGED <<task, trial, rows>>
  BY DEF DropEarly, IInv, Typed, stores, trial, history
<1> QED BY <1>1, StillStep

-----------------------------------------------------------------------------
(* The cleanup, leaving and kicks *)

LEMMA CleanupStep ==
  ASSUME IInv, NEW t \in Tasks, CleanupActive(t) \/ CleanupCount(t) \/ Delete(t)
  PROVE  IInv'
<1>1. CASE CleanupActive(t)
  <2>1. Typed' /\ rows' \subseteq rows /\ UNCHANGED trial
    BY <1>1 DEF CleanupActive, CleanupDone, IInv, Typed, stores, trial, history
  <2>2. CASE Return(t)
    BY <2>1, <2>2, ReturnStep
  <2>3. CASE Goto(t, "cleanup_count")
    <3>1. task[t].kind = "cleanup" /\ "cleanup_count" \in PCs
      BY <1>1, TaskFacts DEF CleanupActive, At, TaskOK, PCs
    <3> QED BY <2>1, <2>3, <3>1, GotoStep DEF Holding, Serving, Joining, Kicking
  <2> QED BY <1>1, <2>2, <2>3 DEF CleanupActive, CleanupDone
<1>2. CASE CleanupCount(t)
  <2>1. Typed' /\ rows' \subseteq rows /\ UNCHANGED trial
    BY <1>2 DEF CleanupCount, CleanupDone, IInv, Typed, stores, trial, history
  <2>2. CASE Return(t)
    BY <2>1, <2>2, ReturnStep
  <2>3. CASE task' = [task EXCEPT ![t].pc = "delete", ![t].todo = {"state", "phase"}]
    <3> DEFINE k == [task[t] EXCEPT !.pc = "delete", !.todo = {"state", "phase"}]
    <3>1. task' = [task EXCEPT ![t] = k]
      BY <2>3, TaskFacts
    <3>2. task[t] \in TaskStates /\ "delete" \in PCs /\ task[t].kind = "cleanup"
      BY <1>2, TaskFacts DEF CleanupCount, At, TaskOK, PCs
    <3>3. k \in TaskStates /\ k.pc = "delete" /\ k.kind = "cleanup"
      BY <3>2 DEF TaskStates
    <3> HIDE DEF k
    <3>4. TaskOK(k)
      BY <3>3 DEF TaskOK, Holding, Serving, Joining, Kicking
    <3>5. Place(k)
      BY <3>3 DEF Place
    <3> QED BY <2>1, <3>1, <3>2, <3>3, <3>4, <3>5, OneStep
  <2> QED BY <1>2, <2>2, <2>3 DEF CleanupCount, CleanupDone
<1>3. CASE Delete(t)
  <2>1. Typed' /\ rows' \subseteq rows /\ UNCHANGED trial
    <3>1. phase' \in Phases /\ cache' \in States \cup {NoOne}
      BY <1>3 DEF Delete, IInv, Typed, Phases
    <3>2. dying' \subseteq Sockets /\ timer' \subseteq {"held", "loose"}
      BY <1>3 DEF Delete, CleanupDone, IInv, Typed
    <3> QED BY <1>3, <3>1, <3>2 DEF Delete, IInv, Typed, trial, history
  <2>2. CASE Return(t)
    BY <2>1, <2>2, ReturnStep
  <2>3. CASE \E w \in task[t].todo : task' = [task EXCEPT ![t].todo = @ \ {w}]
    <3>1. PICK w : task' = [task EXCEPT ![t].todo = @ \ {w}]
      BY <2>3
    <3> DEFINE k == [task[t] EXCEPT !.todo = @ \ {w}]
    <3>2. task' = [task EXCEPT ![t] = k]
      BY <3>1, TaskFacts
    <3>3. task[t] \in TaskStates /\ TaskOK(task[t]) /\ task[t].pc = "delete"
      BY <1>3, TaskFacts DEF Delete, At
    <3>4. task[t].todo \ {w} \in (SUBSET (Users \X (Sockets \cup {NoOne}))) \cup (SUBSET {"state", "phase"})
      BY <3>3 DEF TaskStates
    <3>5. k \in TaskStates /\ k.pc = "delete" /\ k.kind = task[t].kind /\ k.todo = task[t].todo \ {w}
      BY <3>3, <3>4 DEF TaskStates
    <3> HIDE DEF k
    <3>6. TaskOK(k)
      BY <3>3, <3>5 DEF TaskOK, Holding, Serving, Joining, Kicking
    <3>7. Place(k)
      BY <3>5 DEF Place
    <3> QED BY <2>1, <3>2, <3>5, <3>6, <3>7, OneStep
  <2> QED BY <1>3, <2>2, <2>3 DEF Delete, CleanupDone
<1> QED BY <1>1, <1>2, <1>3

\* A member's entry is taken out of the state that was read.
LEMMA GoneSave ==
  ASSUME IInv, NEW t \in Tasks, NEW from \in {"leave_save", "kick_save"},
         NEW to \in {"return", "kick_ban"}, to = "kick_ban" => from \in Kicking,
         Save(t, from, to, [task[t].seen EXCEPT !.members[task[t].who] = NoOne]),
         agreed' = agreed \ {task[t].who}, UNCHANGED <<twice, visited>>
  PROVE  IInv'
<1> DEFINE c == [task[t].seen EXCEPT !.members[task[t].who] = NoOne]
<1>1. task[t].pc = from
  BY DEF Save, At
<1>2. task[t].seen \in States /\ task[t].who \in Users
  BY <1>1, TaskFacts DEF TaskOK, Holding, Serving, Kicking
<1>3. c \in States
  BY <1>2, EntryType
<1>4. to \in PCs \cup {"return"} /\ agreed' \subseteq agreed
  BY DEF PCs
<1> HIDE DEF c
<1> QED BY <1>3, <1>4, PlainSave DEF c

LEMMA LeaveStep ==
  ASSUME IInv, NEW t \in Tasks, LeaveRow(t) \/ LeaveRead(t) \/ LeaveSave(t)
  PROVE  IInv'
<1>1. CASE LeaveRow(t)
  <2>1. Typed' /\ rows' \subseteq rows /\ UNCHANGED trial
    BY <1>1 DEF LeaveRow, IInv, Typed, network, trial, history
  <2>2. task[t].pc = "leave_row" /\ Goto(t, "leave_read") /\ "leave_read" \in PCs
    BY <1>1 DEF LeaveRow, At, PCs
  <2> QED BY <2>1, <2>2, GotoStep DEF Holding, Serving, Joining, Kicking
<1>2. CASE LeaveRead(t)
  <2>1. CASE Return(t)
    BY <1>2, <2>1, StillTyped, ReturnStep DEF LeaveRead, Read
  <2>2. CASE cache # NoOne /\ task' = [task EXCEPT ![t].pc = "leave_save", ![t].seen = cache]
    BY <1>2, <2>2, ReadStep DEF LeaveRead, Read, At, Holding, Serving, Joining, Kicking
  <2> QED BY <1>2, <2>1, <2>2 DEF LeaveRead, Read
<1>3. CASE LeaveSave(t)
  BY <1>3, GoneSave DEF LeaveSave
<1> QED BY <1>1, <1>2, <1>3

LEMMA KickStep ==
  ASSUME IInv, NEW t \in Tasks,
         KickHost(t) \/ KickRow(t) \/ KickRead(t) \/ KickSave(t) \/ KickBan(t) \/ KickSocket(t)
  PROVE  IInv'
<1>1. CASE KickHost(t)
  <2>1. CASE Return(t)
    BY <1>1, <2>1, StillTyped, ReturnStep DEF KickHost
  <2>2. CASE Goto(t, "kick_row")
    <3>1. task[t].pc = "kick_host" /\ "kick_row" \in PCs
      BY <1>1 DEF KickHost, At, PCs
    <3> QED BY <1>1, <2>2, <3>1, StillTyped, GotoStep DEF KickHost, Holding, Serving, Joining, Kicking
  <2> QED BY <1>1, <2>1, <2>2 DEF KickHost
<1>2. CASE KickRow(t)
  <2>1. Typed' /\ rows' \subseteq rows /\ UNCHANGED trial
    BY <1>2 DEF KickRow, IInv, Typed, network, trial, history
  <2>2. task[t].pc = "kick_row" /\ Goto(t, "kick_read") /\ "kick_read" \in PCs
    BY <1>2 DEF KickRow, At, PCs
  <2> QED BY <2>1, <2>2, GotoStep DEF Holding, Serving, Joining, Kicking
<1>3. CASE KickRead(t)
  <2>1. task[t].pc = "kick_read" /\ UNCHANGED <<stores, network, faults, trial, history>>
    BY <1>3 DEF KickRead, Read, At
  <2>2. CASE Goto(t, "kick_ban")
    <3>1. "kick_ban" \in PCs
      BY DEF PCs
    <3> QED BY <2>1, <2>2, <3>1, StillTyped, GotoStep DEF Holding, Serving, Joining, Kicking
  <2>3. CASE cache # NoOne /\ task' = [task EXCEPT ![t].pc = "kick_save", ![t].seen = cache]
    BY <2>1, <2>3, ReadStep DEF Holding, Serving, Joining, Kicking
  <2> QED BY <1>3, <2>2, <2>3 DEF KickRead, Read
<1>4. CASE KickSave(t)
  BY <1>4, GoneSave DEF KickSave, Kicking
<1>5. CASE KickBan(t)
  <2>1. task[t].pc = "kick_ban" /\ Goto(t, "kick_socket") /\ "kick_socket" \in PCs
    BY <1>5 DEF KickBan, At, PCs
  <2>2. task[t].who \in Users
    BY <2>1, TaskFacts DEF TaskOK, Serving, Kicking
  <2>3. Typed' /\ rows' \subseteq rows /\ UNCHANGED trial
    BY <1>5, <2>2 DEF KickBan, IInv, Typed, network, trial, history
  <2> QED BY <2>1, <2>3, GotoStep DEF Holding, Serving, Joining, Kicking
<1>6. CASE KickSocket(t)
  <2>1. task[t].pc = "kick_socket" /\ task[t].who \in Users
    BY <1>6, TaskFacts DEF KickSocket, At, TaskOK, Serving, Kicking
  <2>2. dying' \subseteq Sockets
    <3>1. task[t].sock \in Sockets \cup {NoOne}
      BY TaskFacts DEF TaskStates
    <3>2. Joined(task[t].who) \subseteq Sockets
      BY DEF Joined
    <3> QED BY <1>6, <3>1, <3>2 DEF KickSocket, IInv, Typed
  <2>3. Typed' /\ rows' \subseteq rows /\ UNCHANGED trial
    BY <1>6, <2>1, <2>2 DEF KickSocket, IInv, Typed, stores, trial
  <2>4. CASE Return(t)
    BY <2>3, <2>4, ReturnStep
  <2>5. CASE task[t].kind = "force" /\ Goto(t, "force_next")
    <3>1. "force_next" \in PCs
      BY DEF PCs
    <3> QED BY <2>1, <2>3, <2>5, <3>1, GotoStep DEF Holding, Serving, Joining, Kicking
  <2> QED BY <1>6, <2>4, <2>5 DEF KickSocket
<1> QED BY <1>1, <1>2, <1>3, <1>4, <1>5, <1>6

\* A rejected call of a kick.
LEMMA FaultStep ==
  ASSUME IInv, NEW t \in Tasks, KickFault(t)
  PROVE  IInv'
<1>1. Typed' /\ rows' \subseteq rows /\ UNCHANGED trial
  BY DEF KickFault, IInv, Typed, stores, network, trial, history
<1>2. CASE Return(t)
  BY <1>1, <1>2, ReturnStep
<1>3. /\ task[t] \in TaskStates /\ task[t].who \in Users /\ task[t].kind \in {"kick", "force"}
      /\ task[t].kind = "force" => task[t].todo \subseteq Users \X (Sockets \cup {NoOne})
  BY TaskFacts DEF KickFault, TaskOK, Serving, Kicking
<1>4. CASE task' = [task EXCEPT ![t].pc = "kick_row", ![t].seen = NoOne, ![t].tries = @ + 1]
  <2> DEFINE next == task[t].tries + 1
             k == [task[t] EXCEPT !.pc = "kick_row", !.seen = NoOne, !.tries = next]
  <2>1. task' = [task EXCEPT ![t] = k]
    BY <1>4, TaskFacts
  <2>2. "kick_row" \in PCs /\ next \in Nat
    BY <1>3 DEF PCs, TaskStates
  <2> HIDE DEF next
  <2>3. /\ k \in TaskStates /\ k.pc = "kick_row" /\ k.kind = task[t].kind /\ k.who = task[t].who
        /\ k.todo = task[t].todo
    BY <1>3, <2>2 DEF TaskStates
  <2> HIDE DEF k
  <2>4. TaskOK(k)
    BY <1>3, <2>3 DEF TaskOK, Holding, Joining
  <2>5. Place(k)
    BY <2>3 DEF Place
  <2> QED BY <1>1, <2>1, <2>3, <2>4, <2>5, OneStep
<1>5. CASE /\ task[t].kind # "kick"
           /\ task' = [task EXCEPT ![t].pc = "force_next", ![t].seen = NoOne, ![t].flag = TRUE]
  <2> DEFINE k == [task[t] EXCEPT !.pc = "force_next", !.seen = NoOne, !.flag = TRUE]
  <2>1. task' = [task EXCEPT ![t] = k]
    BY <1>5, TaskFacts
  <2>2. "force_next" \in PCs
    BY DEF PCs
  <2>3. /\ k \in TaskStates /\ k.pc = "force_next" /\ k.kind = task[t].kind /\ k.todo = task[t].todo
    BY <1>3, <2>2 DEF TaskStates
  <2> HIDE DEF k
  <2>4. TaskOK(k)
    BY <1>3, <1>5, <2>3 DEF TaskOK, Holding, Serving, Joining, Kicking
  <2>5. Place(k)
    BY <2>3 DEF Place
  <2> QED BY <1>1, <2>1, <2>3, <2>4, <2>5, OneStep
<1> QED BY <1>2, <1>4, <1>5 DEF KickFault

-----------------------------------------------------------------------------
(* Starts *)

LEMMA StartStep ==
  ASSUME IInv, NEW t \in Tasks,
         EntrySave(t) \/ StartSign(t) \/ StartDB(t) \/ StartRead(t) \/ StartSave(t) \/ ForceCheck(t)
  PROVE  IInv'
<1>a. "start_db" \in PCs /\ "start_read" \in PCs
  BY DEF PCs
<1>1. CASE EntrySave(t)
  <2>1. task[t].pc = "entry_save" /\ Save(t, "entry_save", "return", task[t].seen) /\ UNCHANGED history
    BY <1>1 DEF EntrySave, Save, At
  <2>2. PICK c \in States : c = task[t].seen
    BY <2>1, TaskFacts DEF TaskOK, Holding
  <2>3. agreed' \subseteq agreed /\ UNCHANGED <<twice, visited>>
    BY <2>1 DEF history
  <2>4. Save(t, "entry_save", "return", c)
    BY <2>1, <2>2
  <2> QED BY <2>3, <2>4, PlainSave
<1>2. CASE StartSign(t)
  <2>1. CASE Return(t)
    BY <1>2, <2>1, StillTyped, ReturnStep DEF StartSign
  <2>2. CASE Goto(t, "start_db")
    BY <1>2, <1>a, <2>2, StillTyped, GotoStep DEF StartSign, Holding, Serving, Joining, Kicking
  <2> QED BY <1>2, <2>1, <2>2 DEF StartSign
<1>3. CASE StartDB(t)
  <2>1. Typed' /\ rows' \subseteq rows /\ UNCHANGED trial
    BY <1>3 DEF StartDB, IInv, Typed, Phases, network, trial, history
  <2> QED BY <1>3, <1>a, <2>1, GotoStep DEF StartDB, Holding, Serving, Joining, Kicking
<1>4. CASE StartRead(t)
  <2>1. CASE Return(t)
    BY <1>4, <2>1, StillTyped, ReturnStep DEF StartRead, Read
  <2>2. CASE cache # NoOne /\ task' = [task EXCEPT ![t].pc = "start_save", ![t].seen = cache]
    BY <1>4, <2>2, ReadStep DEF StartRead, Read, At, Holding, Serving, Joining, Kicking
  <2> QED BY <1>4, <2>1, <2>2 DEF StartRead, Read
<1>5. CASE StartSave(t)
  <2> DEFINE c == [task[t].seen EXCEPT !.phase = "timer"]
  <2>1. task[t].pc = "start_save" /\ Save(t, "start_save", "return", c) /\ UNCHANGED history
    BY <1>5 DEF StartSave, Save, At
  <2>2. task[t].seen \in States
    BY <2>1, TaskFacts DEF TaskOK, Holding
  <2>3. c \in States
    BY <2>2, PhaseType DEF Phases
  <2>4. agreed' \subseteq agreed /\ UNCHANGED <<twice, visited>>
    BY <2>1 DEF history
  <2> HIDE DEF c
  <2> QED BY <2>1, <2>3, <2>4, PlainSave
<1>6. CASE ForceCheck(t)
  <2>1. CASE Return(t)
    BY <1>6, <2>1, StillTyped, ReturnStep DEF ForceCheck
  <2>2. CASE Goto(t, "start_db")
    BY <1>6, <1>a, <2>2, StillTyped, GotoStep, SMTT(30) DEF ForceCheck, Holding, Serving, Joining, Kicking
  <2> QED BY <1>6, <2>1, <2>2 DEF ForceCheck
<1> QED BY <1>1, <1>2, <1>3, <1>4, <1>5, <1>6

LEMMA ForceStep ==
  ASSUME IInv, NEW t \in Tasks, ForceSign(t) \/ ForceNext(t)
  PROVE  IInv'
<1>a. /\ {"start_db", "force_next", "kick_row", "force_check"} \subseteq PCs
      /\ task[t] \in TaskStates /\ task[t].kind = "force"
  BY TaskFacts DEF PCs, ForceSign, ForceNext, At, TaskOK
<1>b. UNCHANGED <<stores, network, faults, trial, history>>
  BY DEF ForceSign, ForceNext
<1>c. Typed' /\ rows' \subseteq rows /\ UNCHANGED trial
  BY <1>b, StillTyped
<1>1. CASE Return(t)
  BY <1>1, <1>c, ReturnStep
<1>2. CASE Goto(t, "start_db")
  BY <1>2, <1>a, <1>c, GotoStep DEF Holding, Serving, Joining, Kicking
<1>3. CASE Goto(t, "force_check")
  BY <1>3, <1>a, <1>c, GotoStep DEF Holding, Serving, Joining, Kicking
<1>4. CASE \E f \in [Unsigned(cache) -> Sockets \cup {NoOne}] :
             task' = [task EXCEPT ![t].pc = "force_next", ![t].todo = {<<u, f[u]>> : u \in Unsigned(cache)}]
  <2>1. PICK f \in [Unsigned(cache) -> Sockets \cup {NoOne}] :
          task' = [task EXCEPT ![t].pc = "force_next", ![t].todo = {<<u, f[u]>> : u \in Unsigned(cache)}]
    BY <1>4
  <2> DEFINE goers == {<<u, f[u]>> : u \in Unsigned(cache)}
             k == [task[t] EXCEPT !.pc = "force_next", !.todo = goers]
  <2>2. task' = [task EXCEPT ![t] = k]
    BY <2>1, TaskFacts
  <2>3. goers \subseteq Users \X (Sockets \cup {NoOne})
    <3>1. Unsigned(cache) \subseteq Users
      BY DEF Unsigned
    <3> QED BY <3>1
  <2> HIDE DEF goers
  <2>4. k \in TaskStates /\ k.pc = "force_next" /\ k.kind = "force" /\ k.todo = goers
    BY <1>a, <2>3 DEF TaskStates
  <2> HIDE DEF k
  <2>5. TaskOK(k)
    BY <2>3, <2>4 DEF TaskOK, Holding, Serving, Joining, Kicking
  <2>6. Place(k)
    BY <2>4 DEF Place
  <2> QED BY <1>a, <1>c, <2>2, <2>4, <2>5, <2>6, OneStep
<1>5. CASE \E p \in task[t].todo :
             task' = [task EXCEPT ![t].pc = "kick_row", ![t].todo = @ \ {p},
                                  ![t].who = p[1], ![t].sock = p[2], ![t].tries = 0]
  <2>1. PICK p \in task[t].todo :
             task' = [task EXCEPT ![t].pc = "kick_row", ![t].todo = @ \ {p},
                                  ![t].who = p[1], ![t].sock = p[2], ![t].tries = 0]
    BY <1>5
  <2>2. task[t].todo \subseteq Users \X (Sockets \cup {NoOne})
    BY <1>a, TaskFacts DEF TaskOK
  <2>3. PICK u \in Users, s \in Sockets \cup {NoOne} : p = <<u, s>>
    BY <2>1, <2>2
  <2> DEFINE rest == task[t].todo \ {p}
             k == [task[t] EXCEPT !.pc = "kick_row", !.todo = rest, !.who = u, !.sock = s, !.tries = 0]
  <2>4. task' = [task EXCEPT ![t] = k]
    BY <2>1, <2>3, TaskFacts
  <2>5. rest \subseteq Users \X (Sockets \cup {NoOne})
    BY <2>2
  <2> HIDE DEF rest
  <2>6. k \in TaskStates /\ k.pc = "kick_row" /\ k.kind = "force" /\ k.who = u /\ k.todo = rest
    BY <1>a, <2>5 DEF TaskStates
  <2> HIDE DEF k
  <2>7. TaskOK(k)
    BY <2>5, <2>6 DEF TaskOK, Holding, Joining
  <2>8. Place(k)
    BY <2>6 DEF Place
  <2> QED BY <1>a, <1>c, <2>4, <2>6, <2>7, <2>8, OneStep
<1> QED BY <1>1, <1>2, <1>3, <1>4, <1>5, Zenon DEF ForceSign, ForceNext

-----------------------------------------------------------------------------
(* Handlers start *)

\* A handler that serves u, and one that carries a socket or a copy.
LEMMA NewType ==
  ASSUME NEW kind \in Kinds, NEW pc \in PCs, NEW u \in Users \cup {NoOne}
  PROVE  /\ New(kind, pc, u) \in TaskStates
         /\ New(kind, pc, u).kind = kind /\ New(kind, pc, u).pc = pc /\ New(kind, pc, u).who = u
         /\ New(kind, pc, u).todo = {}
BY DEF New, Idle, TaskStates

LEMMA NewOK ==
  ASSUME NEW kind \in Kinds \ {"join"}, NEW pc \in PCs \ (Holding \cup Joining), NEW u \in Users \cup {NoOne},
         NEW k \in TaskStates, k.kind = kind, k.pc = pc, k.who = u, k.todo = {},
         pc \in Serving => u \in Users,
         pc \in {"force_sign", "force_next"} => kind = "force",
         pc \in {"cleanup_active", "cleanup_count"} => kind = "cleanup",
         pc \in Kicking => kind = "kick"
  PROVE  TaskOK(k) /\ Place(k)
BY DEF TaskOK, Place, Holding, Joining

LEMMA PlainStart ==
  ASSUME IInv, NEW t \in Tasks, UNCHANGED <<stores, network, faults, trial, history>>,
         \/ \E u \in Users : Leave(t, u) \/ Kick(t, u)
         \/ \E kind \in {"start", "force"} : Start(t, kind)
  PROVE  IInv'
<1>1. Typed' /\ UNCHANGED <<rows, trial>>
  BY StillTyped DEF stores
<1>2. CASE \E u \in Users : Leave(t, u)
  <2>1. PICK u \in Users : Issue(t, New("leave", "leave_row", u))
    BY <1>2 DEF Leave
  <2>2. "leave" \in Kinds \ {"join"} /\ "leave_row" \in PCs \ (Holding \cup Joining)
    BY DEF Kinds, PCs, Holding, Joining
  <2>3. TaskOK(New("leave", "leave_row", u)) /\ Place(New("leave", "leave_row", u))
    BY <2>2, NewType, NewOK DEF Kicking
  <2> QED BY <1>1, <2>1, <2>3, IssueStep
<1>3. CASE \E u \in Users : Kick(t, u)
  <2>1. PICK u \in Users : Issue(t, New("kick", "kick_host", u))
    BY <1>3 DEF Kick
  <2>2. "kick" \in Kinds \ {"join"} /\ "kick_host" \in PCs \ (Holding \cup Joining)
    BY DEF Kinds, PCs, Holding, Joining
  <2>3. TaskOK(New("kick", "kick_host", u)) /\ Place(New("kick", "kick_host", u))
    BY <2>2, NewType, NewOK
  <2> QED BY <1>1, <2>1, <2>3, IssueStep
<1>4. CASE Start(t, "start")
  <2>1. Issue(t, New("start", "start_sign", Host)) /\ Host \in Users
    BY <1>4, PresenceAssumption DEF Start
  <2>2. "start" \in Kinds \ {"join"} /\ "start_sign" \in PCs \ (Holding \cup Joining)
    BY DEF Kinds, PCs, Holding, Joining
  <2>3. TaskOK(New("start", "start_sign", Host)) /\ Place(New("start", "start_sign", Host))
    BY <2>1, <2>2, NewType, NewOK DEF Kicking
  <2> QED BY <1>1, <2>1, <2>3, IssueStep
<1>5. CASE Start(t, "force")
  <2>1. Issue(t, New("force", "force_sign", Host)) /\ Host \in Users
    BY <1>5, PresenceAssumption DEF Start
  <2>2. "force" \in Kinds \ {"join"} /\ "force_sign" \in PCs \ (Holding \cup Joining)
    BY DEF Kinds, PCs, Holding, Joining
  <2>3. TaskOK(New("force", "force_sign", Host)) /\ Place(New("force", "force_sign", Host))
    BY <2>1, <2>2, NewType, NewOK DEF Kicking
  <2> QED BY <1>1, <2>1, <2>3, IssueStep
<1> QED BY <1>2, <1>3, <1>4, <1>5

LEMMA JoinStart ==
  ASSUME IInv, NEW t \in Tasks, NEW u \in Users, Join(t, u)
  PROVE  IInv'
<1> DEFINE room == phase # "timer" /\ Cardinality(rows) < capacity
           k == [New("join", "join_ban", u) EXCEPT !.flag = room]
<1>1. Issue(t, k) /\ UNCHANGED <<stores, network, faults, trial, history>>
  BY DEF Join
<1>2. Typed' /\ UNCHANGED <<rows, trial>>
  BY <1>1, StillTyped DEF stores
<1>3. room \in BOOLEAN /\ (room => Cardinality(rows) < capacity)
  OBVIOUS
<1> HIDE DEF room
<1>4. /\ k \in TaskStates /\ k.kind = "join" /\ k.pc = "join_ban" /\ k.who = u /\ k.todo = {}
      /\ k.flag = room
  <2>1. "join" \in Kinds /\ "join_ban" \in PCs
    BY DEF Kinds, PCs
  <2>2. /\ New("join", "join_ban", u) \in TaskStates
        /\ New("join", "join_ban", u).kind = "join" /\ New("join", "join_ban", u).pc = "join_ban"
        /\ New("join", "join_ban", u).who = u /\ New("join", "join_ban", u).todo = {}
    BY <2>1, NewType
  <2> DEFINE n == New("join", "join_ban", u)
  <2> HIDE DEF n
  <2>3. n \in TaskStates /\ n.kind = "join" /\ n.pc = "join_ban" /\ n.who = u /\ n.todo = {}
    BY <2>2 DEF n
  <2>4. [n EXCEPT !.flag = room] \in TaskStates
    BY <1>3, <2>3 DEF TaskStates
  <2>5. k = [n EXCEPT !.flag = room]
    BY DEF n
  <2> QED BY <2>3, <2>4, <2>5 DEF TaskStates
<1> HIDE DEF k
<1>5. TaskOK(k)
  BY <1>4 DEF TaskOK, Holding, Kicking
<1>6. Place(k)
  BY <1>3, <1>4 DEF Place
<1> QED BY <1>1, <1>2, <1>5, <1>6, IssueStep

\* A handler that only writes back the state it was started with.
LEMMA SaveStart ==
  ASSUME IInv, NEW t \in Tasks, NEW kind \in Kinds \ {"join", "force"}, NEW u \in Users, NEW c \in States,
         Issue(t, [New(kind, "entry_save", u) EXCEPT !.seen = c]),
         UNCHANGED <<stores, network, faults, trial, twice, visited>>, agreed' \subseteq Users
  PROVE  IInv'
<1> DEFINE n == New(kind, "entry_save", u)
           k == [n EXCEPT !.seen = c]
<1>1. "entry_save" \in PCs
  BY DEF PCs
<1>2. /\ n \in TaskStates /\ n.kind = kind /\ n.pc = "entry_save" /\ n.who = u /\ n.todo = {}
  BY <1>1, NewType
<1> HIDE DEF n
<1>3. k \in TaskStates /\ k.kind = kind /\ k.pc = "entry_save" /\ k.seen = c
  BY <1>2 DEF TaskStates
<1>4. Issue(t, k)
  BY DEF n
<1> HIDE DEF k
<1>5. TaskOK(k) /\ Place(k)
  BY <1>3 DEF TaskOK, Place, Serving, Joining, Kicking
<1>6. Typed' /\ UNCHANGED <<rows, trial>>
  BY DEF IInv, Typed, stores, network, trial
<1> QED BY <1>4, <1>5, <1>6, IssueStep

LEMMA SignStart ==
  ASSUME IInv, NEW t \in Tasks, NEW u \in Users, NEW b \in BOOLEAN, Sign(t, u, b)
  PROVE  IInv'
<1>1. cache \in States /\ cache.members[u] \in Entry
  BY MemberType DEF Sign, In, IInv, Typed
<1> DEFINE e == [cache.members[u] EXCEPT !.signed = b]
           c == [cache EXCEPT !.members[u].signed = b]
<1>2. e \in Entry \cup {NoOne} /\ c = [cache EXCEPT !.members[u] = e]
  BY <1>1 DEF Entry
<1>3. c \in States
  BY <1>1, <1>2, EntryType
<1>4. /\ Issue(t, [New("sign", "entry_save", u) EXCEPT !.seen = c])
      /\ UNCHANGED <<stores, network, faults, trial, twice, visited>>
      /\ agreed' \subseteq Users
  BY DEF Sign, IInv, Typed
<1>5. "sign" \in Kinds \ {"join", "force"}
  BY DEF Kinds
<1> HIDE DEF c
<1> QED BY <1>3, <1>4, <1>5, SaveStart

LEMMA EditedStart ==
  ASSUME IInv, NEW t \in Tasks, NEW u \in Users, Edited(t, u)
  PROVE  IInv'
<1>1. CASE UNCHANGED task
  <2>1. Typed' /\ UNCHANGED <<task, trial, rows>>
    BY <1>1 DEF Edited, IInv, Typed, stores, network, trial
  <2> QED BY <2>1, StillStep
<1> DEFINE m == [v \in Users |-> IF In(v) THEN [cache.members[v] EXCEPT !.signed = FALSE]
                                 ELSE cache.members[v]]
           c == [cache EXCEPT !.members = m]
<1>2. CASE Issue(t, [New("edited", "entry_save", u) EXCEPT !.seen = c])
  <2>1. cache \in States
    BY DEF Edited, IInv, Typed
  <2>2. m \in [Users -> Entry \cup {NoOne}]
    <3> SUFFICES ASSUME NEW v \in Users
                 PROVE (IF In(v) THEN [cache.members[v] EXCEPT !.signed = FALSE]
                                 ELSE cache.members[v]) \in Entry \cup {NoOne}
      OBVIOUS
    <3>1. cache.members[v] \in Entry \cup {NoOne}
      BY <2>1, MemberType
    <3> QED BY <3>1 DEF In, Entry
  <2>3. c \in States
    <3> HIDE DEF m
    <3> QED BY <2>1, <2>2 DEF States
  <2>4. "edited" \in Kinds \ {"join", "force"}
    BY DEF Kinds
  <2>5. UNCHANGED <<stores, network, faults, trial, twice, visited>> /\ agreed' \subseteq Users
    BY DEF Edited
  <2> HIDE DEF c
  <2> QED BY <1>2, <2>3, <2>4, <2>5, SaveStart
<1> QED BY <1>1, <1>2 DEF Edited

LEMMA PermitStart ==
  ASSUME IInv, NEW t \in Tasks, Permit(t)
  PROVE  IInv'
<1>1. PICK c \in States : c = cache
  BY DEF Permit, IInv, Typed
<1>2. /\ Issue(t, [New("permit", "entry_save", Host) EXCEPT !.seen = c]) /\ Host \in Users
      /\ UNCHANGED <<stores, network, faults, trial, twice, visited>> /\ agreed' \subseteq Users
  BY <1>1, PresenceAssumption DEF Permit, history, IInv, Typed
<1>3. "permit" \in Kinds \ {"join", "force"}
  BY DEF Kinds
<1> QED BY <1>2, <1>3, SaveStart

\* A connection begins or ends.
LEMMA SocketStart ==
  ASSUME IInv, NEW t \in Tasks, NEW s \in Sockets, Connect(t, s) \/ Drop(t, s)
  PROVE  IInv'
<1>1. s[1] \in Users
  BY PresenceAssumption
<1>2. Typed' /\ UNCHANGED <<rows, trial>>
  BY DEF Connect, Drop, IInv, Typed, stores, trial, history
<1>3. ASSUME NEW kind \in {"connect", "drop"}, NEW pc \in {"conn_check", "drop_check"},
             Issue(t, [New(kind, pc, s[1]) EXCEPT !.sock = s])
      PROVE  IInv'
  <2> DEFINE n == New(kind, pc, s[1])
             k == [n EXCEPT !.sock = s]
  <2>1. kind \in Kinds \ {"join"} /\ pc \in PCs \ (Holding \cup Joining)
    BY DEF Kinds, PCs, Holding, Joining
  <2>2. /\ n \in TaskStates /\ n.kind = kind /\ n.pc = pc /\ n.who = s[1] /\ n.todo = {}
    BY <1>1, <2>1, NewType
  <2> HIDE DEF n
  <2>3. k \in TaskStates /\ k.kind = kind /\ k.pc = pc /\ k.who = s[1] /\ k.todo = {}
    BY <2>2 DEF TaskStates
  <2>4. Issue(t, k)
    BY <1>3 DEF n
  <2> HIDE DEF k
  <2>5. TaskOK(k) /\ Place(k)
    BY <1>1, <2>1, <2>3, NewOK DEF Kicking
  <2> QED BY <1>2, <2>4, <2>5, IssueStep
<1> QED BY <1>3 DEF Connect, Drop

LEMMA CleanupStart ==
  ASSUME IInv, NEW t \in Tasks, Cleanup(t)
  PROVE  IInv'
<1>1. Issue(t, New("cleanup", "cleanup_active", NoOne)) /\ timer' \subseteq timer
      /\ UNCHANGED <<stores, socks, dying, faults, trial, history>>
  BY DEF Cleanup
<1>2. Typed' /\ UNCHANGED <<rows, trial>>
  BY <1>1 DEF IInv, Typed, stores, trial, history
<1>3. "cleanup" \in Kinds \ {"join"} /\ "cleanup_active" \in PCs \ (Holding \cup Joining)
  BY DEF Kinds, PCs, Holding, Joining
<1>4. TaskOK(New("cleanup", "cleanup_active", NoOne)) /\ Place(New("cleanup", "cleanup_active", NoOne))
  BY <1>3, NewType, NewOK DEF Serving, Joining, Kicking
<1> QED BY <1>1, <1>2, <1>4, IssueStep

LEMMA HostStart ==
  ASSUME IInv, NEW t \in Tasks, LeaveHost(t)
  PROVE  IInv'
<1> DEFINE n == New("leave", "delete", Host)
           k == [n EXCEPT !.todo = {"state", "phase"}]
<1>1. Issue(t, k) /\ UNCHANGED <<stores, network, faults, trial, history>>
  BY DEF LeaveHost
<1>2. Typed' /\ UNCHANGED <<rows, trial>>
  BY <1>1, StillTyped DEF stores
<1>3. "leave" \in Kinds /\ "delete" \in PCs /\ Host \in Users
  BY PresenceAssumption DEF Kinds, PCs
<1>4. n \in TaskStates /\ n.kind = "leave" /\ n.pc = "delete"
  BY <1>3, NewType
<1> HIDE DEF n
<1>5. k \in TaskStates /\ k.kind = "leave" /\ k.pc = "delete"
  BY <1>4 DEF TaskStates
<1> HIDE DEF k
<1>6. TaskOK(k) /\ Place(k)
  BY <1>5 DEF TaskOK, Place, Holding, Serving, Joining, Kicking
<1> QED BY <1>1, <1>2, <1>6, IssueStep

-----------------------------------------------------------------------------
(* The whole *)

LEMMA InitKeeps == Init => IInv
<1> SUFFICES ASSUME Init PROVE IInv
  OBVIOUS
<1>1. cache \in States
  <2>1. [u \in Users |-> NoOne] \in [Users -> Entry \cup {NoOne}] /\ "lobby" \in Phases
    BY DEF Phases
  <2> QED BY <2>1 DEF Init, States
<1>2. mix \in SUBSET Kinds /\ capacity \in Nat /\ faults \in Nat
  BY PresenceAssumption DEF Init
<1>3. Typed
  BY <1>1, <1>2 DEF Init, Typed, Phases
<1>4. \A t \in Tasks : task[t] = Idle
  BY DEF Init
<1>5. task \in [Tasks -> TaskStates] /\ \A t \in Tasks : TaskOK(task[t])
  BY <1>4, IdleOK DEF Init, TaskOK
<1>6. Fits
  <2>1. Cardinality(rows) = 0
    BY FS_EmptySet DEF Init
  <2>2. \A t \in Tasks : Place(task[t]) /\ task[t].kind # "join"
    BY <1>4, IdleOK
  <2> QED BY <1>2, <2>1, <2>2 DEF Fits
<1> QED BY <1>3, <1>5, <1>6 DEF IInv

LEMMA StepKeeps == IInv /\ [Next]_vars => IInv'
<1> SUFFICES ASSUME IInv, [Next]_vars PROVE IInv'
  OBVIOUS
<1>1. CASE UNCHANGED vars
  <2>1. Typed' /\ UNCHANGED <<task, trial, rows>>
    BY <1>1 DEF vars, stores, network, trial, history, IInv, Typed
  <2> QED BY <2>1, StillStep
<1>2. ASSUME NEW s \in Sockets, DropEarly(s) PROVE IInv'
  <2>1. Typed' /\ UNCHANGED <<task, trial, rows>>
    BY <1>2 DEF DropEarly, stores, trial, history, IInv, Typed
  <2> QED BY <2>1, StillStep
<1>3. ASSUME NEW t \in Tasks, Requests(t) PROVE IInv'
  <2>1. CASE \E u \in Users : Join(t, u)
    BY <2>1, JoinStart
  <2>2. CASE \/ \E u \in Users : Leave(t, u) \/ Kick(t, u)
             \/ \E k \in {"start", "force"} : Start(t, k)
    BY <2>2, PlainStart DEF Leave, Kick, Start
  <2>3. CASE \E u \in Users : Edited(t, u)
    BY <2>3, EditedStart
  <2>4. CASE \E u \in Users, b \in BOOLEAN : Sign(t, u, b)
    BY <2>4, SignStart
  <2>5. CASE \E s \in Sockets : Connect(t, s) \/ Drop(t, s)
    BY <2>5, SocketStart
  <2> QED BY <1>3, <2>1, <2>2, <2>3, <2>4, <2>5, CleanupStart, HostStart, PermitStart DEF Requests
<1>4. ASSUME NEW t \in Tasks, Steps(t) PROVE IInv'
  <2>1. CASE JoinRow(t)
    BY <2>1, RowStep
  <2> QED BY <1>4, <2>1, JoinStep, ConnectStep, ContractStep, DropStep, CleanupStep, LeaveStep, KickStep,
             FaultStep, StartStep, ForceStep DEF Steps
<1> QED BY <1>1, <1>2, <1>3, <1>4 DEF Next

\* Every value stays of its kind, and a handler that holds a copy of the state, or
\* serves a member, has one (the awaits of RoomService, RoomGateway, TimerService).
THEOREM TypeCorrect == Spec => []TypeOK
<1>1. IInv => TypeOK
  BY DEF IInv, Typed, TypeOK
<1> QED BY <1>1, InitKeeps, StepKeeps, PTL DEF Spec

\* The room never has more members than it holds, unless two people join at once
\* (RoomService.join counts, and inserts later).
THEOREM CapacityKept == Spec => []CapacityHeld
<1>1. IInv => CapacityHeld
  BY DEF IInv, Fits, CapacityHeld
<1> QED BY <1>1, InitKeeps, StepKeeps, PTL DEF Spec

-----------------------------------------------------------------------------
(* The course of every handler *)

Connecting == {"conn_check", "conn_member", "conn_read", "conn_save",
               "contract_read", "contract_save", "contract_db"}
Dropping   == {"drop_check", "drop_read", "drop_save", "drop_count"}
Beginning  == {"start_db", "start_read", "start_save"}
Cleaning   == {"cleanup_active", "cleanup_count", "delete"}

\* Which awaits a handler of each kind has.
Course(k) ==
  \/ k.kind = "none" /\ k.pc = "idle"
  \/ k.kind = "join" /\ k.pc \in Joining
  \/ k.kind = "connect" /\ k.pc \in Connecting
  \/ k.kind = "drop" /\ k.pc \in Dropping
  \/ k.kind = "cleanup" /\ k.pc \in Cleaning
  \/ k.kind = "leave" /\ k.pc \in {"leave_row", "leave_read", "leave_save", "delete"}
  \/ k.kind = "kick" /\ k.pc \in Kicking
  \/ k.kind \in {"sign", "edited", "permit"} /\ k.pc = "entry_save"
  \/ k.kind = "start" /\ k.pc \in Beginning \cup {"start_sign"}
  \/ /\ k.kind = "force"
     /\ k.pc \in (Kicking \ {"kick_host"}) \cup Beginning \cup {"force_sign", "force_next", "force_check"}

\* Handlers overlap only as the behaviour's mix says.
Overlap(a, b) == a.kind # "none" /\ b.kind # "none" => {a.kind, b.kind} = mix

Ordered ==
  /\ \A t \in Tasks : Course(task[t])
  /\ \A t, u \in Tasks : t # u => Overlap(task[t], task[u])

\* The handler in slot t, alone, takes a step: it goes on to pc, or is done.
Others(t) == \A u \in Tasks \ {t} : task'[u] = task[u]
Same(t) == /\ task'[t].who = task[t].who /\ task'[t].sock = task[t].sock
           /\ task'[t].flag = task[t].flag /\ task'[t].todo = task[t].todo
Goes(t, pc) == task'[t].pc = pc /\ task'[t].kind = task[t].kind /\ Others(t)
Stops(t) == task'[t] = Idle /\ Others(t)

LEMMA IdleFields == /\ Idle.kind = "none" /\ Idle.pc = "idle" /\ Idle.who = NoOne /\ Idle.sock = NoOne
                    /\ Idle.todo = {} /\ Idle.flag = FALSE /\ Idle.seen = NoOne
BY DEF Idle

LEMMA ReturnFields ==
  ASSUME IInv, NEW t \in Tasks, Return(t)
  PROVE  Stops(t)
BY TaskFacts DEF Return, Stops, Others

LEMMA GotoFields ==
  ASSUME IInv, NEW t \in Tasks, NEW pc, Goto(t, pc)
  PROVE  Goes(t, pc) /\ Same(t) /\ task'[t].seen = task[t].seen
<1>1. task[t] \in TaskStates /\ task \in [Tasks -> TaskStates]
  BY TaskFacts
<1> QED BY <1>1 DEF Goto, Goes, Others, Same, TaskStates

LEMMA SeenFields ==
  ASSUME IInv, NEW t \in Tasks, NEW pc, NEW c, task' = [task EXCEPT ![t].pc = pc, ![t].seen = c]
  PROVE  Goes(t, pc) /\ Same(t) /\ task'[t].seen = c
<1>1. task[t] \in TaskStates /\ task \in [Tasks -> TaskStates]
  BY TaskFacts
<1> QED BY <1>1 DEF Goes, Others, Same, TaskStates

\* A handler's step leaves the others alone, and stays on its course or ends.
Onward(t) == Stops(t) \/ (Others(t) /\ task'[t].kind = task[t].kind /\ Course(task'[t]))

LEMMA JoinFlow ==
  ASSUME IInv, NEW t \in Tasks, Course(task[t]),
         JoinBan(t) \/ JoinMember(t) \/ JoinRow(t) \/ JoinRead(t) \/ JoinSave(t)
  PROVE  Onward(t)
<1>1. task[t].pc \in Joining
  BY DEF JoinBan, JoinMember, JoinRow, JoinRead, JoinSave, Read, Save, At, Joining
<1>2. task[t].kind = "join"
  BY <1>1, TaskFacts DEF TaskOK
<1>3. ASSUME NEW pc \in Joining, Goes(t, pc) PROVE Onward(t)
  BY <1>2, <1>3 DEF Onward, Goes, Course
<1>4. CASE JoinMember(t)
  <2>1. task[t] \in TaskStates /\ task \in [Tasks -> TaskStates]
    BY TaskFacts
  <2>2. CASE task' = [task EXCEPT ![t].pc = "join_row", ![t].flag = task[t].who \in rows]
    <3> DEFINE f == task[t].who \in rows
    <3>1. task' = [task EXCEPT ![t].pc = "join_row", ![t].flag = f]
      BY <2>2
    <3> HIDE DEF f
    <3>2. Goes(t, "join_row")
      BY <2>1, <3>1 DEF Goes, Others, TaskStates
    <3> QED BY <1>3, <3>2 DEF Joining
  <2> QED BY <1>4, <2>2, ReturnFields DEF JoinMember, Onward
<1>5. CASE JoinBan(t)
  BY <1>3, <1>5, GotoFields, ReturnFields DEF JoinBan, Joining, Onward
<1>6. CASE JoinRow(t)
  BY <1>3, <1>6, GotoFields DEF JoinRow, Joining
<1>7. CASE JoinRead(t)
  BY <1>3, <1>7, GotoFields, ReturnFields, SeenFields DEF JoinRead, Read, Joining, Onward
<1>8. CASE JoinSave(t)
  BY <1>8, ReturnFields DEF JoinSave, Save, Onward
<1> QED BY <1>4, <1>5, <1>6, <1>7, <1>8

LEMMA ConnectFlow ==
  ASSUME IInv, NEW t \in Tasks, Course(task[t]),
         \/ ConnCheck(t) \/ ConnMember(t) \/ ConnRead(t) \/ ConnSave(t)
         \/ ContractRead(t) \/ ContractSave(t) \/ ContractDB(t)
  PROVE  Onward(t)
<1>1. task[t].pc \in Connecting
  BY DEF ConnCheck, ConnMember, ConnRead, ConnSave, ContractRead, ContractSave, ContractDB, Read, Save, At,
         Connecting
<1>2. task[t].kind = "connect"
  BY <1>1 DEF Course, Connecting, Joining, Dropping, Cleaning, Kicking, Beginning
<1>3. ASSUME NEW pc \in Connecting, Goes(t, pc) PROVE Onward(t)
  BY <1>2, <1>3 DEF Onward, Goes, Course
<1>4. CASE ConnCheck(t)
  BY <1>3, <1>4, SeenFields, ReturnFields, SMTT(30) DEF ConnCheck, Connecting, Onward
<1>5. CASE ConnMember(t)
  BY <1>3, <1>5, SeenFields, ReturnFields DEF ConnMember, Connecting, Onward
<1>6. CASE ConnRead(t)
  BY <1>3, <1>6, GotoFields, SeenFields DEF ConnRead, Read, Connecting
<1>7. CASE ConnSave(t)
  BY <1>3, <1>7, SeenFields DEF ConnSave, Save, Connecting
<1>8. CASE ContractRead(t)
  BY <1>3, <1>8, SeenFields, ReturnFields DEF ContractRead, Read, Connecting, Onward
<1>9. CASE ContractSave(t)
  BY <1>3, <1>9, SeenFields DEF ContractSave, Save, Connecting
<1>10. CASE ContractDB(t)
  BY <1>10, ReturnFields DEF ContractDB, Onward
<1> QED BY <1>4, <1>5, <1>6, <1>7, <1>8, <1>9, <1>10, SMTT(30)

LEMMA DropFlow ==
  ASSUME IInv, NEW t \in Tasks, Course(task[t]), DropCheck(t) \/ DropRead(t) \/ DropSave(t) \/ DropCount(t)
  PROVE  Onward(t)
<1>1. task[t].pc \in Dropping
  BY DEF DropCheck, DropRead, DropSave, DropCount, Read, Save, At, Dropping
<1>2. task[t].kind = "drop"
  BY <1>1 DEF Course, Connecting, Joining, Dropping, Cleaning, Kicking, Beginning
<1>3. ASSUME NEW pc \in Dropping, Goes(t, pc) PROVE Onward(t)
  BY <1>2, <1>3 DEF Onward, Goes, Course
<1>4. CASE DropCheck(t)
  BY <1>3, <1>4, SeenFields, ReturnFields DEF DropCheck, Read, Dropping, Onward
<1>5. CASE DropRead(t)
  BY <1>3, <1>5, GotoFields, SeenFields DEF DropRead, Read, Dropping
<1>6. CASE DropSave(t)
  BY <1>3, <1>6, SeenFields DEF DropSave, Save, Dropping
<1>7. CASE DropCount(t)
  BY <1>7, ReturnFields DEF DropCount, Onward
<1> QED BY <1>4, <1>5, <1>6, <1>7

LEMMA DeleteFields ==
  ASSUME IInv, NEW t \in Tasks, Delete(t)
  PROVE  /\ Stops(t) \/ (Goes(t, "delete") /\ task'[t].who = task[t].who /\ task'[t].seen = task[t].seen)
         /\ task[t].pc = "delete"
<1>1. task[t] \in TaskStates /\ task \in [Tasks -> TaskStates]
  BY TaskFacts
<1>2. ASSUME NEW w, task' = [task EXCEPT ![t].todo = @ \ {w}]
      PROVE  Goes(t, "delete") /\ task'[t].who = task[t].who /\ task'[t].seen = task[t].seen
  <2>1. task[t].pc = "delete"
    BY DEF Delete, At
  <2> QED BY <1>1, <1>2, <2>1 DEF Goes, Others, TaskStates
<1> QED BY <1>2, ReturnFields DEF Delete, At, CleanupDone

LEMMA CleanupFlow ==
  ASSUME IInv, NEW t \in Tasks, Course(task[t]), CleanupActive(t) \/ CleanupCount(t) \/ Delete(t)
  PROVE  Onward(t)
<1>1. CASE CleanupActive(t)
  <2>1. task[t].kind = "cleanup"
    BY <1>1, TaskFacts DEF CleanupActive, At, TaskOK
  <2>2. ASSUME Goto(t, "cleanup_count") PROVE Onward(t)
    BY <2>1, <2>2, GotoFields DEF Onward, Goes, Course, Cleaning
  <2> QED BY <1>1, <2>2, ReturnFields DEF CleanupActive, CleanupDone, Onward
<1>2. CASE CleanupCount(t)
  <2>1. task[t].kind = "cleanup"
    BY <1>2, TaskFacts DEF CleanupCount, At, TaskOK
  <2>2. task[t] \in TaskStates /\ task \in [Tasks -> TaskStates]
    BY TaskFacts
  <2>3. ASSUME task' = [task EXCEPT ![t].pc = "delete", ![t].todo = {"state", "phase"}] PROVE Onward(t)
    <3>1. Goes(t, "delete")
      BY <2>2, <2>3 DEF Goes, Others, TaskStates
    <3> QED BY <2>1, <3>1 DEF Onward, Goes, Course, Cleaning
  <2> QED BY <1>2, <2>3, ReturnFields DEF CleanupCount, CleanupDone, Onward
<1>3. CASE Delete(t)
  BY <1>3, DeleteFields DEF Onward, Goes, Course
<1> QED BY <1>1, <1>2, <1>3

LEMMA LeaveFlow ==
  ASSUME IInv, NEW t \in Tasks, Course(task[t]), LeaveRow(t) \/ LeaveRead(t) \/ LeaveSave(t)
  PROVE  Onward(t)
<1>1. task[t].pc \in {"leave_row", "leave_read", "leave_save"}
  BY DEF LeaveRow, LeaveRead, LeaveSave, Read, Save, At
<1>2. task[t].kind = "leave"
  BY <1>1 DEF Course, Connecting, Joining, Dropping, Cleaning, Kicking, Beginning
<1>3. ASSUME NEW pc \in {"leave_read", "leave_save"}, Goes(t, pc) PROVE Onward(t)
  BY <1>2, <1>3 DEF Onward, Goes, Course
<1> QED BY <1>3, GotoFields, SeenFields, ReturnFields DEF LeaveRow, LeaveRead, LeaveSave, Read, Save, Onward

LEMMA KickFlow ==
  ASSUME IInv, NEW t \in Tasks, Course(task[t]),
         KickHost(t) \/ KickRow(t) \/ KickRead(t) \/ KickSave(t) \/ KickBan(t) \/ KickSocket(t)
  PROVE  Onward(t)
<1>1. task[t].pc \in Kicking
  BY DEF KickHost, KickRow, KickRead, KickSave, KickBan, KickSocket, Read, Save, At, Kicking
<1>2. task[t].kind \in {"kick", "force"}
  BY <1>1, TaskFacts DEF TaskOK
<1>3. ASSUME NEW pc \in Kicking \ {"kick_host"}, Goes(t, pc) PROVE Onward(t)
  BY <1>2, <1>3 DEF Onward, Goes, Course
<1>4. CASE KickHost(t)
  BY <1>3, <1>4, GotoFields, ReturnFields DEF KickHost, Kicking, Onward
<1>5. CASE KickRow(t) \/ KickBan(t)
  BY <1>3, <1>5, GotoFields DEF KickRow, KickBan, Kicking
<1>6. CASE KickRead(t)
  BY <1>3, <1>6, GotoFields, SeenFields DEF KickRead, Read, Kicking
<1>7. CASE KickSave(t)
  BY <1>3, <1>7, SeenFields DEF KickSave, Save, Kicking
<1>8. CASE KickSocket(t)
  <2>1. ASSUME task[t].kind = "force", Goes(t, "force_next") PROVE Onward(t)
    BY <2>1 DEF Onward, Goes, Course
  <2> QED BY <1>8, <2>1, GotoFields, ReturnFields DEF KickSocket, Onward
<1> QED BY <1>4, <1>5, <1>6, <1>7, <1>8

LEMMA FaultFields ==
  ASSUME IInv, NEW t \in Tasks, KickFault(t)
  PROVE  /\ task[t].pc \in Kicking
         /\ \/ Stops(t)
            \/ /\ task[t].kind = "force" /\ task'[t].who = task[t].who /\ task'[t].sock = task[t].sock
               /\ task'[t].todo = task[t].todo
               /\ \/ Goes(t, "kick_row") /\ task'[t].flag = task[t].flag
                  \/ Goes(t, "force_next") /\ task'[t].flag
<1>1. task[t] \in TaskStates /\ task \in [Tasks -> TaskStates]
  BY TaskFacts
<1>2. task[t].pc \in Kicking
  BY DEF KickFault, Kicking
<1>3. task[t].kind \in {"kick", "force"}
  BY <1>2, TaskFacts DEF TaskOK
<1>4. CASE Return(t)
  BY <1>2, <1>4, ReturnFields
<1>5. CASE task' = [task EXCEPT ![t].pc = "kick_row", ![t].seen = NoOne, ![t].tries = @ + 1]
  <2>1. /\ Goes(t, "kick_row") /\ task'[t].who = task[t].who /\ task'[t].sock = task[t].sock
        /\ task'[t].todo = task[t].todo /\ task'[t].flag = task[t].flag
    BY <1>1, <1>5 DEF Goes, Others, TaskStates
  <2>2. task[t].kind = "force" \/ Return(t)
    BY <1>3 DEF KickFault
  <2> QED BY <1>2, <1>4, <2>1, <2>2
<1>6. CASE task' = [task EXCEPT ![t].pc = "force_next", ![t].seen = NoOne, ![t].flag = TRUE]
  <2>1. /\ Goes(t, "force_next") /\ task'[t].who = task[t].who /\ task'[t].sock = task[t].sock
        /\ task'[t].todo = task[t].todo /\ task'[t].flag
    BY <1>1, <1>6 DEF Goes, Others, TaskStates
  <2>2. task[t].kind = "force" \/ Return(t)
    BY <1>3 DEF KickFault
  <2> QED BY <1>2, <1>4, <2>1, <2>2
<1> QED BY <1>4, <1>5, <1>6 DEF KickFault

LEMMA StartFlow ==
  ASSUME IInv, NEW t \in Tasks, Course(task[t]), StartSign(t) \/ StartDB(t) \/ StartRead(t) \/ StartSave(t)
  PROVE  Onward(t)
<1>1. task[t].pc \in Beginning \cup {"start_sign"}
  BY DEF StartSign, StartDB, StartRead, StartSave, Read, Save, At, Beginning
<1>2. task[t].kind \in {"start", "force"}
  BY <1>1 DEF Course, Connecting, Joining, Dropping, Cleaning, Kicking, Beginning
<1>3. ASSUME NEW pc \in Beginning, Goes(t, pc) PROVE Onward(t)
  BY <1>2, <1>3, SMTT(30) DEF Onward, Goes, Course
<1> QED BY <1>3, GotoFields, SeenFields, ReturnFields
        DEF StartSign, StartDB, StartRead, StartSave, Read, Save, Onward, Beginning

LEMMA NextFields ==
  ASSUME IInv, NEW t \in Tasks, ForceNext(t)
  PROVE  /\ task[t].pc = "force_next" /\ task[t].kind = "force"
         /\ \/ Stops(t)
            \/ task[t].todo = {} /\ ~task[t].flag /\ Goes(t, "force_check") /\ Same(t)
            \/ \E k \in task[t].todo :
                  /\ Goes(t, "kick_row") /\ task'[t].who = k[1] /\ task'[t].sock = k[2]
                  /\ task'[t].todo = task[t].todo \ {k} /\ task'[t].flag = task[t].flag
<1>1. task[t] \in TaskStates /\ task \in [Tasks -> TaskStates]
  BY TaskFacts
<1>2. task[t].pc = "force_next" /\ task[t].kind = "force"
  BY TaskFacts DEF ForceNext, At, TaskOK
<1>3. ASSUME NEW k \in task[t].todo,
             task' = [task EXCEPT ![t].pc = "kick_row", ![t].todo = @ \ {k},
                                  ![t].who = k[1], ![t].sock = k[2], ![t].tries = 0]
      PROVE  /\ Goes(t, "kick_row") /\ task'[t].who = k[1] /\ task'[t].sock = k[2]
             /\ task'[t].todo = task[t].todo \ {k} /\ task'[t].flag = task[t].flag
  <2> DEFINE d == task[t].todo \ {k}
  <2>1. task' = [task EXCEPT ![t].pc = "kick_row", ![t].todo = d,
                             ![t].who = k[1], ![t].sock = k[2], ![t].tries = 0]
    BY <1>3
  <2> HIDE DEF d
  <2>2. /\ Goes(t, "kick_row") /\ task'[t].who = k[1] /\ task'[t].sock = k[2]
        /\ task'[t].todo = d /\ task'[t].flag = task[t].flag
    BY <1>1, <2>1 DEF Goes, Others, TaskStates
  <2> QED BY <2>2 DEF d
<1>4. CASE task[t].todo = {} /\ ~task[t].flag /\ Goto(t, "force_check")
  BY <1>2, <1>4, GotoFields
<1> QED BY <1>2, <1>3, <1>4, ReturnFields, Zenon DEF ForceNext

LEMMA SignFields ==
  ASSUME IInv, NEW t \in Tasks, ForceSign(t)
  PROVE  /\ task[t].pc = "force_sign" /\ task[t].kind = "force"
         /\ \/ Stops(t)
            \/ cache # NoOne /\ Unsigned(cache) = {} /\ Goes(t, "start_db") /\ Same(t)
            \/ \E f \in [Unsigned(cache) -> Sockets \cup {NoOne}] :
                  /\ cache # NoOne
                  /\ \A u \in Unsigned(cache) :
                       IF Online(u) THEN f[u] # NoOne /\ f[u][1] = u /\ socks[f[u]] = "joined"
                       ELSE f[u] = NoOne
                  /\ Goes(t, "force_next") /\ task'[t].todo = {<<u, f[u]>> : u \in Unsigned(cache)}
                  /\ task'[t].flag = task[t].flag
<1>1. task[t] \in TaskStates /\ task \in [Tasks -> TaskStates]
  BY TaskFacts
<1>2. task[t].pc = "force_sign" /\ task[t].kind = "force"
  BY TaskFacts DEF ForceSign, At, TaskOK
<1>3. ASSUME NEW d, task' = [task EXCEPT ![t].pc = "force_next", ![t].todo = d]
      PROVE  Goes(t, "force_next") /\ task'[t].todo = d /\ task'[t].flag = task[t].flag
  BY <1>1, <1>3 DEF Goes, Others, TaskStates
<1>4. CASE Return(t)
  BY <1>2, <1>4, ReturnFields
<1>5. CASE cache # NoOne /\ Unsigned(cache) = {} /\ Goto(t, "start_db")
  BY <1>2, <1>5, GotoFields
<1>6. CASE /\ cache # NoOne
           /\ \E f \in [Unsigned(cache) -> Sockets \cup {NoOne}] :
                /\ \A u \in Unsigned(cache) :
                     IF Online(u) THEN f[u] # NoOne /\ f[u][1] = u /\ socks[f[u]] = "joined"
                     ELSE f[u] = NoOne
                /\ task' = [task EXCEPT ![t].pc = "force_next",
                              ![t].todo = {<<u, f[u]>> : u \in Unsigned(cache)}]
  <2>1. PICK f \in [Unsigned(cache) -> Sockets \cup {NoOne}] :
                /\ \A u \in Unsigned(cache) :
                     IF Online(u) THEN f[u] # NoOne /\ f[u][1] = u /\ socks[f[u]] = "joined"
                     ELSE f[u] = NoOne
                /\ task' = [task EXCEPT ![t].pc = "force_next",
                              ![t].todo = {<<u, f[u]>> : u \in Unsigned(cache)}]
    BY <1>6
  <2> DEFINE d == {<<u, f[u]>> : u \in Unsigned(cache)}
  <2>2. Goes(t, "force_next") /\ task'[t].todo = d /\ task'[t].flag = task[t].flag
    <3>1. task' = [task EXCEPT ![t].pc = "force_next", ![t].todo = d]
      BY <2>1
    <3> HIDE DEF d
    <3> QED BY <1>3, <3>1
  <2> QED BY <1>2, <1>6, <2>1, <2>2
<1> QED BY <1>4, <1>5, <1>6 DEF ForceSign

LEMMA ForceFlow ==
  ASSUME IInv, NEW t \in Tasks, Course(task[t]),
         KickFault(t) \/ ForceSign(t) \/ ForceNext(t) \/ ForceCheck(t) \/ EntrySave(t)
  PROVE  Onward(t)
<1>1. ASSUME NEW pc \in {"kick_row", "start_db", "force_next", "force_check"}, Goes(t, pc),
             task[t].kind = "force"
      PROVE  Onward(t)
  BY <1>1 DEF Onward, Goes, Course, Kicking, Beginning
<1>2. CASE KickFault(t)
  BY <1>1, <1>2, FaultFields DEF Onward
<1>3. CASE ForceSign(t)
  BY <1>1, <1>3, SignFields DEF Onward
<1>4. CASE ForceNext(t)
  BY <1>1, <1>4, NextFields DEF Onward
<1>5. CASE ForceCheck(t)
  <2>1. task[t].pc = "force_check"
    BY <1>5 DEF ForceCheck, At
  <2>2. task[t].kind = "force"
    BY <2>1 DEF Course, Connecting, Joining, Dropping, Cleaning, Kicking, Beginning
  <2> QED BY <1>1, <1>5, <2>2, GotoFields, ReturnFields DEF ForceCheck, Onward
<1>6. CASE EntrySave(t)
  BY <1>6, ReturnFields DEF EntrySave, Save, Onward
<1> QED BY <1>2, <1>3, <1>4, <1>5, <1>6

LEMMA StepFlow ==
  ASSUME IInv, NEW t \in Tasks, Course(task[t]), Steps(t)
  PROVE  Onward(t)
BY JoinFlow, ConnectFlow, DropFlow, CleanupFlow, LeaveFlow, KickFlow, StartFlow, ForceFlow DEF Steps

\* A handler starts in slot t.
Begins(t, kind, pc, u) ==
  /\ task[t].kind = "none" /\ MayStart(t, kind) /\ Others(t)
  /\ task'[t].kind = kind /\ task'[t].pc = pc /\ task'[t].who = u

LEMMA NewBegins ==
  ASSUME IInv, NEW t \in Tasks, NEW kind, NEW pc, NEW u, Issue(t, New(kind, pc, u))
  PROVE  Begins(t, kind, pc, u) /\ task'[t].todo = {} /\ task'[t].flag = FALSE
<1>1. /\ New(kind, pc, u).kind = kind /\ New(kind, pc, u).pc = pc /\ New(kind, pc, u).who = u
      /\ New(kind, pc, u).todo = {} /\ New(kind, pc, u).flag = FALSE
  BY DEF New, Idle
<1> DEFINE k == New(kind, pc, u)
<1>2. task' = [task EXCEPT ![t] = k] /\ MayStart(t, kind)
  BY <1>1 DEF Issue
<1> HIDE DEF k
<1>3. task'[t] = k /\ Others(t)
  BY <1>2, TaskFacts DEF Others
<1> QED BY <1>1, <1>2, <1>3 DEF Begins, MayStart, k

LEMMA FlagBegins ==
  ASSUME IInv, NEW t \in Tasks, NEW kind, NEW pc, NEW u, NEW x,
         Issue(t, [New(kind, pc, u) EXCEPT !.flag = x])
  PROVE  Begins(t, kind, pc, u) /\ task'[t].todo = {}
<1> DEFINE k == [New(kind, pc, u) EXCEPT !.flag = x]
<1>1. k.kind = kind /\ k.pc = pc /\ k.who = u /\ k.todo = {}
  BY DEF New, Idle
<1>2. task' = [task EXCEPT ![t] = k] /\ MayStart(t, kind)
  BY <1>1 DEF Issue
<1> HIDE DEF k
<1>3. task'[t] = k /\ Others(t)
  BY <1>2, TaskFacts DEF Others
<1> QED BY <1>1, <1>2, <1>3 DEF Begins, MayStart

LEMMA SeenBegins ==
  ASSUME IInv, NEW t \in Tasks, NEW kind, NEW pc, NEW u, NEW x,
         Issue(t, [New(kind, pc, u) EXCEPT !.seen = x])
  PROVE  Begins(t, kind, pc, u) /\ task'[t].seen = x
<1> DEFINE k == [New(kind, pc, u) EXCEPT !.seen = x]
<1>1. k.kind = kind /\ k.pc = pc /\ k.who = u /\ k.seen = x
  BY DEF New, Idle
<1>2. task' = [task EXCEPT ![t] = k] /\ MayStart(t, kind)
  BY <1>1 DEF Issue
<1> HIDE DEF k
<1>3. task'[t] = k /\ Others(t)
  BY <1>2, TaskFacts DEF Others
<1> QED BY <1>1, <1>2, <1>3 DEF Begins, MayStart

LEMMA SockBegins ==
  ASSUME IInv, NEW t \in Tasks, NEW kind, NEW pc, NEW u, NEW x,
         Issue(t, [New(kind, pc, u) EXCEPT !.sock = x])
  PROVE  Begins(t, kind, pc, u) /\ task'[t].sock = x
<1> DEFINE k == [New(kind, pc, u) EXCEPT !.sock = x]
<1>1. k.kind = kind /\ k.pc = pc /\ k.who = u /\ k.sock = x
  BY DEF New, Idle
<1>2. task' = [task EXCEPT ![t] = k] /\ MayStart(t, kind)
  BY <1>1 DEF Issue
<1> HIDE DEF k
<1>3. task'[t] = k /\ Others(t)
  BY <1>2, TaskFacts DEF Others
<1> QED BY <1>1, <1>2, <1>3 DEF Begins, MayStart

LEMMA TodoBegins ==
  ASSUME IInv, NEW t \in Tasks, NEW kind, NEW pc, NEW u, NEW x,
         Issue(t, [New(kind, pc, u) EXCEPT !.todo = x])
  PROVE  Begins(t, kind, pc, u) /\ task'[t].todo = x
<1> DEFINE k == [New(kind, pc, u) EXCEPT !.todo = x]
<1>1. k.kind = kind /\ k.pc = pc /\ k.who = u /\ k.todo = x
  BY DEF New, Idle
<1>2. task' = [task EXCEPT ![t] = k] /\ MayStart(t, kind)
  BY <1>1 DEF Issue
<1> HIDE DEF k
<1>3. task'[t] = k /\ Others(t)
  BY <1>2, TaskFacts DEF Others
<1> QED BY <1>1, <1>2, <1>3 DEF Begins, MayStart

\* The requests, by what they start.
Opening(t) ==
  \E u \in Users : \/ Begins(t, "join", "join_ban", u)
                   \/ Begins(t, "leave", "leave_row", u)
                   \/ Begins(t, "kick", "kick_host", u)
                   \/ Begins(t, "sign", "entry_save", u)
                   \/ Begins(t, "edited", "entry_save", u)
                   \/ Begins(t, "connect", "conn_check", u)
                   \/ Begins(t, "drop", "drop_check", u)
                   \/ Begins(t, "leave", "delete", u)
                   \/ Begins(t, "permit", "entry_save", u)
                   \/ Begins(t, "start", "start_sign", u)
                   \/ Begins(t, "force", "force_sign", u)
                   \/ Begins(t, "cleanup", "cleanup_active", NoOne)

LEMMA RequestFlow ==
  ASSUME IInv, NEW t \in Tasks, Requests(t)
  PROVE  Opening(t) \/ (task' = task /\ \E u \in Users : Edited(t, u))
<1>h. Host \in Users
  BY PresenceAssumption
<1>1. CASE \E u \in Users : Join(t, u)
  BY <1>1, FlagBegins DEF Join, Opening
<1>2. CASE \E u \in Users : Leave(t, u)
  BY <1>2, NewBegins DEF Leave, Opening
<1>3. CASE \E u \in Users : Kick(t, u)
  BY <1>3, NewBegins DEF Kick, Opening
<1>4. CASE \E u \in Users : Edited(t, u)
  <2>1. PICK u \in Users : Edited(t, u)
    BY <1>4
  <2> DEFINE c == [cache EXCEPT !.members = [v \in Users |->
                     IF In(v) THEN [@[v] EXCEPT !.signed = FALSE] ELSE @[v]]]
  <2>3. \/ Issue(t, [New("edited", "entry_save", u) EXCEPT !.seen = c])
        \/ task' = task
    BY <2>1, Zenon DEF Edited
  <2> HIDE DEF c
  <2>4. ASSUME Issue(t, [New("edited", "entry_save", u) EXCEPT !.seen = c]) PROVE Opening(t)
    BY <2>4, SeenBegins DEF Opening
  <2> QED BY <1>4, <2>3, <2>4
<1>5. CASE \E u \in Users, b \in BOOLEAN : Sign(t, u, b)
  <2>1. PICK u \in Users, b \in BOOLEAN : Sign(t, u, b)
    BY <1>5
  <2>2. ASSUME NEW x, Issue(t, [New("sign", "entry_save", u) EXCEPT !.seen = x])
        PROVE  Opening(t)
    BY <2>2, SeenBegins DEF Opening
  <2> QED BY <2>1, <2>2 DEF Sign
<1>6. CASE \E s \in Sockets : Connect(t, s) \/ Drop(t, s)
  <2>1. PICK s \in Sockets : Connect(t, s) \/ Drop(t, s)
    BY <1>6
  <2>2. s[1] \in Users
    BY PresenceAssumption
  <2>3. \/ Issue(t, [New("connect", "conn_check", s[1]) EXCEPT !.sock = s])
        \/ Issue(t, [New("drop", "drop_check", s[1]) EXCEPT !.sock = s])
    BY <2>1, Zenon DEF Connect, Drop
  <2>4. Begins(t, "connect", "conn_check", s[1]) \/ Begins(t, "drop", "drop_check", s[1])
    BY <2>3, SockBegins
  <2> QED BY <2>2, <2>4 DEF Opening
<1>7. CASE Cleanup(t)
  BY <1>h, <1>7, NewBegins DEF Cleanup, Opening
<1>8. CASE LeaveHost(t)
  BY <1>h, <1>8, TodoBegins DEF LeaveHost, Opening
<1>9. CASE Permit(t)
  BY <1>h, <1>9, SeenBegins DEF Permit, Opening
<1>10. CASE \E k \in {"start", "force"} : Start(t, k)
  BY <1>h, <1>10, NewBegins DEF Start, Opening
<1> QED BY <1>1, <1>2, <1>3, <1>4, <1>5, <1>6, <1>7, <1>8, <1>9, <1>10 DEF Requests

LEMMA OpeningFlow ==
  ASSUME NEW t \in Tasks, Opening(t)
  PROVE  /\ task[t].kind = "none" /\ MayStart(t, task'[t].kind) /\ Others(t)
         /\ Course(task'[t]) /\ task'[t].kind # "none"
BY DEF Opening, Begins, Course, Joining, Kicking, Connecting, Dropping, Cleaning, Beginning

LEMMA MixKept == [Next]_vars => mix' = mix
<1> SUFFICES ASSUME [Next]_vars PROVE mix' = mix
  OBVIOUS
<1>1. CASE UNCHANGED vars
  BY <1>1 DEF vars, trial
<1>2. ASSUME NEW t \in Tasks, Requests(t) PROVE mix' = mix
  BY <1>2, Zenon DEF Requests, Join, Leave, Kick, Edited, Sign, Connect, Drop, Cleanup, LeaveHost, Permit, Start, trial
<1>3. ASSUME NEW t \in Tasks, Steps(t) PROVE mix' = mix
  BY <1>3, Zenon DEF Steps, JoinBan, JoinMember, JoinRow, JoinRead, JoinSave, ConnCheck, ConnMember, ConnRead, ConnSave,
     ContractRead, ContractSave, ContractDB, DropCheck, DropRead, DropSave, DropCount, CleanupActive,
     CleanupCount, Delete, LeaveRow, LeaveRead, LeaveSave, KickHost, KickRow, KickRead, KickSave, KickBan,
     KickFault, KickSocket, EntrySave, StartSign, StartDB, StartRead, StartSave, ForceSign, ForceNext,
     ForceCheck, Read, Save, trial
<1> QED BY <1>1, <1>2, <1>3 DEF Next, DropEarly, trial

LEMMA OrderKept ==
  ASSUME IInv, Ordered, [Next]_vars
  PROVE  Ordered'
<1>0. CASE task' = task /\ mix' = mix
  BY <1>0 DEF Ordered, Overlap, Course
<1>m. mix' = mix
  BY MixKept
<1>1. ASSUME NEW t \in Tasks, Others(t), Course(task'[t]),
             task'[t].kind \in {"none", task[t].kind} \/ MayStart(t, task'[t].kind)
      PROVE  Ordered'
  <2>1. \A u \in Tasks : Course(task'[u])
    BY <1>1 DEF Others, Ordered
  <2>2. ASSUME NEW u \in Tasks, u # t PROVE Overlap(task'[t], task'[u]) /\ Overlap(task'[u], task'[t])
    <3>1. task'[u] = task[u] /\ Overlap(task[t], task[u])
      BY <1>1, <2>2 DEF Others, Ordered
    <3>2. CASE task'[t].kind \in {"none", task[t].kind}
      BY <3>1, <3>2 DEF Overlap
    <3>3. CASE MayStart(t, task'[t].kind)
      BY <3>1, <3>3 DEF Overlap, MayStart
    <3> QED BY <1>1, <3>2, <3>3
  <2>3. \A v, u \in Tasks : v # u => Overlap(task'[v], task'[u])
    BY <1>1, <2>2 DEF Others, Ordered
  <2> QED BY <1>m, <2>1, <2>3 DEF Ordered, Overlap, Course
<1>2. CASE UNCHANGED vars
  BY <1>0, <1>2, <1>m DEF vars
<1>3. ASSUME NEW t \in Tasks, Requests(t) PROVE Ordered'
  BY <1>0, <1>1, <1>3, <1>m, RequestFlow, OpeningFlow
<1>4. ASSUME NEW t \in Tasks, Steps(t) PROVE Ordered'
  <2>1. Onward(t)
    BY <1>4, StepFlow DEF Ordered
  <2>2. Course(Idle) /\ Idle.kind = "none"
    BY IdleFields DEF Course
  <2> QED BY <1>1, <2>1, <2>2 DEF Onward, Stops
<1> QED BY <1>0, <1>2, <1>3, <1>4, <1>m DEF Next, DropEarly

-----------------------------------------------------------------------------
(* Who has signed *)

\* The awaits after which a copy of the state is written, and those after a
\* member's row is gone.
Saves == Holding \ {"conn_member"}
Left  == {"leave_read", "leave_save", "kick_read", "kick_save", "kick_ban", "kick_socket"}

\* Who has a row and gets an entry next.
Coming == {task[o].who : o \in {o \in Tasks : task[o].pc \in {"join_read", "join_save"}}}

\* Every member is in the state c, and has signed if c says so.
Listed(c) == \A u \in rows \ Coming : c.members[u] # NoOne
Honest(c) == \A u \in rows \ Coming : c.members[u] # NoOne /\ (c.members[u].signed => u \in agreed)

\* What a handler that is under way knows of the signatures.
Sure(k) ==
  /\ k.pc \in Saves => Honest(k.seen)
  /\ k.kind = "edited" => \A u \in Users : k.seen.members[u] # NoOne => ~k.seen.members[u].signed
  /\ k.pc \in Left => k.who \notin rows
  /\ k.pc = "start_db" => rows \subseteq agreed
  /\ k.kind = "force" /\ k.pc \in {"force_next", "force_check"} \cup Kicking =>
       k.flag \/ \A u \in rows : \/ u \in agreed
                                 \/ \E p \in k.todo : p[1] = u
                                 \/ k.pc = "kick_row" /\ u = k.who
  /\ k.pc = "force_check" => ~k.flag /\ k.todo = {}

SignFree == \A t \in Tasks : task[t].kind \notin {"sign", "edited"}

Signed ==
  mix \notin SignatureLost =>
    /\ cache # NoOne => Listed(cache) /\ (SignFree => Honest(cache))
    /\ \A t \in Tasks : Sure(task[t])

LEMMA LostFacts ==
  ASSUME NEW a \in {"join", "sign", "edited"}, NEW b \in Kinds, mix = {a, b}, mix \notin SignatureLost
  PROVE  b = "cleanup" \/ (a = "edited" /\ b = "edited")
<1>1. ASSUME b # "cleanup", a # "edited" \/ b # "edited" PROVE FALSE
  <2>1. mix \in {{x, y} : x \in {"join", "sign", "edited"}, y \in Kinds \ {"cleanup"}}
    BY <1>1
  <2>2. mix # {"edited"}
    BY <1>1
  <2> QED BY <2>1, <2>2 DEF SignatureLost
<1> QED BY <1>1

LEMMA KindFacts ==
  ASSUME IInv, NEW t \in Tasks
  PROVE  task[t].kind \in Kinds \cup {"none"}
BY TaskFacts DEF TaskStates

\* While somebody joins or signs, only a cleanup may be under way.
LEMMA AloneFacts ==
  ASSUME IInv, Ordered, mix \notin SignatureLost, NEW t \in Tasks, NEW o \in Tasks \ {t}
  PROVE  /\ task[t].kind \in {"join", "sign"} => task[o].kind \in {"none", "cleanup"}
         /\ task[t].kind = "edited" => task[o].kind \in {"none", "cleanup", "edited"}
<1>1. task[o].kind # "none" /\ task[t].kind # "none" => {task[t].kind, task[o].kind} = mix
  BY DEF Ordered, Overlap
<1> QED BY <1>1, KindFacts, LostFacts

LEMMA StartAloneFacts ==
  ASSUME IInv, mix \notin SignatureLost, NEW t \in Tasks, NEW kind, MayStart(t, kind), NEW o \in Tasks \ {t}
  PROVE  /\ kind \in {"join", "sign"} => task[o].kind \in {"none", "cleanup"}
         /\ kind = "edited" => task[o].kind \in {"none", "cleanup", "edited"}
         /\ kind \in Kinds \ {"cleanup", "edited"} => task[o].kind \notin {"sign", "edited"}
<1>1. task[o].kind # "none" => {kind, task[o].kind} = mix
  BY DEF MayStart
<1>2. ASSUME kind \in Kinds \ {"cleanup", "edited"}, task[o].kind \in {"sign", "edited"} PROVE FALSE
  <2>1. {task[o].kind, kind} = mix
    BY <1>1, <1>2
  <2> QED BY <1>2, <2>1, LostFacts
<1> QED BY <1>1, <1>2, KindFacts, LostFacts DEF Kinds

\* A handler that reads the state does so while nobody signs.
LEMMA FreeFacts ==
  ASSUME IInv, Ordered, mix \notin SignatureLost, NEW t \in Tasks,
         task[t].kind \in Kinds \ {"cleanup", "sign", "edited"}
  PROVE  SignFree
<1>1. ASSUME NEW o \in Tasks \ {t}, task[o].kind \in {"sign", "edited"} PROVE FALSE
  <2>1. task[t].kind # "none"
    BY DEF Kinds
  <2> QED BY <1>1, <2>1, AloneFacts
<1> QED BY <1>1 DEF SignFree

LEMMA BystanderSure ==
  ASSUME NEW k, Course(k), k.kind \in {"none", "cleanup"}
  PROVE  Sure(k)
BY DEF Course, Sure, Saves, Left, Holding, Cleaning

LEMMA QuietSure ==
  ASSUME NEW k, k.kind # "edited", k.pc \notin Saves \cup Left \cup {"start_db", "force_check"},
         k.kind = "force" => k.pc \notin Kicking \cup {"force_next"}
  PROVE  Sure(k)
BY DEF Sure

LEMMA IdleSure == Sure(Idle)
BY IdleFields, QuietSure DEF Saves, Holding, Left, Kicking

\* Nobody's row or signature is new, and whoever was coming still is.
Steady ==
  /\ rows' \subseteq rows /\ rows' \cap agreed \subseteq agreed'
  /\ rows' \cap Coming \subseteq Coming'

LEMMA SteadyState ==
  ASSUME Steady, NEW c
  PROVE  (Honest(c) => Honest(c)') /\ (Listed(c) => Listed(c)')
BY DEF Steady, Honest, Listed

LEMMA SteadySure ==
  ASSUME Steady, NEW k
  PROVE  Sure(k) => Sure(k)'
<1>1. Honest(k.seen) => Honest(k.seen)'
  BY SteadyState
<1> QED BY <1>1 DEF Sure, Steady

LEMMA ComingKeeps ==
  ASSUME NEW t \in Tasks, Others(t),
         task[t].pc \in {"join_read", "join_save"} =>
           task'[t].pc \in {"join_read", "join_save"} /\ task'[t].who = task[t].who
  PROVE  Coming \subseteq Coming'
BY DEF Coming, Others

\* The others' knowledge holds on.
LEMMA OthersSure ==
  ASSUME Signed, mix \notin SignatureLost, Steady, NEW t \in Tasks, Others(t), NEW o \in Tasks \ {t}
  PROVE  Sure(task[o])'
<1>1. PICK k : k = task[o]
  OBVIOUS
<1>2. Sure(k)'
  BY <1>1, SteadySure DEF Signed
<1>3. task'[o] = k
  BY <1>1 DEF Others
<1> QED BY <1>2, <1>3 DEF Sure

\* A step that leaves the state alone, or deletes it.
LEMMA SignedKept ==
  ASSUME Signed, mix \notin SignatureLost, mix' = mix, Steady, NEW t \in Tasks, Others(t),
         task[t].kind \notin {"sign", "edited"}, cache' \in {cache, NoOne}, Sure(task[t])'
  PROVE  Signed'
<1>1. \A o \in Tasks : Sure(task[o])'
  BY OthersSure
<1>2. ASSUME cache' # NoOne PROVE Listed(cache)' /\ (SignFree' => Honest(cache)')
  <2>1. PICK c : c = cache
    OBVIOUS
  <2>2. cache' = c
    BY <1>2, <2>1
  <2>3. Listed(c) /\ (SignFree => Honest(c))
    BY <1>2, <2>1 DEF Signed
  <2>4. SignFree' => SignFree
    BY DEF SignFree, Others
  <2>5. Listed(c)' /\ (SignFree' => Honest(c)')
    BY <2>3, <2>4, SteadyState
  <2> QED BY <2>2, <2>5 DEF Listed, Honest
<1> QED BY <1>1, <1>2 DEF Signed

\* A step that writes the state c.
LEMMA SignedSaved ==
  ASSUME Signed, mix \notin SignatureLost, mix' = mix, Steady, NEW t \in Tasks, Others(t),
         NEW c, cache' = c, Honest(c)', Sure(task[t])'
  PROVE  Signed'
<1>1. \A o \in Tasks : Sure(task[o])'
  BY OthersSure
<1>2. Honest(cache)' /\ Listed(cache)'
  BY DEF Honest, Listed
<1> QED BY <1>1, <1>2 DEF Signed

\* A step that neither reads nor writes what the signatures are about.
QuietStep(t) ==
  /\ Others(t) /\ UNCHANGED <<rows, agreed, mix>> /\ cache' \in {cache, NoOne}
  /\ task[t].kind \notin {"sign", "edited"} /\ task[t].pc \notin {"join_read", "join_save"}
  /\ task'[t].kind # "edited" /\ task'[t].pc \notin Saves \cup Left \cup {"start_db", "force_check"}
  /\ task'[t].kind = "force" => task'[t].pc \notin Kicking \cup {"force_next"}

LEMMA SteadyNow ==
  ASSUME NEW t \in Tasks, Others(t), UNCHANGED <<rows, agreed>>,
         task[t].pc \in {"join_read", "join_save"} =>
           task'[t].pc \in {"join_read", "join_save"} /\ task'[t].who = task[t].who
  PROVE  Steady
BY ComingKeeps DEF Steady

LEMMA QuietSigned ==
  ASSUME Signed, mix \notin SignatureLost, NEW t \in Tasks, QuietStep(t)
  PROVE  Signed'
<1>1. Steady
  BY SteadyNow DEF QuietStep
<1>2. Sure(task[t])'
  <2>1. PICK k : k = task'[t]
    OBVIOUS
  <2>2. Sure(task'[t])
    BY QuietSure DEF QuietStep
  <2> QED BY DEF QuietStep, Sure
<1> QED BY <1>1, <1>2, SignedKept DEF QuietStep

\* A handler that is done says nothing.
LEMMA StopSigned ==
  ASSUME Signed, mix \notin SignatureLost, NEW t \in Tasks, Stops(t),
         UNCHANGED <<rows, agreed, mix>>, cache' \in {cache, NoOne},
         task[t].kind \notin {"sign", "edited"}, task[t].pc \notin {"join_read", "join_save"}
  PROVE  Signed'
BY IdleFields, QuietSigned DEF Stops, QuietStep, Saves, Holding, Left, Kicking

\* getState on the way to a write, while nobody signs.
LEMMA ReadSigned ==
  ASSUME IInv, Ordered, Signed, mix \notin SignatureLost, NEW t \in Tasks, NEW pc \in Saves,
         task' = [task EXCEPT ![t].pc = pc, ![t].seen = cache], cache # NoOne,
         UNCHANGED <<rows, agreed, mix, cache>>,
         task[t].kind \in Kinds \ {"cleanup", "sign", "edited"},
         task[t].pc = "join_read" => pc = "join_save", task[t].pc # "join_save",
         pc = "leave_save" => task[t].pc = "leave_read", pc = "kick_save" => task[t].pc = "kick_read"
  PROVE  Signed'
<1>1. Goes(t, pc) /\ Same(t) /\ task'[t].seen = cache
  BY SeenFields
<1>2. Others(t) /\ Steady
  BY <1>1, SteadyNow DEF Goes, Same
<1>3. Honest(cache)'
  <2>1. PICK c : c = cache
    OBVIOUS
  <2>2. Honest(c)'
    BY <2>1, <1>2, FreeFacts, SteadyState DEF Signed
  <2> QED BY <2>1, <2>2 DEF Honest
<1>4. Sure(task[t])'
  <2>1. Sure(task[t])
    BY DEF Signed
  <2>2. /\ task'[t].pc = pc /\ task'[t].kind = task[t].kind /\ task'[t].who = task[t].who
        /\ task'[t].flag = task[t].flag /\ task'[t].todo = task[t].todo /\ task'[t].seen = cache
    BY <1>1 DEF Goes, Same
  <2>3. Honest(task[t].seen)'
    BY <1>3, <2>2 DEF Honest
  <2>4. pc \notin {"start_db", "force_check", "force_next", "kick_row"}
    BY DEF Saves, Holding
  <2>5. pc \in Kicking => pc = "kick_save"
    BY DEF Saves, Holding, Kicking
  <2>6. pc \in Left => task[t].pc \in Left
    BY DEF Saves, Holding, Left
  <2>7. task'[t].kind # "edited"
    BY <2>2
  <2>8. \/ task[t].pc = "kick_read" /\ task[t].pc \in Kicking
        \/ pc \notin Kicking
    BY <2>5 DEF Kicking
  <2>9. task'[t].pc \in Left => task'[t].who \notin rows'
    BY <2>1, <2>2, <2>6 DEF Sure
  <2>10. task'[t].kind = "force" /\ task'[t].pc \in {"force_next", "force_check"} \cup Kicking =>
           task'[t].flag \/ \A u \in rows' : u \in agreed' \/ \E p \in task'[t].todo : p[1] = u
    BY <2>1, <2>2, <2>4, <2>8 DEF Sure
  <2> QED BY <2>2, <2>3, <2>4, <2>7, <2>9, <2>10 DEF Sure
<1> QED BY <1>2, <1>4, SignedKept

\* The members of a state with one entry changed.
LEMMA ChangedFacts ==
  ASSUME NEW c \in States, NEW u \in Users, NEW e
  PROVE  /\ [c EXCEPT !.members[u] = e].members[u] = e
         /\ \A v \in Users \ {u} : [c EXCEPT !.members[u] = e].members[v] = c.members[v]
BY DEF States

LEMMA FreshFacts == Fresh # NoOne /\ ~Fresh.signed
<1>1. Fresh \in Entry
  BY DEF Fresh, Entry
<1> QED BY <1>1, NullAssumption DEF Fresh

LEMMA JoinSigned ==
  ASSUME IInv, Ordered, Signed, mix \notin SignatureLost, NEW t \in Tasks,
         JoinBan(t) \/ JoinMember(t) \/ JoinRow(t) \/ JoinRead(t) \/ JoinSave(t)
  PROVE  Signed'
<1>1. task[t].kind = "join"
  <2>1. task[t].pc \in Joining
    BY DEF JoinBan, JoinMember, JoinRow, JoinRead, JoinSave, Read, Save, At, Joining
  <2> QED BY <2>1, TaskFacts DEF TaskOK
<1>2. \A o \in Tasks \ {t} : /\ task[o].kind \in {"none", "cleanup"} /\ Course(task[o])
                             /\ task[o].pc \in Cleaning \cup {"idle"}
  BY <1>1, AloneFacts DEF Ordered, Course
<1>3. ASSUME Others(t) PROVE \A o \in Tasks \ {t} : Sure(task[o])'
  <2> SUFFICES ASSUME NEW o \in Tasks \ {t} PROVE Sure(task[o])'
    OBVIOUS
  <2>1. task'[o] = task[o] /\ Course(task[o]) /\ task[o].kind \in {"none", "cleanup"}
    BY <1>2, <1>3 DEF Others
  <2>2. Course(task'[o]) /\ task'[o].kind \in {"none", "cleanup"}
    BY <2>1
  <2> QED BY <2>2 DEF Course, Sure, Saves, Left, Holding, Cleaning
<1>4. UNCHANGED mix
  BY DEF JoinBan, JoinMember, JoinRow, JoinRead, JoinSave, Read, Save, trial
<1>5. CASE JoinBan(t)
  <2>1. Stops(t) \/ Goes(t, "join_member")
    BY <1>5, GotoFields, ReturnFields DEF JoinBan
  <2>2. UNCHANGED <<rows, agreed, mix, cache>> /\ task[t].pc = "join_ban"
    BY <1>5 DEF JoinBan, At, stores, trial, history
  <2>3. CASE Stops(t)
    BY <1>1, <2>2, <2>3, StopSigned
  <2>4. CASE Goes(t, "join_member")
    BY <1>1, <2>2, <2>4, QuietSigned DEF QuietStep, Goes, Saves, Holding, Left
  <2> QED BY <2>1, <2>3, <2>4
<1>6. CASE JoinMember(t)
  <2>1. UNCHANGED <<rows, agreed, mix, cache>> /\ task[t].pc = "join_member"
    BY <1>6 DEF JoinMember, At, stores, trial, history
  <2>2. CASE Return(t)
    BY <1>1, <2>1, <2>2, ReturnFields, StopSigned
  <2>3. CASE task' = [task EXCEPT ![t].pc = "join_row", ![t].flag = task[t].who \in rows]
    <3> DEFINE f == task[t].who \in rows
    <3>1. task' = [task EXCEPT ![t].pc = "join_row", ![t].flag = f]
      BY <2>3
    <3> HIDE DEF f
    <3>2. Goes(t, "join_row")
      BY <3>1, TaskFacts DEF Goes, Others, TaskStates
    <3> QED BY <1>1, <2>1, <3>2, QuietSigned DEF QuietStep, Goes, Saves, Holding, Left
  <2> QED BY <1>6, <2>2, <2>3 DEF JoinMember
<1>7. CASE JoinRow(t)
  <2>1. Goes(t, "join_read") /\ Same(t)
    BY <1>7, GotoFields DEF JoinRow
  <2>2. /\ rows' \subseteq rows \cup {task[t].who}
        /\ UNCHANGED <<agreed, cache>> /\ task[t].pc = "join_row"
    BY <1>7 DEF JoinRow, At, stores, trial, history
  <2>3. task[t].who \in Coming' /\ Coming \subseteq Coming'
    <3>1. Coming \subseteq Coming'
      BY <2>1, <2>2, ComingKeeps DEF Goes
    <3> QED BY <2>1, <3>1 DEF Goes, Same, Coming
  <2>4. Sure(task[t])'
    <3>1. Sure(task'[t])
      BY <1>1, <2>1, QuietSure DEF Goes, Saves, Holding, Left
    <3> QED BY <1>1, <2>1 DEF Sure, Goes, Saves, Holding, Left
  <2>5. rows' \ Coming' \subseteq rows \ Coming
    BY <2>2, <2>3
  <2>6. ASSUME cache' # NoOne PROVE Listed(cache)' /\ Honest(cache)'
    <3>1. Listed(cache) /\ Honest(cache)
      BY <1>1, <2>2, <2>6, FreeFacts DEF Signed, Kinds
    <3> QED BY <2>2, <2>5, <3>1 DEF Listed, Honest
  <2>7. \A o \in Tasks : Sure(task[o])'
    BY <1>3, <2>1, <2>4 DEF Goes
  <2> QED BY <2>6, <2>7 DEF Signed
<1>8. CASE JoinRead(t)
  <2>1. UNCHANGED <<rows, agreed, mix, cache>> /\ task[t].pc = "join_read"
    BY <1>8 DEF JoinRead, Read, At, stores, trial, history
  <2>2. CASE cache # NoOne /\ task' = [task EXCEPT ![t].pc = "join_save", ![t].seen = cache]
    <3>1. "join_save" \in Saves /\ "join" \in Kinds
      BY DEF Saves, Holding, Kinds
    <3> QED BY <1>1, <2>1, <2>2, <3>1, ReadSigned
  <2>3. CASE cache = NoOne /\ Return(t)
    <3>1. Stops(t)
      BY <2>3, ReturnFields
    <3>2. Sure(task[t])'
      BY <3>1, IdleFields DEF Stops, Sure, Saves, Holding, Left, Kicking
    <3> QED BY <1>3, <2>1, <2>3, <3>1, <3>2 DEF Signed, Stops
  <2> QED BY <1>8, <2>2, <2>3 DEF JoinRead, Read, Anyway
<1>9. CASE JoinSave(t)
  <2>a. task[t].pc = "join_save"
    BY <1>9 DEF JoinSave, Save, At
  <2>2. PICK s \in States, u \in Users : s = task[t].seen /\ u = task[t].who
    BY <2>a, TaskFacts DEF TaskOK, Holding, Serving, Joining
  <2> DEFINE c == [s EXCEPT !.members[u] = Fresh]
  <2>1. cache' = c /\ Return(t) /\ UNCHANGED rows /\ agreed \ {u} \subseteq agreed'
    BY <1>9, <2>2 DEF JoinSave, Save, At
  <2>3. Stops(t)
    BY <2>1, ReturnFields
  <2>4. Honest(s)
    BY <2>a, <2>2 DEF Signed, Sure, Saves, Holding
  <2>5. Coming \subseteq {u}
    BY <1>2, <2>2 DEF Coming, Cleaning
  <2>6. c.members[u] = Fresh /\ \A v \in Users \ {u} : c.members[v] = s.members[v]
    BY ChangedFacts DEF States
  <2>7. Fresh # NoOne /\ ~Fresh.signed
    BY FreshFacts
  <2> HIDE DEF c
  <2>8. Honest(cache)' /\ Listed(cache)'
    <3> SUFFICES ASSUME NEW v \in rows
                 PROVE  c.members[v] # NoOne /\ (c.members[v].signed => v \in agreed')
      BY <2>1 DEF Honest, Listed
    <3>1. CASE v = u
      BY <2>6, <2>7, <3>1
    <3>2. CASE v # u
      <4>1. v \in Users /\ v \notin Coming
        BY <2>5, <3>2 DEF IInv, Typed
      <4> QED BY <2>1, <2>4, <2>6, <3>2, <4>1 DEF Honest
    <3> QED BY <3>1, <3>2
  <2>9. Sure(task[t])'
    BY <2>3, IdleFields DEF Stops, Sure, Saves, Holding, Left, Kicking
  <2> QED BY <1>3, <2>3, <2>8, <2>9 DEF Signed, Stops
<1> QED BY <1>5, <1>6, <1>7, <1>8, <1>9

\* A handler that is neither joining nor signing moves on to an await that asks
\* for no signature.
Silent == {"conn_member", "conn_read", "contract_read", "contract_db", "drop_read", "drop_count",
           "cleanup_count", "delete", "start_read"}

LEMMA MovedSigned ==
  ASSUME Signed, mix \notin SignatureLost, NEW t \in Tasks, NEW pc \in Silent, Goes(t, pc) \/ Stops(t),
         UNCHANGED <<rows, agreed, mix>>, cache' \in {cache, NoOne},
         task[t].kind \in {"connect", "drop", "cleanup", "leave", "start", "force"},
         task[t].pc \notin {"join_read", "join_save"}
  PROVE  Signed'
<1>1. CASE Stops(t)
  BY <1>1, StopSigned
<1>2. CASE Goes(t, pc)
  <2>1. pc \notin Saves \cup Left \cup Kicking \cup {"start_db", "force_check", "force_next"}
    BY DEF Silent, Saves, Left, Holding, Kicking
  <2> QED BY <1>2, <2>1, QuietSigned DEF QuietStep, Goes
<1> QED BY <1>1, <1>2

\* saveState of a state that is as honest as the one that was read.
LEMMA WrittenSigned ==
  ASSUME IInv, Ordered, Signed, mix \notin SignatureLost, NEW t \in Tasks,
         NEW from \in Saves \ {"join_save"}, NEW to \in Silent \cup {"return"}, NEW c,
         Save(t, from, to, c), UNCHANGED agreed, Honest(task[t].seen) => Honest(c),
         to # "return" => task[t].kind \in {"connect", "drop", "cleanup", "leave", "start", "force"}
  PROVE  Signed'
<1>1. task[t].pc = from /\ cache' = c /\ UNCHANGED <<rows, mix>> /\ from # "join_read"
  BY DEF Save, At, trial, Saves, Holding
<1>2. Honest(c)
  BY <1>1 DEF Signed, Sure
<1>3. CASE to = "return"
  <2>1. Stops(t)
    BY <1>3, ReturnFields DEF Save
  <2>2. Steady
    BY <1>1, <2>1, SteadyNow DEF Stops
  <2>3. Honest(c)'
    BY <1>2, <2>2, SteadyState
  <2>4. Sure(task[t])'
    BY <2>1, IdleFields DEF Stops, Sure, Saves, Holding, Left, Kicking
  <2> QED BY <1>1, <2>1, <2>2, <2>3, <2>4, SignedSaved DEF Stops
<1>4. CASE to # "return"
  <2>1. Goes(t, to)
    BY <1>4, SeenFields DEF Save
  <2>2. Steady
    BY <1>1, <2>1, SteadyNow DEF Goes
  <2>3. Honest(c)'
    BY <1>2, <2>2, SteadyState
  <2>4. to \notin Saves \cup Left \cup Kicking \cup {"start_db", "force_check", "force_next"}
    BY <1>4 DEF Silent, Saves, Left, Holding, Kicking
  <2>5. Sure(task[t])'
    BY <1>4, <2>1, <2>4 DEF Goes, Sure
  <2> QED BY <1>1, <2>1, <2>2, <2>3, <2>5, SignedSaved DEF Goes
<1> QED BY <1>3, <1>4

LEMMA CleanPCs == \A pc \in Connecting \cup Dropping \cup Cleaning \cup {"leave_row", "leave_read", "leave_save"} \cup
                             Beginning \cup {"start_sign", "force_sign", "force_next", "force_check"} \cup Kicking :
                    pc \notin {"join_read", "join_save"}
BY DEF Connecting, Dropping, Cleaning, Beginning, Kicking

\* A socket or a phase says nothing of a signature.
LEMMA SockFacts ==
  ASSUME NEW s \in States, NEW u \in Users, NEW x \in Sockets \cup {NoOne}, s.members[u] # NoOne
  PROVE  LET c == [s EXCEPT !.members[u].sock = x]
         IN /\ c \in States /\ c.members[u] # NoOne /\ c.phase = s.phase
            /\ c.members[u].sock = x /\ c.members[u].signed = s.members[u].signed
            /\ \A v \in Users \ {u} : c.members[v] = s.members[v]
<1> DEFINE e == [s.members[u] EXCEPT !.sock = x]
           c == [s EXCEPT !.members[u] = e]
<1>1. s.members[u] \in Entry
  BY MemberType
<1>2. e \in Entry /\ e.sock = x /\ e.signed = s.members[u].signed
  BY <1>1 DEF Entry
<1>3. e # NoOne
  BY <1>2, NullAssumption
<1>4. [s EXCEPT !.members[u].sock = x] = c
  BY DEF States
<1> HIDE DEF e
<1>5. c \in States /\ c.phase = s.phase
  BY <1>2, EntryType DEF States
<1>6. c.members[u] = e /\ \A v \in Users \ {u} : c.members[v] = s.members[v]
  BY ChangedFacts DEF States
<1> HIDE DEF c
<1> QED BY <1>2, <1>3, <1>4, <1>5, <1>6

LEMMA SockHonest ==
  ASSUME IInv, NEW s \in States, NEW u \in Users, NEW x \in Sockets \cup {NoOne}, s.members[u] # NoOne, Honest(s)
  PROVE  Honest([s EXCEPT !.members[u].sock = x])
<1> DEFINE c == [s EXCEPT !.members[u].sock = x]
<1>1. /\ c.members[u] # NoOne /\ c.members[u].signed = s.members[u].signed
      /\ \A v \in Users \ {u} : c.members[v] = s.members[v]
  BY SockFacts, ZenonT(60)
<1> HIDE DEF c
<1>2. rows \subseteq Users
  BY DEF IInv, Typed
<1>3. ASSUME NEW v \in rows \ Coming PROVE c.members[v] # NoOne /\ (c.members[v].signed => v \in agreed)
  BY <1>1, <1>2 DEF Honest
<1>4. Honest(c)
  BY <1>3 DEF Honest
<1> QED BY <1>4 DEF c

LEMMA PhaseHonest ==
  ASSUME NEW s \in States, NEW p, Honest(s)
  PROVE  Honest([s EXCEPT !.phase = p])
<1>1. [s EXCEPT !.phase = p].members = s.members
  BY DEF States
<1> QED BY <1>1 DEF Honest

LEMMA ConnectSigned ==
  ASSUME IInv, Ordered, Signed, mix \notin SignatureLost, NEW t \in Tasks,
         \/ ConnCheck(t) \/ ConnMember(t) \/ ConnRead(t) \/ ConnSave(t)
         \/ ContractRead(t) \/ ContractSave(t) \/ ContractDB(t)
  PROVE  Signed'
<1>1. task[t].pc \in Connecting
  BY DEF ConnCheck, ConnMember, ConnRead, ConnSave, ContractRead, ContractSave, ContractDB, Read, Save, At,
         Connecting
<1>2. task[t].kind = "connect"
  BY <1>1 DEF Ordered, Course, Connecting, Joining, Dropping, Cleaning, Kicking, Beginning
<1>3. task[t].pc \notin {"join_read", "join_save"}
  BY <1>1, CleanPCs
<1>k. "connect" \in Kinds /\ {"conn_save", "contract_save"} \subseteq Saves
  BY DEF Kinds, Saves, Holding
<1>s. {"conn_member", "conn_read", "contract_read", "contract_db"} \subseteq Silent
  BY DEF Silent
<1>m. ASSUME NEW pc \in Silent, Goes(t, pc) \/ Stops(t), UNCHANGED <<rows, agreed, mix, cache>> PROVE Signed'
  BY <1>2, <1>3, <1>m, MovedSigned
<1>4. CASE ConnCheck(t)
  <2>1. UNCHANGED <<rows, agreed, mix, cache>>
    BY <1>4 DEF ConnCheck, stores, trial, history
  <2>2. Goes(t, "conn_member") \/ Stops(t)
    BY <1>4, SeenFields, ReturnFields DEF ConnCheck
  <2> QED BY <1>m, <1>s, <2>1, <2>2
<1>5. CASE ConnMember(t)
  <2>1. UNCHANGED <<rows, agreed, mix, cache>>
    BY <1>5, SMTT(30) DEF ConnMember, stores, trial, history
  <2>2. Goes(t, "conn_read") \/ Stops(t)
    BY <1>5, SeenFields, ReturnFields DEF ConnMember
  <2> QED BY <1>m, <1>s, <2>1, <2>2, SMTT(30)
<1>6. CASE ConnRead(t)
  <2>1. UNCHANGED <<rows, agreed, mix, cache>> /\ task[t].pc = "conn_read"
    BY <1>6 DEF ConnRead, Read, At, stores, trial, history
  <2>2. CASE Goto(t, "contract_read")
    BY <1>m, <1>s, <2>1, <2>2, GotoFields
  <2>3. CASE cache # NoOne /\ task' = [task EXCEPT ![t].pc = "conn_save", ![t].seen = cache]
    BY <1>2, <1>k, <2>1, <2>3, ReadSigned
  <2> QED BY <1>6, <2>2, <2>3 DEF ConnRead, Read
<1>7. CASE ConnSave(t)
  <2>1. task[t].pc = "conn_save"
    BY <1>7 DEF ConnSave, Save, At
  <2>2. PICK s \in States, u \in Users, x \in Sockets \cup {NoOne} :
          s = task[t].seen /\ u = task[t].who /\ x = task[t].sock /\ s.members[u] # NoOne
    BY <2>1, TaskFacts DEF TaskOK, TaskStates, Holding, Serving
  <2> DEFINE c == [s EXCEPT !.members[u].sock = x]
  <2>3. Save(t, "conn_save", "contract_read", c) /\ UNCHANGED agreed
    BY <1>7, <2>2 DEF ConnSave
  <2>4. Honest(s) => Honest(c)
    BY <2>2, SockHonest
  <2> HIDE DEF c
  <2> QED BY <1>2, <1>k, <1>s, <2>1, <2>2, <2>3, <2>4, WrittenSigned
<1>8. CASE ContractRead(t)
  <2>1. UNCHANGED <<rows, agreed, mix, cache>> /\ task[t].pc = "contract_read"
    BY <1>8 DEF ContractRead, Read, At, stores, trial, history
  <2>2. CASE Return(t)
    BY <1>m, <1>s, <2>1, <2>2, ReturnFields
  <2>3. CASE cache # NoOne /\ task' = [task EXCEPT ![t].pc = "contract_save", ![t].seen = cache]
    BY <1>2, <1>k, <2>1, <2>3, ReadSigned
  <2> QED BY <1>8, <2>2, <2>3 DEF ContractRead, Read
<1>9. CASE ContractSave(t)
  <2>1. task[t].pc = "contract_save"
    BY <1>9 DEF ContractSave, Save, At
  <2>2. PICK s \in States : s = task[t].seen
    BY <2>1, TaskFacts DEF TaskOK, Holding
  <2> DEFINE c == [s EXCEPT !.phase = "contract"]
  <2>3. Save(t, "contract_save", "contract_db", c) /\ UNCHANGED agreed
    BY <1>9, <2>2 DEF ContractSave, history
  <2>4. Honest(s) => Honest(c)
    BY PhaseHonest
  <2> HIDE DEF c
  <2> QED BY <1>2, <1>k, <1>s, <2>1, <2>2, <2>3, <2>4, WrittenSigned
<1>10. CASE ContractDB(t)
  <2>1. UNCHANGED <<rows, agreed, mix, cache>>
    BY <1>10 DEF ContractDB, trial, history
  <2> QED BY <1>m, <1>s, <1>10, <2>1, ReturnFields DEF ContractDB
<1> QED BY <1>4, <1>5, <1>6, <1>7, <1>8, <1>9, <1>10

LEMMA DropSigned ==
  ASSUME IInv, Ordered, Signed, mix \notin SignatureLost, NEW t \in Tasks,
         DropCheck(t) \/ DropRead(t) \/ DropSave(t) \/ DropCount(t)
  PROVE  Signed'
<1>1. task[t].pc \in Dropping
  BY DEF DropCheck, DropRead, DropSave, DropCount, Read, Save, At, Dropping
<1>2. task[t].kind = "drop"
  BY <1>1 DEF Ordered, Course, Connecting, Joining, Dropping, Cleaning, Kicking, Beginning
<1>3. task[t].pc \notin {"join_read", "join_save"}
  BY <1>1, CleanPCs
<1>k. "drop" \in Kinds /\ "drop_save" \in Saves \ {"join_save"} /\ {"drop_read", "drop_count"} \subseteq Silent
  BY DEF Kinds, Saves, Holding, Silent
<1>m. ASSUME NEW pc \in Silent, Goes(t, pc) \/ Stops(t), UNCHANGED <<rows, agreed, mix, cache>> PROVE Signed'
  BY <1>2, <1>3, <1>m, MovedSigned
<1>4. CASE DropCheck(t)
  <2>1. UNCHANGED <<rows, agreed, mix, cache>>
    BY <1>4 DEF DropCheck, Read, stores, trial, history
  <2>2. Goes(t, "drop_read") \/ Stops(t)
    BY <1>4, SeenFields, ReturnFields DEF DropCheck, Read
  <2> QED BY <1>k, <1>m, <2>1, <2>2
<1>5. CASE DropRead(t)
  <2>1. UNCHANGED <<rows, agreed, mix, cache>> /\ task[t].pc = "drop_read"
    BY <1>5 DEF DropRead, Read, At, stores, trial, history
  <2>2. CASE Goto(t, "drop_count")
    BY <1>k, <1>m, <2>1, <2>2, GotoFields
  <2>3. CASE cache # NoOne /\ task' = [task EXCEPT ![t].pc = "drop_save", ![t].seen = cache]
    BY <1>2, <1>k, <2>1, <2>3, ReadSigned
  <2> QED BY <1>5, <2>2, <2>3 DEF DropRead, Read
<1>6. CASE DropSave(t)
  <2>1. task[t].pc = "drop_save"
    BY <1>6 DEF DropSave, Save, At
  <2>2. PICK s \in States, u \in Users : s = task[t].seen /\ u = task[t].who /\ s.members[u] # NoOne
    BY <2>1, TaskFacts DEF TaskOK, Holding, Serving
  <2> DEFINE c == [s EXCEPT !.members[u].sock = NoOne]
  <2>3. Save(t, "drop_save", "drop_count", c) /\ UNCHANGED agreed
    BY <1>6, <2>2 DEF DropSave, history
  <2>4. Honest(s) => Honest(c)
    BY <2>2, SockHonest
  <2> HIDE DEF c
  <2> QED BY <1>2, <1>k, <2>1, <2>2, <2>3, <2>4, WrittenSigned
<1>7. CASE DropCount(t)
  <2>1. UNCHANGED <<rows, agreed, mix, cache>>
    BY <1>7 DEF DropCount, stores, trial, history
  <2> QED BY <1>k, <1>m, <1>7, <2>1, ReturnFields DEF DropCount
<1> QED BY <1>4, <1>5, <1>6, <1>7

LEMMA CleanupSigned ==
  ASSUME IInv, Ordered, Signed, mix \notin SignatureLost, NEW t \in Tasks,
         CleanupActive(t) \/ CleanupCount(t) \/ Delete(t)
  PROVE  Signed'
<1>1. task[t].pc \in Cleaning
  BY DEF CleanupActive, CleanupCount, Delete, At, Cleaning
<1>2. task[t].kind \in {"cleanup", "leave"}
  BY <1>1 DEF Ordered, Course, Connecting, Joining, Dropping, Cleaning, Kicking, Beginning
<1>3. task[t].pc \notin {"join_read", "join_save"}
  BY <1>1, CleanPCs
<1>4. UNCHANGED <<rows, agreed, mix>>
  BY DEF CleanupActive, CleanupCount, Delete, stores, trial, history
<1>5. cache' \in {cache, NoOne}
  BY DEF CleanupActive, CleanupCount, Delete, stores
<1>6. Stops(t) \/ \E pc \in {"cleanup_count", "delete"} : Goes(t, pc)
  <2>1. CASE CleanupActive(t)
    BY <2>1, GotoFields, ReturnFields DEF CleanupActive, CleanupDone
  <2>2. CASE CleanupCount(t)
    <3>1. ASSUME task' = [task EXCEPT ![t].pc = "delete", ![t].todo = {"state", "phase"}] PROVE Goes(t, "delete")
      BY <3>1, TaskFacts DEF Goes, Others, TaskStates
    <3> QED BY <2>2, <3>1, ReturnFields DEF CleanupCount, CleanupDone
  <2>3. CASE Delete(t)
    BY <2>3, DeleteFields
  <2> QED BY <2>1, <2>2, <2>3
<1>7. {"cleanup_count", "delete"} \subseteq Silent
  BY DEF Silent
<1> QED BY <1>2, <1>3, <1>4, <1>5, <1>6, <1>7, MovedSigned

\* A member's row is gone, and the state is next.
LEMMA GoneRowSigned ==
  ASSUME IInv, Ordered, Signed, mix \notin SignatureLost, NEW t \in Tasks, NEW pc \in {"leave_read", "kick_read"},
         Goto(t, pc), rows' = rows \ {task[t].who}, UNCHANGED <<agreed, cache, mix>>,
         task[t].kind \in {"leave", "kick", "force"}, task[t].pc \in {"leave_row", "kick_row"}
  PROVE  Signed'
<1>1. Goes(t, pc) /\ Same(t)
  BY GotoFields
<1>2. Coming \subseteq Coming'
  BY <1>1, ComingKeeps DEF Goes
<1>3. Steady
  BY <1>2 DEF Steady
<1>4. Sure(task[t])
  BY DEF Signed
<1>5. (pc \notin Saves /\ task[t].pc = "kick_row") \/ task[t].pc = "leave_row"
  BY DEF Saves, Holding
<1>6. task'[t].kind = "force" => task[t].pc = "kick_row" /\ task[t].pc \in Kicking
  BY <1>1 DEF Ordered, Course, Goes, Kicking, Beginning
<1>7. task'[t].kind = "force" => task'[t].flag \/ \A u \in rows' : u \in agreed' \/ \E p \in task'[t].todo : p[1] = u
  BY <1>1, <1>4, <1>6 DEF Sure, Goes, Same
<1>8. task'[t].pc \notin Saves \cup {"start_db", "force_check"}
  BY <1>1 DEF Goes, Saves, Holding
<1>9. task'[t].who \notin rows' /\ task'[t].kind # "edited"
  BY <1>1 DEF Same, Goes
<1>10. Sure(task[t])'
  BY <1>7, <1>8, <1>9 DEF Sure
<1> QED BY <1>1, <1>3, <1>10, SignedKept DEF Goes

\* A kick goes on, or is tried once more.
LEMMA KickOnSigned ==
  ASSUME IInv, Ordered, Signed, mix \notin SignatureLost, NEW t \in Tasks,
         NEW pc \in {"kick_row", "kick_ban", "kick_socket", "force_next"}, Goes(t, pc),
         UNCHANGED <<rows, agreed, cache, mix>>,
         task'[t].who = task[t].who, task'[t].todo = task[t].todo, task'[t].flag \/ task'[t].flag = task[t].flag,
         task[t].pc \in Kicking, task[t].kind \in {"kick", "force"},
         pc \in Left => task[t].pc \in Left,
         pc = "force_next" => task[t].pc # "kick_row" \/ task'[t].flag,
         task[t].pc = "kick_row" => pc \in {"kick_row", "force_next"}
  PROVE  Signed'
<1>1. Sure(task[t])
  BY DEF Signed
<1>2. Steady
  <2>1. task[t].pc \notin {"join_read", "join_save"}
    BY CleanPCs
  <2> QED BY <2>1, SteadyNow DEF Goes
<1>3. task'[t].pc \notin Saves \cup {"start_db", "force_check"} /\ task'[t].kind \notin {"edited", "sign"}
  BY DEF Goes, Saves, Holding
<1>4. task'[t].pc \in Left => task'[t].who \notin rows'
  BY <1>1 DEF Sure, Goes
<1>5. task'[t].kind = "force" =>
        task'[t].flag \/ \A u \in rows' : \/ u \in agreed'
                                          \/ \E p \in task'[t].todo : p[1] = u
                                          \/ task'[t].pc = "kick_row" /\ u = task'[t].who
  BY <1>1 DEF Sure, Goes
<1>6. Sure(task[t])'
  BY <1>3, <1>4, <1>5 DEF Sure
<1> QED BY <1>2, <1>6, SignedKept DEF Goes

\* The entry of somebody without a row is written out of the state.
LEMMA GoneEntrySigned ==
  ASSUME IInv, Ordered, Signed, mix \notin SignatureLost, NEW t \in Tasks,
         NEW s \in States, NEW u \in Users, s = task[t].seen, u = task[t].who,
         cache' = [s EXCEPT !.members[u] = NoOne], agreed' = agreed \ {u}, UNCHANGED <<rows, mix>>,
         task[t].pc \in {"leave_save", "kick_save"}, task[t].kind \in {"leave", "kick", "force"},
         \/ Stops(t)
         \/ Goes(t, "kick_ban") /\ Same(t) /\ task[t].pc = "kick_save"
  PROVE  Signed'
<1> DEFINE c == [s EXCEPT !.members[u] = NoOne]
<1>1. c.members[u] = NoOne /\ \A v \in Users \ {u} : c.members[v] = s.members[v]
  BY ChangedFacts DEF States
<1>2. cache' = c
  OBVIOUS
<1> HIDE DEF c
<1>3. Sure(task[t]) /\ u \notin rows /\ Honest(s)
  BY DEF Signed, Sure, Left, Saves, Holding
<1>4. Others(t) /\ Coming \subseteq Coming'
  BY ComingKeeps DEF Stops, Goes
<1>5. Steady
  BY <1>3, <1>4 DEF Steady
<1>6. Honest(c)'
  <2>1. Honest(s)'
    BY <1>3, <1>5, SteadyState
  <2>2. rows' \subseteq Users /\ u \notin rows'
    BY <1>3 DEF IInv, Typed
  <2>3. \A v \in rows' \ Coming' : c.members[v] = s.members[v]
    BY <1>1, <2>2
  <2> QED BY <2>1, <2>3 DEF Honest
<1>7. Sure(task[t])'
  <2>1. CASE Stops(t)
    BY <2>1, IdleFields DEF Stops, Sure, Saves, Holding, Left, Kicking
  <2>2. CASE Goes(t, "kick_ban") /\ Same(t) /\ task[t].pc = "kick_save"
    <3>1. task'[t].pc \notin Saves \cup {"start_db", "force_check"} /\ task'[t].kind # "edited"
      BY <2>2 DEF Goes, Saves, Holding
    <3>2. task'[t].who \notin rows'
      BY <1>3, <2>2 DEF Same
    <3>3. "kick_save" \in Kicking
      BY DEF Kicking
    <3>4. task'[t].kind = "force" =>
            task'[t].flag \/ \A v \in rows' : v \in agreed' \/ \E p \in task'[t].todo : p[1] = v
      BY <1>3, <2>2, <3>3 DEF Sure, Goes, Same
    <3> QED BY <3>1, <3>2, <3>4 DEF Sure
  <2> QED BY <2>1, <2>2
<1> QED BY <1>2, <1>4, <1>5, <1>6, <1>7, SignedSaved

LEMMA LeaveSigned ==
  ASSUME IInv, Ordered, Signed, mix \notin SignatureLost, NEW t \in Tasks,
         LeaveRow(t) \/ LeaveRead(t) \/ LeaveSave(t)
  PROVE  Signed'
<1>1. task[t].pc \in {"leave_row", "leave_read", "leave_save"}
  BY DEF LeaveRow, LeaveRead, LeaveSave, Read, Save, At
<1>2. task[t].kind = "leave"
  BY <1>1 DEF Ordered, Course, Connecting, Joining, Dropping, Cleaning, Kicking, Beginning
<1>k. "leave" \in Kinds /\ "leave_save" \in Saves
  BY DEF Kinds, Saves, Holding
<1>3. CASE LeaveRow(t)
  <2>1. UNCHANGED <<agreed, cache, mix>> /\ task[t].pc = "leave_row"
    BY <1>3 DEF LeaveRow, At, trial, history
  <2> QED BY <1>2, <1>3, <2>1, GoneRowSigned DEF LeaveRow
<1>4. CASE LeaveRead(t)
  <2>1. UNCHANGED <<rows, agreed, mix, cache>> /\ task[t].pc = "leave_read"
    BY <1>4 DEF LeaveRead, Read, At, stores, trial, history
  <2>2. CASE Return(t)
    BY <1>2, <2>1, <2>2, ReturnFields, StopSigned
  <2>3. CASE cache # NoOne /\ task' = [task EXCEPT ![t].pc = "leave_save", ![t].seen = cache]
    BY <1>2, <1>k, <2>1, <2>3, ReadSigned
  <2> QED BY <1>4, <2>2, <2>3 DEF LeaveRead, Read
<1>5. CASE LeaveSave(t)
  <2>1. task[t].pc = "leave_save"
    BY <1>5 DEF LeaveSave, Save, At
  <2>2. PICK s \in States, u \in Users : s = task[t].seen /\ u = task[t].who
    BY <2>1, TaskFacts DEF TaskOK, Holding, Serving
  <2>3. /\ cache' = [s EXCEPT !.members[u] = NoOne] /\ agreed' = agreed \ {u} /\ UNCHANGED <<rows, mix>>
        /\ Return(t)
    BY <1>5, <2>2 DEF LeaveSave, Save, trial
  <2> QED BY <1>2, <2>1, <2>2, <2>3, ReturnFields, GoneEntrySigned
<1> QED BY <1>3, <1>4, <1>5

LEMMA KickSigned ==
  ASSUME IInv, Ordered, Signed, mix \notin SignatureLost, NEW t \in Tasks,
         \/ KickHost(t) \/ KickRow(t) \/ KickRead(t) \/ KickSave(t) \/ KickBan(t)
         \/ KickFault(t) \/ KickSocket(t)
  PROVE  Signed'
<1>1. task[t].pc \in Kicking
  BY DEF KickHost, KickRow, KickRead, KickSave, KickBan, KickFault, KickSocket, Read, Save, At, Kicking
<1>2. task[t].kind \in {"kick", "force"}
  BY <1>1, TaskFacts DEF TaskOK
<1>3. task[t].pc \notin {"join_read", "join_save"}
  BY <1>1, CleanPCs
<1>k. {"kick", "force"} \subseteq Kinds /\ "kick_save" \in Saves
  BY DEF Kinds, Saves, Holding
<1>s. ASSUME Stops(t), UNCHANGED <<rows, agreed, mix, cache>> PROVE Signed'
  BY <1>2, <1>3, <1>s, StopSigned
<1>4. CASE KickHost(t)
  <2>1. UNCHANGED <<rows, agreed, mix, cache>> /\ task[t].pc = "kick_host"
    BY <1>4 DEF KickHost, At, stores, trial, history
  <2>2. task[t].kind = "kick"
    BY <1>2, <2>1 DEF Ordered, Course, Kicking, Beginning
  <2>3. CASE Goto(t, "kick_row")
    <3>1. Goes(t, "kick_row")
      BY <2>3, GotoFields
    <3> QED BY <2>1, <2>2, <3>1, QuietSigned DEF QuietStep, Goes, Saves, Holding, Left
  <2> QED BY <1>4, <1>s, <2>1, <2>3, ReturnFields DEF KickHost
<1>5. CASE KickRow(t)
  <2>1. UNCHANGED <<agreed, cache, mix>> /\ task[t].pc = "kick_row"
    BY <1>5 DEF KickRow, At, trial, history
  <2> QED BY <1>2, <1>5, <2>1, GoneRowSigned DEF KickRow
<1>6. CASE KickRead(t)
  <2>1. UNCHANGED <<rows, agreed, mix, cache>> /\ task[t].pc = "kick_read"
    BY <1>6 DEF KickRead, Read, At, stores, trial, history
  <2>2. CASE Goto(t, "kick_ban")
    <3>1. Goes(t, "kick_ban") /\ Same(t)
      BY <2>2, GotoFields
    <3> QED BY <1>1, <1>2, <2>1, <3>1, KickOnSigned DEF Same, Left
  <2>3. CASE cache # NoOne /\ task' = [task EXCEPT ![t].pc = "kick_save", ![t].seen = cache]
    BY <1>2, <1>k, <2>1, <2>3, ReadSigned
  <2> QED BY <1>6, <2>2, <2>3 DEF KickRead, Read
<1>7. CASE KickSave(t)
  <2>1. task[t].pc = "kick_save"
    BY <1>7 DEF KickSave, Save, At
  <2>2. PICK s \in States, u \in Users : s = task[t].seen /\ u = task[t].who
    BY <2>1, TaskFacts DEF TaskOK, Holding, Serving, Kicking
  <2>3. /\ cache' = [s EXCEPT !.members[u] = NoOne] /\ agreed' = agreed \ {u} /\ UNCHANGED <<rows, mix>>
        /\ task' = [task EXCEPT ![t].pc = "kick_ban", ![t].seen = NoOne]
    BY <1>7, <2>2 DEF KickSave, Save, trial
  <2>4. Goes(t, "kick_ban") /\ Same(t)
    BY <2>3, SeenFields
  <2> QED BY <1>2, <2>1, <2>2, <2>3, <2>4, GoneEntrySigned
<1>8. CASE KickBan(t)
  <2>1. UNCHANGED <<rows, agreed, mix, cache>> /\ task[t].pc = "kick_ban"
    BY <1>8 DEF KickBan, At, trial, history
  <2>2. Goes(t, "kick_socket") /\ Same(t)
    BY <1>8, GotoFields DEF KickBan
  <2> QED BY <1>1, <1>2, <2>1, <2>2, KickOnSigned DEF Same, Left
<1>9. CASE KickFault(t)
  <2>1. UNCHANGED <<rows, agreed, mix, cache>>
    BY <1>9 DEF KickFault, stores, trial, history
  <2>2. CASE Goes(t, "kick_row") /\ task'[t].flag = task[t].flag /\ task'[t].who = task[t].who
             /\ task'[t].todo = task[t].todo
    BY <1>1, <1>2, <2>1, <2>2, KickOnSigned DEF Left
  <2>3. CASE Goes(t, "force_next") /\ task'[t].flag /\ task'[t].who = task[t].who
             /\ task'[t].todo = task[t].todo
    BY <1>1, <1>2, <2>1, <2>3, KickOnSigned DEF Left
  <2> QED BY <1>9, <1>s, <2>1, <2>2, <2>3, FaultFields
<1>10. CASE KickSocket(t)
  <2>1. UNCHANGED <<rows, agreed, mix, cache>> /\ task[t].pc = "kick_socket"
    BY <1>10 DEF KickSocket, At, stores, trial
  <2>2. CASE Goto(t, "force_next")
    <3>1. Goes(t, "force_next") /\ Same(t)
      BY <2>2, GotoFields
    <3> QED BY <1>1, <1>2, <2>1, <3>1, KickOnSigned DEF Same, Left
  <2> QED BY <1>10, <1>s, <2>1, <2>2, ReturnFields DEF KickSocket
<1> QED BY <1>4, <1>5, <1>6, <1>7, <1>8, <1>9, <1>10

\* A start is let through by a state in which everybody has signed.
LEMMA AllSigned ==
  ASSUME IInv, Ordered, Signed, mix \notin SignatureLost, NEW t \in Tasks,
         task[t].kind \in {"start", "force"}, cache # NoOne, NEW u \in rows \ Unsigned(cache)
  PROVE  u \in agreed
<1>1. task[t].kind \in Kinds \ {"cleanup", "sign", "edited"}
  BY DEF Kinds
<1>2. Honest(cache)
  BY <1>1, FreeFacts DEF Signed
<1>3. u \notin Coming
  <2>1. ASSUME NEW o \in Tasks, task[o].pc \in {"join_read", "join_save"} PROVE FALSE
    <3>1. task[o].kind = "join"
      BY <2>1, TaskFacts DEF TaskOK, Joining
    <3> QED BY <3>1, AloneFacts
  <2> QED BY <2>1 DEF Coming
<1>4. u \in Users
  BY DEF IInv, Typed
<1> QED BY <1>2, <1>3, <1>4 DEF Honest, Unsigned

\* A start that may begin: everybody with a row has signed.
LEMMA BegunSigned ==
  ASSUME IInv, Ordered, Signed, mix \notin SignatureLost, NEW t \in Tasks, Goes(t, "start_db"),
         UNCHANGED <<rows, agreed, cache, mix>>, task[t].kind \in {"start", "force"},
         task[t].pc \notin {"join_read", "join_save"}, rows \subseteq agreed
  PROVE  Signed'
<1>1. Steady
  BY SteadyNow DEF Goes
<1>2. Sure(task[t])'
  BY DEF Goes, Sure, Saves, Holding, Left, Kicking
<1> QED BY <1>1, <1>2, SignedKept DEF Goes

LEMMA StartSigned ==
  ASSUME IInv, Ordered, Signed, mix \notin SignatureLost, NEW t \in Tasks,
         StartSign(t) \/ StartDB(t) \/ StartRead(t) \/ StartSave(t)
  PROVE  Signed'
<1>1. task[t].pc \in Beginning \cup {"start_sign"}
  BY DEF StartSign, StartDB, StartRead, StartSave, Read, Save, At, Beginning
<1>2. task[t].kind \in {"start", "force"}
  BY <1>1 DEF Ordered, Course, Connecting, Joining, Dropping, Cleaning, Kicking, Beginning
<1>3. task[t].pc \notin {"join_read", "join_save"}
  BY <1>1, CleanPCs
<1>k. {"start", "force"} \subseteq Kinds /\ "start_save" \in Saves
  BY DEF Kinds, Saves, Holding
<1>4. CASE StartSign(t)
  <2>1. UNCHANGED <<rows, agreed, mix, cache>> /\ task[t].pc = "start_sign"
    BY <1>4 DEF StartSign, At, stores, trial, history
  <2>2. CASE Return(t)
    BY <1>2, <1>3, <2>1, <2>2, ReturnFields, StopSigned
  <2>3. CASE cache # NoOne /\ Unsigned(cache) = {} /\ Goto(t, "start_db")
    BY <1>2, <1>3, <2>1, <2>3, GotoFields, AllSigned, BegunSigned
  <2> QED BY <1>4, <2>2, <2>3 DEF StartSign
<1>5. CASE StartDB(t)
  <2>1. UNCHANGED <<rows, agreed, mix, cache>>
    BY <1>5 DEF StartDB, trial, history
  <2>2. Goes(t, "start_read") /\ "start_read" \in Silent
    BY <1>5, GotoFields DEF StartDB, Silent
  <2> QED BY <1>2, <1>3, <2>1, <2>2, MovedSigned
<1>6. CASE StartRead(t)
  <2>1. UNCHANGED <<rows, agreed, mix, cache>> /\ task[t].pc = "start_read"
    BY <1>6 DEF StartRead, Read, At, stores, trial, history
  <2>2. CASE Return(t)
    BY <1>2, <1>3, <2>1, <2>2, ReturnFields, StopSigned
  <2>3. CASE cache # NoOne /\ task' = [task EXCEPT ![t].pc = "start_save", ![t].seen = cache]
    BY <1>2, <1>k, <2>1, <2>3, ReadSigned
  <2> QED BY <1>6, <2>2, <2>3 DEF StartRead, Read
<1>7. CASE StartSave(t)
  <2>1. task[t].pc = "start_save"
    BY <1>7 DEF StartSave, Save, At
  <2>2. PICK s \in States : s = task[t].seen
    BY <2>1, TaskFacts DEF TaskOK, Holding
  <2> DEFINE c == [s EXCEPT !.phase = "timer"]
  <2>3. Save(t, "start_save", "return", c) /\ UNCHANGED agreed
    BY <1>7, <2>2 DEF StartSave, history
  <2>4. Honest(s) => Honest(c)
    BY PhaseHonest
  <2> HIDE DEF c
  <2> QED BY <1>k, <2>1, <2>2, <2>3, <2>4, WrittenSigned
<1> QED BY <1>4, <1>5, <1>6, <1>7

\* Everybody who has not signed is put on the list.
LEMMA ListSigned ==
  ASSUME IInv, Ordered, Signed, mix \notin SignatureLost, NEW t \in Tasks, ForceSign(t)
  PROVE  Signed'
<1>1. UNCHANGED <<rows, agreed, mix, cache>> /\ task[t].pc = "force_sign" /\ task[t].kind = "force"
  BY SignFields DEF ForceSign, stores, trial, history
<1>2. CASE Stops(t)
  BY <1>1, <1>2, StopSigned
<1>3. CASE cache # NoOne /\ Unsigned(cache) = {} /\ Goes(t, "start_db")
  BY <1>1, <1>3, AllSigned, BegunSigned
<1>4. ASSUME NEW f, cache # NoOne, Goes(t, "force_next"), task'[t].todo = {<<u, f[u]>> : u \in Unsigned(cache)}
      PROVE  Signed'
  <2>1. Steady
    BY <1>1, <1>4, SteadyNow DEF Goes
  <2>2. ASSUME NEW u \in rows PROVE u \in agreed \/ \E p \in task'[t].todo : p[1] = u
    <3>1. CASE u \in Unsigned(cache)
      <4>1. <<u, f[u]>> \in task'[t].todo /\ <<u, f[u]>>[1] = u
        BY <1>4, <3>1
      <4> QED BY <4>1
    <3> QED BY <1>1, <1>4, <3>1, AllSigned
  <2>3. \A u \in rows' : u \in agreed' \/ \E p \in task'[t].todo : p[1] = u
    BY <1>1, <2>2
  <2>4. task'[t].pc \notin Saves \cup Left \cup {"start_db", "force_check"} /\ task'[t].kind # "edited"
    BY <1>1, <1>4 DEF Goes, Saves, Holding, Left
  <2>5. Sure(task[t])'
    BY <2>3, <2>4 DEF Sure
  <2> QED BY <1>1, <1>4, <2>1, <2>5, SignedKept DEF Goes
<1> QED BY <1>2, <1>3, <1>4, SignFields

\* The next one on the list is served, and after the last one nobody is left
\* who has not signed.
LEMMA NextSigned ==
  ASSUME IInv, Ordered, Signed, mix \notin SignatureLost, NEW t \in Tasks, ForceNext(t)
  PROVE  Signed'
<1>1. UNCHANGED <<rows, agreed, mix, cache>> /\ task[t].pc = "force_next" /\ task[t].kind = "force"
  BY NextFields, Zenon DEF ForceNext, stores, trial, history
<1>2. task[t].flag \/ \A u \in rows : u \in agreed \/ \E p \in task[t].todo : p[1] = u
  BY <1>1 DEF Signed, Sure
<1>3. CASE Stops(t)
  BY <1>1, <1>3, StopSigned
<1>4. CASE task[t].todo = {} /\ ~task[t].flag /\ Goes(t, "force_check") /\ Same(t)
  <2>1. Steady
    BY <1>1, <1>4, SteadyNow DEF Goes
  <2>2. Sure(task[t])'
    BY <1>1, <1>2, <1>4 DEF Goes, Same, Sure, Saves, Holding, Left
  <2> QED BY <1>1, <1>4, <2>1, <2>2, SignedKept DEF Goes
<1>5. ASSUME NEW k \in task[t].todo, Goes(t, "kick_row"), task'[t].who = k[1],
             task'[t].todo = task[t].todo \ {k}, task'[t].flag = task[t].flag
      PROVE  Signed'
  <2>1. Steady
    BY <1>1, <1>5, SteadyNow DEF Goes
  <2>2. task'[t].flag \/ \A u \in rows' : \/ u \in agreed'
                                          \/ \E p \in task'[t].todo : p[1] = u
                                          \/ u = task'[t].who
    BY <1>1, <1>2, <1>5
  <2>3. task'[t].pc \notin Saves \cup Left \cup {"start_db", "force_check"} /\ task'[t].kind # "edited"
    BY <1>1, <1>5 DEF Goes, Saves, Holding, Left
  <2>4. task'[t].pc = "kick_row"
    BY <1>5 DEF Goes
  <2>5. Sure(task[t])'
    BY <2>2, <2>3, <2>4 DEF Sure
  <2> QED BY <1>1, <1>5, <2>1, <2>5, SignedKept DEF Goes
<1> QED BY <1>3, <1>4, <1>5, NextFields, SMTT(30)

LEMMA ForceSigned ==
  ASSUME IInv, Ordered, Signed, mix \notin SignatureLost, NEW t \in Tasks, ForceCheck(t) \/ EntrySave(t)
  PROVE  Signed'
<1>1. CASE ForceCheck(t)
  <2>1. UNCHANGED <<rows, agreed, mix, cache>> /\ task[t].pc = "force_check"
    BY <1>1 DEF ForceCheck, At, stores, trial, history
  <2>2. task[t].kind = "force"
    BY <2>1 DEF Ordered, Course, Connecting, Joining, Dropping, Cleaning, Kicking, Beginning
  <2>3. rows \subseteq agreed
    BY <2>1, <2>2 DEF Signed, Sure
  <2>4. CASE Return(t)
    BY <2>1, <2>2, <2>4, ReturnFields, StopSigned
  <2>5. CASE Goto(t, "start_db")
    BY <2>1, <2>2, <2>3, <2>5, GotoFields, BegunSigned
  <2> QED BY <1>1, <2>4, <2>5 DEF ForceCheck
<1>2. CASE EntrySave(t)
  <2>1. "entry_save" \in Saves
    BY DEF Saves, Holding
  <2>2. PICK c : c = task[t].seen
    OBVIOUS
  <2>3. Save(t, "entry_save", "return", c) /\ UNCHANGED agreed
    BY <1>2, <2>2 DEF EntrySave, history
  <2> QED BY <2>1, <2>2, <2>3, WrittenSigned
<1> QED BY <1>1, <1>2

LEMMA BeginSigned ==
  ASSUME Signed, mix \notin SignatureLost, NEW t \in Tasks, NEW kind, NEW pc, NEW u,
         Begins(t, kind, pc, u), UNCHANGED <<rows, agreed, mix, cache>>,
         kind # "edited", Course(task[t]),
         pc \in {"join_ban", "leave_row", "kick_host", "conn_check", "drop_check", "delete", "start_sign",
                 "force_sign", "cleanup_active"},
         kind = "force" => pc = "force_sign"
  PROVE  Signed'
<1>1. task[t].kind = "none" /\ task[t].pc = "idle"
  BY DEF Begins, Course
<1> QED BY <1>1, QuietSigned DEF QuietStep, Begins, Saves, Holding, Left, Kicking

\* The signatures are written of a state that has just been read.
LEMMA PermitSigned ==
  ASSUME IInv, Ordered, Signed, mix \notin SignatureLost, NEW t \in Tasks, Permit(t)
  PROVE  Signed'
<1>1. Begins(t, "permit", "entry_save", Host) /\ task'[t].seen = cache
  BY SeenBegins DEF Permit
<1>2. UNCHANGED <<rows, agreed, mix, cache>> /\ cache # NoOne
  BY DEF Permit, stores, trial, history
<1>3. task[t].kind = "none" /\ task[t].pc = "idle"
  BY <1>1 DEF Begins, Ordered, Course
<1>4. SignFree
  <2>1. "permit" \in Kinds \ {"cleanup", "edited"}
    BY DEF Kinds
  <2>2. \A o \in Tasks \ {t} : task[o].kind \notin {"sign", "edited"}
    BY <1>1, <2>1, StartAloneFacts DEF Begins
  <2> QED BY <1>3, <2>2 DEF SignFree
<1>5. Steady
  BY <1>1, <1>2, <1>3, SteadyNow DEF Begins
<1>6. Honest(cache)'
  <2>1. PICK c : c = cache
    OBVIOUS
  <2>2. Honest(c)'
    BY <1>2, <1>4, <1>5, <2>1, SteadyState DEF Signed
  <2> QED BY <1>2, <2>1, <2>2 DEF Honest
<1>7. Sure(task[t])'
  <2>1. task'[t].pc \notin Left \cup Kicking \cup {"start_db", "force_check", "force_next"}
    BY <1>1 DEF Begins, Left, Kicking
  <2>2. Honest(task[t].seen)'
    BY <1>1, <1>2, <1>6 DEF Honest
  <2> QED BY <1>1, <2>1, <2>2 DEF Begins, Sure
<1> QED BY <1>1, <1>2, <1>3, <1>5, <1>7, SignedKept DEF Begins

\* While somebody signs, everybody else who is under way is a cleanup.
LEMMA SignSigned ==
  ASSUME IInv, Ordered, Signed, mix \notin SignatureLost, NEW t \in Tasks, NEW u \in Users, NEW b \in BOOLEAN,
         Sign(t, u, b)
  PROVE  Signed'
<1>1. PICK s \in States : s = cache /\ s.members[u] # NoOne /\ cache # NoOne
  BY DEF Sign, In, IInv, Typed
<1> DEFINE e == [s.members[u] EXCEPT !.signed = b]
           c == [s EXCEPT !.members[u].signed = b]
<1>2. Begins(t, "sign", "entry_save", u) /\ task'[t].seen = c
  BY <1>1, SeenBegins DEF Sign
<1>3. UNCHANGED <<rows, mix, cache>> /\ agreed' = IF b THEN agreed \cup {u} ELSE agreed \ {u}
  BY DEF Sign, stores, trial
<1>4. task[t].kind = "none" /\ task[t].pc = "idle"
  BY <1>2 DEF Begins, Ordered, Course
<1>5. \A o \in Tasks \ {t} : task[o].kind \in {"none", "cleanup"} /\ task'[o] = task[o] /\ Course(task[o])
  BY <1>2, StartAloneFacts DEF Begins, Others, Ordered
<1>6. \A o \in Tasks \ {t} : Sure(task[o])'
  <2> SUFFICES ASSUME NEW o \in Tasks \ {t} PROVE Sure(task[o])'
    OBVIOUS
  <2>1. Course(task'[o]) /\ task'[o].kind \in {"none", "cleanup"}
    BY <1>5
  <2> QED BY <2>1 DEF Course, Sure, Saves, Left, Holding, Cleaning
<1>7. Listed(s) /\ Honest(s)
  <2>1. SignFree
    BY <1>4, <1>5 DEF SignFree
  <2> QED BY <1>1, <2>1 DEF Signed
<1>8. Coming \subseteq Coming'
  BY <1>2, <1>4, ComingKeeps DEF Begins
<1>9. /\ c.members[u] # NoOne /\ c.members[u].signed = b
      /\ \A v \in Users \ {u} : c.members[v] = s.members[v]
  <2>1. s.members[u] \in Entry
    BY <1>1, MemberType
  <2>2. e \in Entry /\ e.signed = b
    BY <2>1 DEF Entry
  <2>3. e # NoOne
    BY <2>2, NullAssumption
  <2>4. c = [s EXCEPT !.members[u] = e]
    BY DEF States
  <2> HIDE DEF e, c
  <2> QED BY <2>2, <2>3, <2>4, ChangedFacts DEF States
<1> HIDE DEF c
<1>10. \A v \in rows \ Coming' : c.members[v] # NoOne /\ (c.members[v].signed => v \in agreed')
  BY <1>3, <1>7, <1>8, <1>9 DEF Honest, IInv, Typed
<1>11. Honest(task[t].seen)'
  BY <1>2, <1>3, <1>10 DEF Honest
<1>12. Sure(task[t])'
  <2>1. task'[t].pc \notin Left \cup Kicking \cup {"start_db", "force_check", "force_next"}
    BY <1>2 DEF Begins, Left, Kicking
  <2> QED BY <1>2, <1>11, <2>1 DEF Begins, Sure
<1>13. Listed(cache)' /\ ~SignFree'
  <2>1. Listed(cache)'
    BY <1>1, <1>3, <1>7, <1>8 DEF Listed
  <2> QED BY <1>2, <2>1 DEF SignFree, Begins
<1> QED BY <1>6, <1>12, <1>13 DEF Signed

\* An edit: nobody's signature counts any more, and those who are signing or
\* editing too write states in which nobody has signed.
LEMMA EditedSigned ==
  ASSUME IInv, Ordered, Signed, mix \notin SignatureLost, NEW t \in Tasks, NEW u \in Users, Edited(t, u)
  PROVE  Signed'
<1>1. PICK s \in States : s = cache
  BY DEF Edited, IInv, Typed
<1> DEFINE c == [s EXCEPT !.members = [v \in Users |->
                  IF In(v) THEN [@[v] EXCEPT !.signed = FALSE] ELSE @[v]]]
<1>2. UNCHANGED <<rows, mix, cache>> /\ agreed' = {} /\ cache # NoOne
  BY DEF Edited, stores, trial
<1>3. MayStart(t, "edited") /\ task[t].kind = "none" /\ task[t].pc = "idle"
  <2>1. Begins(t, "edited", "entry_save", u) \/ MayStart(t, "edited")
    BY <1>1, SeenBegins, Zenon DEF Edited
  <2> QED BY <2>1 DEF Begins, MayStart, Ordered, Course
<1>4. \/ Begins(t, "edited", "entry_save", u) /\ task'[t].seen = c
      \/ task' = task /\ Unsigned(cache) = {v \in Users : In(v)}
  <2>1. \/ Issue(t, [New("edited", "entry_save", u) EXCEPT !.seen = c])
        \/ task' = task /\ Unsigned(cache) = {v \in Users : In(v)}
    BY <1>1, Zenon DEF Edited
  <2> HIDE DEF c
  <2> QED BY <2>1, SeenBegins
<1>5. \A o \in Tasks \ {t} : /\ task[o].kind \in {"none", "cleanup", "edited"} /\ task'[o] = task[o]
                             /\ Course(task[o]) /\ Sure(task[o])
  BY <1>3, <1>4, StartAloneFacts DEF Begins, Others, Ordered, Signed
<1>6. Coming = {} /\ Coming' = {}
  BY <1>3, <1>4, <1>5 DEF Coming, Begins, Course, Cleaning
<1>7. \A o \in Tasks \ {t} : Sure(task[o])'
  <2> SUFFICES ASSUME NEW o \in Tasks \ {t} PROVE Sure(task[o])'
    OBVIOUS
  <2>1. Sure(task[o]) /\ task'[o] = task[o]
    BY <1>5
  <2>2. CASE task[o].kind \in {"none", "cleanup"}
    <3>1. Course(task'[o]) /\ task'[o].kind \in {"none", "cleanup"}
      BY <1>5, <2>2
    <3> QED BY <3>1 DEF Course, Sure, Saves, Left, Holding, Cleaning
  <2>3. CASE task[o].kind = "edited"
    <3>1. task[o].pc = "entry_save" /\ "entry_save" \in Saves
      BY <1>5, <2>3 DEF Course, Saves, Holding
    <3>2. \A v \in rows : task[o].seen.members[v] # NoOne /\ ~task[o].seen.members[v].signed
      BY <1>6, <2>1, <2>3, <3>1 DEF Sure, Honest, IInv, Typed
    <3>3. Honest(task[o].seen)'
      BY <1>2, <2>1, <3>2 DEF Honest
    <3>4. task'[o].pc \notin Left \cup Kicking \cup {"start_db", "force_check", "force_next"}
      BY <2>1, <3>1 DEF Left, Kicking
    <3>5. \A v \in Users : task'[o].seen.members[v] # NoOne => ~task'[o].seen.members[v].signed
      BY <2>1, <2>3 DEF Sure
    <3> QED BY <3>3, <3>4, <3>5 DEF Sure
  <2> QED BY <1>5, <2>2, <2>3
<1>8. \A v \in rows : s.members[v] # NoOne
  BY <1>1, <1>2, <1>6 DEF Signed, Listed
<1>9. Listed(cache)'
  BY <1>1, <1>2, <1>8 DEF Listed
<1>10. CASE task' = task /\ Unsigned(cache) = {v \in Users : In(v)}
  <2>1. Sure(task[t])'
    <3>1. task'[t].kind = "none" /\ task'[t].pc = "idle"
      BY <1>3, <1>10
    <3> QED BY <3>1 DEF Sure, Saves, Left, Holding
  <2>2. \A v \in rows : ~s.members[v].signed
    BY <1>1, <1>2, <1>8, <1>10 DEF Unsigned, In, IInv, Typed
  <2>3. Honest(cache)'
    BY <1>1, <1>2, <1>8, <2>2 DEF Honest
  <2> QED BY <1>7, <1>9, <2>1, <2>3 DEF Signed
<1>11. CASE Begins(t, "edited", "entry_save", u) /\ task'[t].seen = c
  <2>1. ASSUME NEW v \in Users
        PROVE  /\ s.members[v] = NoOne => c.members[v] = NoOne
               /\ s.members[v] # NoOne => c.members[v] # NoOne /\ ~c.members[v].signed
    <3> DEFINE e == [s.members[v] EXCEPT !.signed = FALSE]
    <3>1. c.members[v] = IF s.members[v] # NoOne THEN e ELSE s.members[v]
      BY <1>1, <1>2 DEF States, In
    <3>2. s.members[v] # NoOne => e \in Entry /\ ~e.signed
      BY MemberType DEF Entry
    <3> HIDE DEF e, c
    <3> QED BY <3>1, <3>2, NullAssumption
  <2> HIDE DEF c
  <2>2. \A v \in rows : c.members[v] # NoOne /\ ~c.members[v].signed
    BY <1>8, <2>1 DEF IInv, Typed
  <2>3. Honest(task[t].seen)'
    BY <1>2, <1>11, <2>2 DEF Honest
  <2>4. task'[t].pc \notin Left \cup Kicking \cup {"start_db", "force_check", "force_next"}
    BY <1>11 DEF Begins, Left, Kicking
  <2>5. \A v \in Users : c.members[v] # NoOne => ~c.members[v].signed
    BY <2>1
  <2>6. Sure(task[t])'
    BY <1>11, <2>3, <2>4, <2>5 DEF Begins, Sure
  <2>7. ~SignFree'
    BY <1>11 DEF SignFree, Begins
  <2> QED BY <1>7, <1>9, <2>6, <2>7 DEF Signed
<1> QED BY <1>4, <1>10, <1>11

LEMMA RequestSigned ==
  ASSUME IInv, Ordered, Signed, mix \notin SignatureLost, NEW t \in Tasks, Requests(t)
  PROVE  Signed'
<1>0. Course(task[t])
  BY DEF Ordered
<1>1. CASE \E u \in Users : Join(t, u)
  <2>1. UNCHANGED <<rows, agreed, mix, cache>>
    BY <1>1 DEF Join, stores, trial, history
  <2>2. \E u \in Users : Begins(t, "join", "join_ban", u)
    BY <1>1, FlagBegins DEF Join
  <2> QED BY <1>0, <2>1, <2>2, BeginSigned
<1>2. CASE \E u \in Users : Leave(t, u)
  <2>1. UNCHANGED <<rows, agreed, mix, cache>>
    BY <1>2 DEF Leave, stores, trial, history
  <2>2. \E u \in Users : Begins(t, "leave", "leave_row", u)
    BY <1>2, NewBegins DEF Leave
  <2> QED BY <1>0, <2>1, <2>2, BeginSigned
<1>3. CASE \E u \in Users : Kick(t, u)
  <2>1. UNCHANGED <<rows, agreed, mix, cache>>
    BY <1>3 DEF Kick, stores, trial, history
  <2>2. \E u \in Users : Begins(t, "kick", "kick_host", u)
    BY <1>3, NewBegins DEF Kick
  <2> QED BY <1>0, <2>1, <2>2, BeginSigned
<1>4. CASE \E s \in Sockets : Connect(t, s) \/ Drop(t, s)
  <2>1. PICK s \in Sockets : Connect(t, s) \/ Drop(t, s)
    BY <1>4
  <2>2. UNCHANGED <<rows, agreed, mix, cache>>
    BY <2>1 DEF Connect, Drop, stores, trial, history
  <2>3. \/ Issue(t, [New("connect", "conn_check", s[1]) EXCEPT !.sock = s])
        \/ Issue(t, [New("drop", "drop_check", s[1]) EXCEPT !.sock = s])
    BY <2>1, Zenon DEF Connect, Drop
  <2>4. Begins(t, "connect", "conn_check", s[1]) \/ Begins(t, "drop", "drop_check", s[1])
    BY <2>3, SockBegins
  <2> QED BY <1>0, <2>2, <2>4, BeginSigned
<1>5. CASE Cleanup(t)
  <2>1. UNCHANGED <<rows, agreed, mix, cache>>
    BY <1>5 DEF Cleanup, stores, trial, history
  <2>2. Begins(t, "cleanup", "cleanup_active", NoOne)
    BY <1>5, NewBegins DEF Cleanup
  <2> QED BY <1>0, <2>1, <2>2, BeginSigned
<1>6. CASE LeaveHost(t)
  <2>1. UNCHANGED <<rows, agreed, mix, cache>>
    BY <1>6 DEF LeaveHost, stores, trial, history
  <2>2. Begins(t, "leave", "delete", Host)
    BY <1>6, TodoBegins DEF LeaveHost
  <2> QED BY <1>0, <2>1, <2>2, BeginSigned
<1>7. CASE \E k \in {"start", "force"} : Start(t, k)
  <2>1. UNCHANGED <<rows, agreed, mix, cache>>
    BY <1>7 DEF Start, stores, trial, history
  <2>2. Begins(t, "start", "start_sign", Host) \/ Begins(t, "force", "force_sign", Host)
    BY <1>7, NewBegins DEF Start
  <2> QED BY <1>0, <2>1, <2>2, BeginSigned
<1> QED BY <1>1, <1>2, <1>3, <1>4, <1>5, <1>6, <1>7, PermitSigned, SignSigned, EditedSigned DEF Requests

LEMMA SignedKeeps ==
  ASSUME IInv, Ordered, Signed, [Next]_vars
  PROVE  Signed'
<1>1. UNCHANGED mix
  BY MixKept
<1> SUFFICES ASSUME mix \notin SignatureLost PROVE Signed'
  BY <1>1 DEF Signed
<1>2. CASE UNCHANGED <<rows, agreed, cache, task>>
  BY <1>2 DEF Signed, Sure, Listed, Honest, Coming, SignFree
<1>3. ASSUME NEW t \in Tasks, Steps(t) PROVE Signed'
  BY <1>3, JoinSigned, ConnectSigned, DropSigned, CleanupSigned, LeaveSigned, KickSigned, StartSigned,
     ListSigned, NextSigned, ForceSigned DEF Steps
<1>4. ASSUME NEW s \in Sockets, DropEarly(s) PROVE Signed'
  BY <1>2, <1>4 DEF DropEarly, stores, history
<1> QED BY <1>2, <1>3, <1>4, RequestSigned DEF Next, vars, stores, history

LEMMA OrderedInit == Init => Ordered /\ Signed
<1> SUFFICES ASSUME Init PROVE Ordered /\ Signed
  OBVIOUS
<1>1. \A t \in Tasks : task[t] = Idle /\ task[t].kind = "none" /\ task[t].pc = "idle"
  BY IdleFields DEF Init
<1>2. Ordered
  BY <1>1 DEF Ordered, Overlap, Course
<1>3. \A t \in Tasks : Sure(task[t])
  BY <1>1, IdleSure
<1>4. Listed(cache) /\ Honest(cache)
  BY DEF Init, Listed, Honest
<1> QED BY <1>2, <1>3, <1>4 DEF Signed

\* Only a beginning session turns a contract into a timer.
LEMMA StartsSigned ==
  ASSUME IInv, Ordered, Signed, [Next]_vars, phase = "contract", phase' = "timer", mix \notin SignatureLost
  PROVE  rows \subseteq agreed
<1>1. ASSUME NEW t \in Tasks, StartDB(t) PROVE rows \subseteq agreed
  BY <1>1 DEF StartDB, At, Signed, Sure
<1>2. ASSUME NEW t \in Tasks, Requests(t) PROVE UNCHANGED phase
  BY <1>2 DEF Requests, Join, Leave, Kick, Edited, Sign, Connect, Drop, Cleanup, LeaveHost, Permit, Start, stores
<1>3. ASSUME NEW t \in Tasks, Steps(t), ~StartDB(t) PROVE phase' \in {phase, "contract", "closed"}
  BY <1>3 DEF Steps, JoinBan, JoinMember, JoinRow, JoinRead, JoinSave, ConnCheck, ConnMember, ConnRead, ConnSave,
     ContractRead, ContractSave, ContractDB, DropCheck, DropRead, DropSave, DropCount, CleanupActive,
     CleanupCount, Delete, LeaveRow, LeaveRead, LeaveSave, KickHost, KickRow, KickRead, KickSave, KickBan,
     KickFault, KickSocket, EntrySave, StartSign, StartRead, StartSave, ForceSign, ForceNext,
     ForceCheck, Read, Save, stores
<1>4. ASSUME NEW s \in Sockets, DropEarly(s) PROVE UNCHANGED phase
  BY <1>4 DEF DropEarly, stores
<1> QED BY <1>1, <1>2, <1>3, <1>4 DEF Next, vars, stores

\* Nobody is locked into a contract they have not signed as it now reads, under
\* every overlap but those that SignatureLost names (startTimer, forceStartTimer).
THEOREM SignaturesKept == Spec => OnlySigned
<1>1. IInv /\ Ordered /\ Signed /\ [Next]_vars =>
        [phase = "contract" /\ phase' = "timer" /\ mix \notin SignatureLost => rows \subseteq agreed]_vars
  BY StartsSigned
<1>2. Init => IInv /\ Ordered /\ Signed
  BY InitKeeps, OrderedInit
<1>3. IInv /\ Ordered /\ Signed /\ [Next]_vars => (IInv /\ Ordered /\ Signed)'
  BY StepKeeps, OrderKept, SignedKeeps
<1> QED BY <1>1, <1>2, <1>3, PTL DEF Spec, OnlySigned

-----------------------------------------------------------------------------
(* Who has been kicked *)

\* A member has no connection, or s is one of theirs.
Sole(u, s) == Joined(u) # {} => s \in Joined(u)

\* Nobody who is banned has an entry in the state c.
Clear(c) == \A u \in bans : c.members[u] = NoOne

\* A banned member's connections are ending, or their kick is about to end one.
Chased(u) == \/ u \in twice \/ Joined(u) \subseteq dying
             \/ \E t \in Tasks : task[t].pc = "kick_socket" /\ task[t].who = u

\* What a handler that is under way does to the banned.
Barred(k) ==
  /\ k.pc \in Holding => Clear(k.seen)
  /\ k.pc \in Joining \ {"join_ban"} => k.who \notin bans
  /\ k.pc \in {"kick_read", "kick_save", "kick_ban", "kick_socket"} => k.who \notin rows
  /\ k.pc \in {"kick_ban", "kick_socket"} => cache = NoOne \/ cache.members[k.who] = NoOne
  /\ k.kind = "force" /\ k.pc \in {"force_next"} \cup Kicking => \A p \in k.todo : Sole(p[1], p[2])
  /\ k.kind = "force" /\ k.pc \in Kicking => Sole(k.who, k.sock)
  /\ k.kind = "connect" => k.sock \in Sockets /\ k.sock[1] = k.who

Banished ==
  mix \notin KickUndone =>
    /\ \A u \in bans : u \notin rows /\ Chased(u)
    /\ cache # NoOne => Clear(cache)
    /\ \A t \in Tasks : Barred(task[t])

\* While somebody is kicked, only a cleanup may be under way.
LEMMA UndoneFacts ==
  ASSUME NEW a \in {"kick", "force"}, NEW b \in Kinds, mix = {a, b}, mix \notin KickUndone
  PROVE  b = "cleanup"
BY DEF KickUndone

Away(t) == \A o \in Tasks \ {t} : task[o].kind \notin {"kick", "force"}

LEMMA AwayFacts ==
  ASSUME IInv, Ordered, mix \notin KickUndone, NEW t \in Tasks, task[t].kind \in Kinds \ {"cleanup"}
  PROVE  /\ Away(t)
         /\ task[t].kind \in {"kick", "force"} => \A o \in Tasks \ {t} : task[o].kind \in {"none", "cleanup"}
<1>1. task[t].kind # "none"
  BY DEF Kinds
<1>2. ASSUME NEW o \in Tasks \ {t}, task[o].kind # "none"
      PROVE  {task[t].kind, task[o].kind} = mix /\ {task[o].kind, task[t].kind} = mix
  BY <1>1, <1>2 DEF Ordered, Overlap
<1>3. ASSUME NEW o \in Tasks \ {t}, task[o].kind \in {"kick", "force"} PROVE FALSE
  BY <1>2, <1>3, UndoneFacts
<1>4. ASSUME NEW o \in Tasks \ {t}, task[t].kind \in {"kick", "force"}, task[o].kind # "none"
      PROVE  task[o].kind = "cleanup"
  BY <1>2, <1>4, KindFacts, UndoneFacts
<1> QED BY <1>3, <1>4 DEF Away

LEMMA StartAwayFacts ==
  ASSUME IInv, mix \notin KickUndone, NEW t \in Tasks, NEW kind \in Kinds \ {"cleanup"}, MayStart(t, kind)
  PROVE  Away(t)
<1>1. ASSUME NEW o \in Tasks \ {t}, task[o].kind \in {"kick", "force"} PROVE FALSE
  <2>1. {task[o].kind, kind} = mix
    BY <1>1 DEF MayStart
  <2> QED BY <1>1, <2>1, UndoneFacts
<1> QED BY <1>1 DEF Away

\* What the others do to the banned is not disturbed.
LEMMA OthersBarred ==
  ASSUME Ordered, Banished, mix \notin KickUndone, NEW t \in Tasks, Others(t), UNCHANGED bans,
         Away(t) \/ (rows' \subseteq rows /\ cache' \in {cache, NoOne} /\ UNCHANGED socks),
         NEW o \in Tasks \ {t}
  PROVE  Barred(task[o])'
<1>1. task'[o] = task[o] /\ Barred(task[o]) /\ Course(task[o])
  BY DEF Others, Banished, Ordered
<1>2. CASE Away(t)
  <2>1. task[o].kind \notin {"kick", "force"} /\ task[o].pc \notin Kicking
    BY <1>1, <1>2 DEF Away, Course, Joining, Connecting, Dropping, Cleaning, Beginning, Kicking
  <2>2. task[o].pc \notin {"kick_read", "kick_save", "kick_ban", "kick_socket"}
    BY <2>1 DEF Kicking
  <2> QED BY <1>1, <2>1, <2>2 DEF Barred, Clear
<1>3. CASE rows' \subseteq rows /\ cache' \in {cache, NoOne} /\ UNCHANGED socks
  BY <1>1, <1>3 DEF Barred, Clear, Sole, Joined
<1> QED BY <1>2, <1>3

LEMMA BanKept ==
  ASSUME Ordered, Banished, mix \notin KickUndone, mix' = mix, NEW t \in Tasks, Others(t), UNCHANGED bans,
         Away(t) \/ (rows' \subseteq rows /\ cache' \in {cache, NoOne} /\ UNCHANGED socks),
         rows' \cap bans = {}, cache' # NoOne => Clear(cache'),
         \A u \in bans : Joined(u)' \subseteq Joined(u) /\ Joined(u)' \cap dying \subseteq dying',
         twice \subseteq twice', task[t].pc # "kick_socket", Barred(task[t])'
  PROVE  Banished'
<1>1. \A o \in Tasks : Barred(task[o])'
  BY OthersBarred
<1>2. ASSUME NEW u \in bans PROVE Chased(u)'
  <2>1. Chased(u)
    BY DEF Banished
  <2>2. CASE \E o \in Tasks : task[o].pc = "kick_socket" /\ task[o].who = u
    BY <2>2 DEF Others, Chased
  <2> QED BY <2>1, <2>2 DEF Chased
<1> QED BY <1>1, <1>2 DEF Banished, Clear

\* A step that touches neither a row nor a connection, and does not write the state.
Calm(t) ==
  /\ Others(t) /\ UNCHANGED <<bans, rows, socks, mix>> /\ cache' \in {cache, NoOne}
  /\ dying \subseteq dying' /\ twice \subseteq twice'
  /\ task[t].pc # "kick_socket"

LEMMA CalmBanished ==
  ASSUME Ordered, Banished, mix \notin KickUndone, NEW t \in Tasks, Calm(t), Barred(task[t])'
  PROVE  Banished'
<1>1. \A u \in bans : Joined(u)' \subseteq Joined(u) /\ Joined(u)' \cap dying \subseteq dying'
  BY DEF Calm, Joined
<1>2. rows' \cap bans = {} /\ (cache' # NoOne => Clear(cache'))
  BY DEF Calm, Banished
<1> QED BY <1>1, <1>2, BanKept DEF Calm

\* Awaits at which nothing is asked of a handler.
LEMMA FreeBarred ==
  ASSUME NEW t \in Tasks, task'[t].pc \notin Holding \cup (Joining \ {"join_ban"}) \cup Kicking \cup {"force_next"},
         task'[t].kind = "connect" => task'[t].sock \in Sockets /\ task'[t].sock[1] = task'[t].who
  PROVE  Barred(task[t])'
<1>1. task'[t].pc \notin {"kick_read", "kick_save", "kick_ban", "kick_socket"}
  BY DEF Kicking
<1> QED BY <1>1 DEF Barred

LEMMA IdleBarred ==
  ASSUME NEW t \in Tasks, Stops(t)
  PROVE  Barred(task[t])'
BY IdleFields, FreeBarred DEF Stops, Holding, Joining, Kicking

LEMMA StopBanished ==
  ASSUME Ordered, Banished, mix \notin KickUndone, NEW t \in Tasks, Calm(t), Stops(t)
  PROVE  Banished'
BY CalmBanished, IdleBarred

\* getState on the way to a write
LEMMA ReadBanished ==
  ASSUME IInv, Ordered, Banished, mix \notin KickUndone, NEW t \in Tasks, NEW pc \in Holding,
         task' = [task EXCEPT ![t].pc = pc, ![t].seen = cache], cache # NoOne,
         UNCHANGED <<bans, rows, socks, dying, twice, mix, cache>>, task[t].pc # "kick_socket",
         task[t].kind # "force" \/ pc = "start_save",
         pc = "join_save" => task[t].who \notin bans, pc # "kick_save"
  PROVE  Banished'
<1>1. Goes(t, pc) /\ Same(t) /\ task'[t].seen = cache
  BY SeenFields
<1>2. Clear(task[t].seen)'
  BY <1>1 DEF Clear, Banished
<1>3. pc \notin Kicking \cup {"force_next"} /\ pc \notin Joining \ {"join_save"}
  BY DEF Holding, Kicking, Joining
<1>4. pc \notin {"kick_read", "kick_ban", "kick_socket"}
  BY DEF Holding
<1>5. Barred(task[t])
  BY DEF Banished
<1>6. Barred(task[t])'
  BY <1>1, <1>2, <1>3, <1>4, <1>5 DEF Barred, Goes, Same
<1> QED BY <1>1, <1>6, CalmBanished DEF Calm, Goes

\* saveState of a state without the banned, by a handler that is not a kick.
LEMMA WrittenBanished ==
  ASSUME IInv, Ordered, Banished, mix \notin KickUndone, NEW t \in Tasks, NEW from \in Holding,
         NEW to \in {"return", "contract_read", "contract_db", "drop_count"}, NEW c, Save(t, from, to, c), twice \subseteq twice',
         Clear(task[t].seen) => Clear(c), from # "kick_save"
  PROVE  Banished'
<1>1. task[t].pc = from /\ cache' = c /\ UNCHANGED <<bans, rows, socks, dying, mix>>
  BY DEF Save, At, trial, network
<1>2. Clear(c) /\ Barred(task[t])
  BY <1>1 DEF Banished, Barred
<1>3. task[t].kind \in Kinds \ {"cleanup"}
  BY <1>1, KindFacts DEF Ordered, Course, Holding, Kinds, Cleaning
<1>4. Away(t)
  BY <1>3, AwayFacts
<1>5. \A u \in bans : Joined(u)' \subseteq Joined(u) /\ Joined(u)' \cap dying \subseteq dying'
  BY <1>1 DEF Joined
<1>6. Others(t) /\ Barred(task[t])'
  <2>1. CASE to = "return"
    BY <2>1, ReturnFields, IdleBarred DEF Save, Stops
  <2>2. CASE to # "return"
    <3>1. Goes(t, to) /\ Same(t)
      BY <2>2, SeenFields DEF Save
    <3>2. to \notin Holding \cup Joining \cup Kicking \cup {"force_next"}
      BY <2>2 DEF Holding, Joining, Kicking
    <3> QED BY <1>2, <3>1, <3>2, FreeBarred DEF Goes, Same, Barred
  <2> QED BY <2>1, <2>2
<1>7. rows' \cap bans = {}
  BY <1>1 DEF Banished
<1> QED BY <1>1, <1>2, <1>4, <1>5, <1>6, <1>7, BanKept DEF Holding

\* A handler goes on to an await at which nothing new is asked of it.
LEMMA MovedBanished ==
  ASSUME IInv, Ordered, Banished, mix \notin KickUndone, NEW t \in Tasks, NEW pc, Calm(t),
         Stops(t) \/ (Goes(t, pc) /\ task'[t].who = task[t].who /\ task'[t].sock = task[t].sock),
         pc \notin Holding \cup (Joining \ {"join_ban"}) \cup Kicking \cup {"force_next"}
  PROVE  Banished'
<1>1. CASE Stops(t)
  BY <1>1, StopBanished
<1>2. CASE Goes(t, pc) /\ task'[t].who = task[t].who /\ task'[t].sock = task[t].sock
  <2>1. Barred(task[t])'
    BY <1>2, FreeBarred DEF Goes, Barred, Banished
  <2> QED BY <2>1, CalmBanished
<1> QED BY <1>1, <1>2

\* Nobody who is banned gets past the ban.
LEMMA JoinBanished ==
  ASSUME IInv, Ordered, Banished, mix \notin KickUndone, NEW t \in Tasks,
         JoinBan(t) \/ JoinMember(t) \/ JoinRow(t) \/ JoinRead(t) \/ JoinSave(t)
  PROVE  Banished'
<1>1. task[t].kind = "join" /\ task[t].pc \in Joining
  <2>1. task[t].pc \in Joining
    BY DEF JoinBan, JoinMember, JoinRow, JoinRead, JoinSave, Read, Save, At, Joining
  <2> QED BY <2>1, TaskFacts DEF TaskOK
<1>2. Away(t)
  BY <1>1, AwayFacts DEF Kinds
<1>3. Barred(task[t])
  BY DEF Banished
<1>4. ASSUME NEW pc \in {"join_member", "join_row", "join_read"}, Goes(t, pc), task'[t].who = task[t].who,
             task[t].who \notin bans, UNCHANGED bans
      PROVE  Barred(task[t])'
  <2>1. pc \notin Holding \cup Kicking \cup {"kick_read", "kick_save", "kick_ban", "kick_socket", "force_next"}
    BY DEF Holding, Kicking
  <2> QED BY <1>1, <1>4, <2>1 DEF Barred, Goes
<1>5. CASE JoinBan(t)
  <2>1. Calm(t) \/ ~Others(t)
    BY <1>5 DEF Calm, JoinBan, At, stores, network, trial, history
  <2>2. CASE Return(t)
    BY <2>1, <2>2, ReturnFields, StopBanished DEF Stops
  <2>3. CASE Goto(t, "join_member") /\ task[t].who \notin bans
    <3>1. UNCHANGED bans
      BY <1>5 DEF JoinBan, stores
    <3> QED BY <1>4, <2>1, <2>3, <3>1, GotoFields, CalmBanished DEF Goes, Same
  <2> QED BY <1>5, <2>2, <2>3 DEF JoinBan
<1>6. CASE JoinMember(t)
  <2>1. Calm(t) \/ ~Others(t)
    BY <1>6 DEF Calm, JoinMember, At, stores, network, trial, history
  <2>2. CASE Return(t)
    BY <2>1, <2>2, ReturnFields, StopBanished DEF Stops
  <2>3. CASE task' = [task EXCEPT ![t].pc = "join_row", ![t].flag = task[t].who \in rows]
    <3> DEFINE f == task[t].who \in rows
    <3>1. task' = [task EXCEPT ![t].pc = "join_row", ![t].flag = f]
      BY <2>3
    <3> HIDE DEF f
    <3>2. Goes(t, "join_row") /\ task'[t].who = task[t].who
      BY <3>1, TaskFacts DEF Goes, Others, TaskStates
    <3>3. UNCHANGED bans /\ task[t].pc = "join_member"
      BY <1>6 DEF JoinMember, At, stores
    <3>4. task[t].who \notin bans
      BY <1>3, <3>3 DEF Barred, Joining
    <3> QED BY <1>4, <2>1, <3>2, <3>3, <3>4, CalmBanished DEF Goes
  <2> QED BY <1>6, <2>2, <2>3 DEF JoinMember
<1>7. CASE JoinRow(t)
  <2>1. UNCHANGED <<bans, cache, socks, dying, twice, mix>> /\ task[t].pc = "join_row"
        /\ rows' \subseteq rows \cup {task[t].who}
    BY <1>7 DEF JoinRow, At, network, trial, history
  <2>2. task[t].who \notin bans
    BY <1>3, <2>1 DEF Barred, Joining
  <2>3. Goes(t, "join_read") /\ Same(t)
    BY <1>7, GotoFields DEF JoinRow
  <2>4. rows' \cap bans = {} /\ (cache' # NoOne => Clear(cache'))
    BY <2>1, <2>2 DEF Banished
  <2>5. \A u \in bans : Joined(u)' \subseteq Joined(u) /\ Joined(u)' \cap dying \subseteq dying'
    BY <2>1 DEF Joined
  <2>6. Barred(task[t])'
    BY <1>4, <2>1, <2>2, <2>3 DEF Same
  <2> QED BY <1>2, <2>1, <2>3, <2>4, <2>5, <2>6, BanKept DEF Goes
<1>8. CASE JoinRead(t)
  <2>1. UNCHANGED <<bans, rows, socks, dying, twice, mix, cache>> /\ task[t].pc = "join_read"
    BY <1>8 DEF JoinRead, Read, At, stores, network, trial, history
  <2>2. CASE Return(t)
    <3>1. Stops(t)
      BY <2>2, ReturnFields
    <3> QED BY <2>1, <3>1, StopBanished DEF Stops, Calm
  <2>3. CASE cache # NoOne /\ task' = [task EXCEPT ![t].pc = "join_save", ![t].seen = cache]
    <3>1. task[t].who \notin bans
      BY <1>3, <2>1 DEF Barred, Joining
    <3> QED BY <1>1, <2>1, <2>3, <3>1, ReadBanished DEF Holding
  <2> QED BY <1>8, <2>2, <2>3 DEF JoinRead, Read
<1>9. CASE JoinSave(t)
  <2>1. task[t].pc = "join_save" /\ "join_save" \in Holding
    BY <1>9 DEF JoinSave, Save, At, Holding
  <2>2. PICK s \in States, u \in Users : s = task[t].seen /\ u = task[t].who
    BY <2>1, TaskFacts DEF TaskOK, Holding, Serving, Joining
  <2> DEFINE c == [s EXCEPT !.members[u] = Fresh]
  <2>3. Save(t, "join_save", "return", c) /\ twice \subseteq twice'
    BY <1>9, <2>2 DEF JoinSave
  <2>4. c.members[u] = Fresh /\ \A v \in Users \ {u} : c.members[v] = s.members[v]
    BY ChangedFacts DEF States
  <2> HIDE DEF c
  <2>5. u \notin bans
    BY <1>3, <2>1, <2>2 DEF Barred, Joining
  <2>6. Clear(s) => Clear(c)
    BY <2>4, <2>5 DEF Clear, IInv, Typed
  <2> QED BY <2>1, <2>2, <2>3, <2>6, WrittenBanished
<1> QED BY <1>5, <1>6, <1>7, <1>8, <1>9

LEMMA SockClear ==
  ASSUME IInv, NEW s \in States, NEW u \in Users, NEW x \in Sockets \cup {NoOne}, s.members[u] # NoOne, Clear(s)
  PROVE  Clear([s EXCEPT !.members[u].sock = x])
<1> DEFINE c == [s EXCEPT !.members[u].sock = x]
<1>1. \A v \in Users \ {u} : c.members[v] = s.members[v]
  BY SockFacts
<1> HIDE DEF c
<1>2. u \notin bans /\ bans \subseteq Users
  BY DEF Clear, IInv, Typed
<1>3. Clear(c)
  BY <1>1, <1>2 DEF Clear
<1> QED BY <1>3 DEF c

\* Only somebody with a row joins with a connection.
LEMMA ConnectBanished ==
  ASSUME IInv, Ordered, Banished, mix \notin KickUndone, NEW t \in Tasks,
         \/ ConnCheck(t) \/ ConnMember(t) \/ ConnRead(t) \/ ConnSave(t)
         \/ ContractRead(t) \/ ContractSave(t) \/ ContractDB(t)
  PROVE  Banished'
<1>1. task[t].pc \in Connecting
  BY DEF ConnCheck, ConnMember, ConnRead, ConnSave, ContractRead, ContractSave, ContractDB, Read, Save, At,
         Connecting
<1>2. task[t].kind = "connect"
  BY <1>1 DEF Ordered, Course, Connecting, Joining, Dropping, Cleaning, Kicking, Beginning
<1>3. Away(t)
  BY <1>2, AwayFacts DEF Kinds
<1>4. Barred(task[t]) /\ task[t].sock \in Sockets /\ task[t].sock[1] = task[t].who
  BY <1>2 DEF Banished, Barred
<1>n. task[t].pc # "kick_socket" /\ {"conn_save", "contract_save", "conn_member"} \subseteq Holding
  BY <1>1 DEF Connecting, Holding
<1>p. \A pc \in {"conn_read", "contract_read"} : pc \notin Holding \cup (Joining \ {"join_ban"}) \cup Kicking \cup {"force_next"}
  BY DEF Holding, Joining, Kicking
<1>5. CASE ConnCheck(t)
  <2>1. UNCHANGED <<bans, rows, cache, dying, twice, mix>>
    BY <1>5 DEF ConnCheck, stores, trial, history
  <2>2. CASE Return(t) /\ socks' = [socks EXCEPT ![task[t].sock] = "closed"]
    <3>1. \A u \in bans : Joined(u)' \subseteq Joined(u) /\ Joined(u)' \cap dying \subseteq dying'
      BY <2>1, <2>2, <1>4 DEF Joined, IInv, Typed
    <3>2. Stops(t)
      BY <2>2, ReturnFields
    <3>3. rows' \cap bans = {} /\ (cache' # NoOne => Clear(cache'))
      BY <2>1 DEF Banished
    <3> QED BY <1>3, <1>n, <2>1, <3>1, <3>2, <3>3, IdleBarred, BanKept DEF Stops
  <2>3. CASE cache # NoOne /\ UNCHANGED socks /\ task' = [task EXCEPT ![t].pc = "conn_member", ![t].seen = cache]
    BY <1>2, <1>n, <2>1, <2>3, ReadBanished
  <2> QED BY <1>5, <2>2, <2>3 DEF ConnCheck
<1>6. CASE ConnMember(t)
  <2>1. UNCHANGED <<bans, rows, cache, twice, mix>> /\ task[t].pc = "conn_member"
    BY <1>6 DEF ConnMember, At, stores, trial, history
  <2>2. rows' \cap bans = {} /\ (cache' # NoOne => Clear(cache'))
    BY <2>1 DEF Banished
  <2>3. CASE Return(t) /\ socks' = [socks EXCEPT ![task[t].sock] = "closed"] /\ UNCHANGED dying
    <3>1. \A u \in bans : Joined(u)' \subseteq Joined(u) /\ Joined(u)' \cap dying \subseteq dying'
      BY <2>1, <2>3, <1>4 DEF Joined, IInv, Typed
    <3>2. Stops(t)
      BY <2>3, ReturnFields
    <3> QED BY <1>3, <1>n, <2>1, <2>2, <3>1, <3>2, IdleBarred, BanKept DEF Stops
  <2>4. CASE /\ task[t].who \in rows
             /\ task' = [task EXCEPT ![t].pc = "conn_read", ![t].seen = NoOne]
             /\ socks' \in {socks, [socks EXCEPT ![task[t].sock] = "joined"]}
             /\ dying \subseteq dying'
    <3>1. task[t].who \notin bans
      BY <2>4 DEF Banished
    <3>2. \A u \in bans : Joined(u)' \subseteq Joined(u) /\ Joined(u)' \cap dying \subseteq dying'
      BY <2>1, <2>4, <1>4, <3>1 DEF Joined, IInv, Typed
    <3>3. Goes(t, "conn_read") /\ Same(t)
      BY <2>4, SeenFields
    <3>4. Barred(task[t])'
      BY <1>4, <1>p, <3>3, FreeBarred DEF Goes, Same
    <3> QED BY <1>3, <1>n, <2>1, <2>2, <3>2, <3>3, <3>4, BanKept DEF Goes
  <2>5. \/ Return(t) /\ socks' = [socks EXCEPT ![task[t].sock] = "closed"] /\ UNCHANGED dying
        \/ /\ task[t].who \in rows
           /\ task' = [task EXCEPT ![t].pc = "conn_read", ![t].seen = NoOne]
           /\ socks' \in {socks, [socks EXCEPT ![task[t].sock] = "joined"]}
           /\ dying \subseteq dying'
    BY <1>6 DEF ConnMember
  <2> QED BY <2>3, <2>4, <2>5
<1>7. CASE ConnRead(t)
  <2>1. UNCHANGED <<bans, rows, socks, dying, twice, mix, cache>> /\ task[t].pc = "conn_read"
    BY <1>7 DEF ConnRead, Read, At, stores, network, trial, history
  <2>2. CASE Goto(t, "contract_read")
    <3>1. Goes(t, "contract_read") /\ Same(t)
      BY <2>2, GotoFields
    <3> QED BY <1>p, <2>1, <3>1, MovedBanished DEF Goes, Same, Calm
  <2>3. CASE cache # NoOne /\ task' = [task EXCEPT ![t].pc = "conn_save", ![t].seen = cache]
    BY <1>2, <1>n, <2>1, <2>3, ReadBanished
  <2> QED BY <1>7, <2>2, <2>3 DEF ConnRead, Read
<1>8. CASE ConnSave(t)
  <2>1. task[t].pc = "conn_save"
    BY <1>8 DEF ConnSave, Save, At
  <2>2. PICK s \in States, u \in Users, x \in Sockets \cup {NoOne} :
          s = task[t].seen /\ u = task[t].who /\ x = task[t].sock /\ s.members[u] # NoOne
    BY <2>1, TaskFacts DEF TaskOK, TaskStates, Holding, Serving
  <2> DEFINE c == [s EXCEPT !.members[u].sock = x]
  <2>3. Save(t, "conn_save", "contract_read", c) /\ twice \subseteq twice'
    BY <1>8, <2>2 DEF ConnSave
  <2>4. Clear(s) => Clear(c)
    BY <2>2, SockClear
  <2> HIDE DEF c
  <2> QED BY <1>n, <2>1, <2>2, <2>3, <2>4, WrittenBanished
<1>9. CASE ContractRead(t)
  <2>1. UNCHANGED <<bans, rows, socks, dying, twice, mix, cache>>
    BY <1>9 DEF ContractRead, Read, stores, network, trial, history
  <2>2. CASE Return(t)
    <3>1. Stops(t)
      BY <2>2, ReturnFields
    <3> QED BY <1>n, <2>1, <3>1, StopBanished DEF Stops, Calm
  <2>3. CASE cache # NoOne /\ task' = [task EXCEPT ![t].pc = "contract_save", ![t].seen = cache]
    BY <1>2, <1>n, <2>1, <2>3, ReadBanished
  <2> QED BY <1>9, <2>2, <2>3 DEF ContractRead, Read
<1>10. CASE ContractSave(t)
  <2>1. task[t].pc = "contract_save"
    BY <1>10 DEF ContractSave, Save, At
  <2>2. PICK s \in States : s = task[t].seen
    BY <2>1, TaskFacts DEF TaskOK, Holding
  <2> DEFINE c == [s EXCEPT !.phase = "contract"]
  <2>3. Save(t, "contract_save", "contract_db", c) /\ twice \subseteq twice'
    BY <1>10, <2>2 DEF ContractSave, history
  <2>4. c.members = s.members
    BY DEF States
  <2> HIDE DEF c
  <2> QED BY <1>n, <2>1, <2>2, <2>3, <2>4, WrittenBanished DEF Clear
<1>11. CASE ContractDB(t)
  <2>1. UNCHANGED <<bans, rows, socks, dying, twice, mix, cache>> /\ Return(t)
    BY <1>11 DEF ContractDB, network, trial, history
  <2>2. Stops(t)
    BY <2>1, ReturnFields
  <2> QED BY <1>n, <2>1, <2>2, StopBanished DEF Stops, Calm
<1> QED BY <1>5, <1>6, <1>7, <1>8, <1>9, <1>10, <1>11

LEMMA DropBanished ==
  ASSUME IInv, Ordered, Banished, mix \notin KickUndone, NEW t \in Tasks,
         DropCheck(t) \/ DropRead(t) \/ DropSave(t) \/ DropCount(t)
  PROVE  Banished'
<1>1. task[t].pc \in Dropping
  BY DEF DropCheck, DropRead, DropSave, DropCount, Read, Save, At, Dropping
<1>2. task[t].kind = "drop"
  BY <1>1 DEF Ordered, Course, Connecting, Joining, Dropping, Cleaning, Kicking, Beginning
<1>n. task[t].pc # "kick_socket" /\ "drop_save" \in Holding
  BY <1>1 DEF Dropping, Holding
<1>p. \A pc \in {"drop_read", "drop_count"} : pc \notin Holding \cup (Joining \ {"join_ban"}) \cup Kicking \cup {"force_next"}
  BY DEF Holding, Joining, Kicking
<1>3. CASE DropCheck(t)
  <2>1. UNCHANGED <<bans, rows, socks, dying, twice, mix, cache>>
    BY <1>3 DEF DropCheck, Read, stores, network, trial, history
  <2>2. Stops(t) \/ (Goes(t, "drop_read") /\ Same(t))
    BY <1>3, SeenFields, ReturnFields DEF DropCheck, Read
  <2> QED BY <1>n, <1>p, <2>1, <2>2, MovedBanished DEF Stops, Goes, Same, Calm
<1>4. CASE DropRead(t)
  <2>1. UNCHANGED <<bans, rows, socks, dying, twice, mix, cache>>
    BY <1>4 DEF DropRead, Read, stores, network, trial, history
  <2>2. CASE Goto(t, "drop_count")
    <3>1. Goes(t, "drop_count") /\ Same(t)
      BY <2>2, GotoFields
    <3> QED BY <1>n, <1>p, <2>1, <3>1, MovedBanished DEF Goes, Same, Calm
  <2>3. CASE cache # NoOne /\ task' = [task EXCEPT ![t].pc = "drop_save", ![t].seen = cache]
    BY <1>2, <1>n, <2>1, <2>3, ReadBanished
  <2> QED BY <1>4, <2>2, <2>3 DEF DropRead, Read
<1>5. CASE DropSave(t)
  <2>1. task[t].pc = "drop_save"
    BY <1>5 DEF DropSave, Save, At
  <2>2. PICK s \in States, u \in Users : s = task[t].seen /\ u = task[t].who /\ s.members[u] # NoOne
    BY <2>1, TaskFacts DEF TaskOK, Holding, Serving
  <2> DEFINE c == [s EXCEPT !.members[u].sock = NoOne]
  <2>3. Save(t, "drop_save", "drop_count", c) /\ twice \subseteq twice'
    BY <1>5, <2>2 DEF DropSave, history
  <2>4. Clear(s) => Clear(c)
    BY <2>2, SockClear
  <2> HIDE DEF c
  <2> QED BY <1>n, <2>1, <2>2, <2>3, <2>4, WrittenBanished
<1>6. CASE DropCount(t)
  <2>1. UNCHANGED <<bans, rows, socks, dying, twice, mix, cache>> /\ Return(t)
    BY <1>6 DEF DropCount, stores, trial, history
  <2>2. Stops(t)
    BY <2>1, ReturnFields
  <2> QED BY <1>n, <2>1, <2>2, StopBanished DEF Stops, Calm
<1> QED BY <1>3, <1>4, <1>5, <1>6

LEMMA CleanupBanished ==
  ASSUME IInv, Ordered, Banished, mix \notin KickUndone, NEW t \in Tasks,
         CleanupActive(t) \/ CleanupCount(t) \/ Delete(t)
  PROVE  Banished'
<1>1. task[t].pc \in Cleaning /\ task[t].kind # "connect"
  BY DEF CleanupActive, CleanupCount, Delete, At, Cleaning, Ordered, Course, Connecting
<1>2. /\ UNCHANGED <<bans, rows, socks, twice, mix>> /\ dying \subseteq dying'
      /\ cache' \in {cache, NoOne}
  BY DEF CleanupActive, CleanupCount, Delete, stores, trial, history
<1>3. Stops(t) \/ \E pc \in {"cleanup_count", "delete"} : Goes(t, pc)
  <2>1. CASE CleanupActive(t)
    BY <2>1, GotoFields, ReturnFields DEF CleanupActive, CleanupDone
  <2>2. CASE CleanupCount(t)
    <3>1. ASSUME task' = [task EXCEPT ![t].pc = "delete", ![t].todo = {"state", "phase"}] PROVE Goes(t, "delete")
      BY <3>1, TaskFacts DEF Goes, Others, TaskStates
    <3> QED BY <2>2, <3>1, ReturnFields DEF CleanupCount, CleanupDone
  <2>3. CASE Delete(t)
    BY <2>3, DeleteFields
  <2> QED BY <2>1, <2>2, <2>3
<1>4. Calm(t)
  BY <1>1, <1>2, <1>3 DEF Calm, Stops, Goes, Cleaning
<1>5. ASSUME NEW pc \in {"cleanup_count", "delete"}, Goes(t, pc) PROVE Banished'
  <2>1. Barred(task[t])'
    BY <1>1, <1>5, FreeBarred DEF Goes, Holding, Joining, Kicking
  <2> QED BY <1>4, <2>1, CalmBanished
<1> QED BY <1>3, <1>4, <1>5, StopBanished

LEMMA LeaveBanished ==
  ASSUME IInv, Ordered, Banished, mix \notin KickUndone, NEW t \in Tasks,
         LeaveRow(t) \/ LeaveRead(t) \/ LeaveSave(t)
  PROVE  Banished'
<1>1. task[t].pc \in {"leave_row", "leave_read", "leave_save"}
  BY DEF LeaveRow, LeaveRead, LeaveSave, Read, Save, At
<1>2. task[t].kind = "leave"
  BY <1>1 DEF Ordered, Course, Connecting, Joining, Dropping, Cleaning, Kicking, Beginning
<1>k. "leave" \in Kinds \ {"cleanup"} /\ "leave_save" \in Holding
  BY DEF Kinds, Holding
<1>3. CASE LeaveRow(t)
  <2>1. UNCHANGED <<bans, cache, socks, dying, twice, mix>> /\ rows' \subseteq rows
    BY <1>3 DEF LeaveRow, network, trial, history
  <2>2. Goes(t, "leave_read")
    BY <1>3, GotoFields DEF LeaveRow
  <2>3. Barred(task[t])'
    BY <1>2, <2>2, FreeBarred DEF Goes, Holding, Joining, Kicking
  <2>4. rows' \cap bans = {} /\ (cache' # NoOne => Clear(cache'))
    BY <2>1 DEF Banished
  <2>5. \A u \in bans : Joined(u)' \subseteq Joined(u) /\ Joined(u)' \cap dying \subseteq dying'
    BY <2>1 DEF Joined
  <2> QED BY <1>1, <2>1, <2>2, <2>3, <2>4, <2>5, BanKept DEF Goes
<1>4. CASE LeaveRead(t)
  <2>1. UNCHANGED <<bans, rows, socks, dying, twice, mix, cache>>
    BY <1>4 DEF LeaveRead, Read, stores, network, trial, history
  <2>2. CASE Return(t)
    <3>1. Stops(t)
      BY <2>2, ReturnFields
    <3> QED BY <1>1, <2>1, <3>1, StopBanished DEF Stops, Calm
  <2>3. CASE cache # NoOne /\ task' = [task EXCEPT ![t].pc = "leave_save", ![t].seen = cache]
    BY <1>1, <1>2, <1>k, <2>1, <2>3, ReadBanished
  <2> QED BY <1>4, <2>2, <2>3 DEF LeaveRead, Read
<1>5. CASE LeaveSave(t)
  <2>1. task[t].pc = "leave_save"
    BY <1>5 DEF LeaveSave, Save, At
  <2>2. PICK s \in States, u \in Users : s = task[t].seen /\ u = task[t].who
    BY <2>1, TaskFacts DEF TaskOK, Holding, Serving
  <2> DEFINE c == [s EXCEPT !.members[u] = NoOne]
  <2>3. Save(t, "leave_save", "return", c) /\ twice \subseteq twice'
    BY <1>5, <2>2 DEF LeaveSave
  <2>4. c.members[u] = NoOne /\ \A v \in Users \ {u} : c.members[v] = s.members[v]
    BY ChangedFacts DEF States
  <2> HIDE DEF c
  <2>5. Clear(s) => Clear(c)
    BY <2>4 DEF Clear, IInv, Typed
  <2> QED BY <1>k, <2>1, <2>2, <2>3, <2>5, WrittenBanished
<1> QED BY <1>3, <1>4, <1>5

\* A kick goes on alone.
LEMMA KickBarred ==
  ASSUME IInv, Ordered, Banished, mix \notin KickUndone, NEW t \in Tasks, task[t].kind \in {"kick", "force"},
         Others(t), mix' = mix, UNCHANGED socks, Barred(task[t])',
         \A u \in bans' : u \notin rows' /\ Chased(u)', cache' # NoOne => Clear(cache)'
  PROVE  Banished'
<1> SUFFICES ASSUME NEW o \in Tasks \ {t} PROVE Barred(task[o])'
  BY DEF Banished
<1>1. task[o].kind \in {"none", "cleanup"} /\ Course(task[o]) /\ task'[o] = task[o]
  BY AwayFacts DEF Kinds, Others, Ordered
<1>2. Course(task'[o]) /\ task'[o].kind \in {"none", "cleanup"}
  BY <1>1
<1>3. task'[o].pc \in Cleaning \cup {"idle"}
  BY <1>2 DEF Course
<1> QED BY <1>2, <1>3 DEF Barred, Holding, Joining, Kicking, Cleaning

LEMMA ChasedOn ==
  ASSUME NEW t \in Tasks, Others(t), task[t].pc # "kick_socket", NEW u, Chased(u),
         UNCHANGED <<socks, dying, twice>>
  PROVE  Chased(u)'
BY DEF Chased, Others, Joined

\* What a start by force holds of its list goes on while no connection changes.
LEMMA SoleOn ==
  ASSUME NEW u, NEW s, Sole(u, s), UNCHANGED socks
  PROVE  Sole(u, s)'
BY DEF Sole, Joined

\* A kick moves on; its list and its target are the same.
LEMMA KickMoves ==
  ASSUME NEW t \in Tasks, Barred(task[t]), UNCHANGED socks, task[t].pc \in Kicking,
         task[t].kind \in {"kick", "force"}, NEW pc \in Kicking \cup {"force_next"},
         Goes(t, pc), task'[t].who = task[t].who, task'[t].sock = task[t].sock, task'[t].todo = task[t].todo,
         pc = "kick_save" => Clear(task[t].seen)',
         pc \in {"kick_read", "kick_save", "kick_ban", "kick_socket"} => task[t].who \notin rows',
         pc \in {"kick_ban", "kick_socket"} => cache' = NoOne \/ cache'.members[task[t].who] = NoOne
  PROVE  Barred(task[t])'
<1>1. task'[t].pc = pc /\ task'[t].kind = task[t].kind
  BY DEF Goes
<1>2. pc \in Holding => pc = "kick_save"
  BY DEF Kicking, Holding
<1>3. pc \notin Joining
  BY DEF Kicking, Joining
<1>4. ASSUME task[t].kind = "force"
      PROVE  (\A p \in task[t].todo : Sole(p[1], p[2])) /\ Sole(task[t].who, task[t].sock)
  BY <1>4 DEF Barred
<1>5. ASSUME task[t].kind = "force" PROVE \A p \in task'[t].todo : Sole(p[1], p[2])'
  BY <1>4, <1>5, SoleOn
<1>6. ASSUME task[t].kind = "force" PROVE Sole(task[t].who, task[t].sock)'
  BY <1>4, <1>6 DEF Sole, Joined
<1>7. task[t].kind # "connect"
  OBVIOUS
<1>8. pc \in Holding => Clear(task[t].seen)'
  BY <1>2
<1> QED BY <1>1, <1>3, <1>5, <1>6, <1>7, <1>8 DEF Barred

LEMMA KickBanished ==
  ASSUME IInv, Ordered, Banished, mix \notin KickUndone, NEW t \in Tasks,
         \/ KickHost(t) \/ KickRow(t) \/ KickRead(t) \/ KickSave(t) \/ KickBan(t) \/ KickFault(t)
  PROVE  Banished'
<1>1. task[t].pc \in Kicking \ {"kick_socket"}
  BY DEF KickHost, KickRow, KickRead, KickSave, KickBan, KickFault, Read, Save, At, Kicking
<1>2. task[t].kind \in {"kick", "force"}
  BY <1>1, TaskFacts DEF TaskOK
<1>3. UNCHANGED <<socks, dying, twice, mix>>
  BY DEF KickHost, KickRow, KickRead, KickSave, KickBan, KickFault, Read, Save, network, trial, history
<1>4. Barred(task[t]) /\ (\A u \in bans : u \notin rows /\ Chased(u)) /\ (cache # NoOne => Clear(cache))
  BY DEF Banished
<1>5. ASSUME Others(t) PROVE \A u \in bans : Chased(u)'
  BY <1>1, <1>3, <1>4, <1>5, ChasedOn
<1>7. ASSUME Stops(t), UNCHANGED <<bans, rows, cache>> PROVE Banished'
  BY <1>1, <1>3, <1>7, StopBanished DEF Calm, Stops
<1>8. ASSUME NEW pc \in {"kick_row", "force_next"}, Goes(t, pc), task'[t].who = task[t].who,
             task'[t].sock = task[t].sock, task'[t].todo = task[t].todo, UNCHANGED <<bans, rows, cache>>
      PROVE  Banished'
  <2>1. pc \in Kicking \cup {"force_next"}
    BY DEF Kicking
  <2>2. Barred(task[t])'
    BY <1>1, <1>2, <1>3, <1>4, <1>8, <2>1, KickMoves
  <2> QED BY <1>1, <1>3, <1>8, <2>2, CalmBanished DEF Calm, Goes
<1>9. CASE KickHost(t)
  <2>1. UNCHANGED <<bans, rows, cache>>
    BY <1>9 DEF KickHost, stores
  <2>2. CASE Goto(t, "kick_row")
    BY <1>8, <2>1, <2>2, GotoFields DEF Same
  <2> QED BY <1>7, <1>9, <2>1, <2>2, ReturnFields DEF KickHost
<1>10. CASE KickRow(t)
  <2>1. UNCHANGED <<bans, cache>> /\ rows' = rows \ {task[t].who}
    BY <1>10 DEF KickRow
  <2>2. Goes(t, "kick_read") /\ Same(t)
    BY <1>10, GotoFields DEF KickRow
  <2>3. "kick_read" \in Kicking
    BY DEF Kicking
  <2>4. Barred(task[t])'
    BY <1>1, <1>2, <1>3, <1>4, <2>1, <2>2, <2>3, KickMoves DEF Same
  <2>5. Clear(cache)' \/ cache' = NoOne
    BY <1>4, <2>1 DEF Clear
  <2> QED BY <1>2, <1>3, <1>4, <1>5, <2>1, <2>2, <2>4, <2>5, KickBarred DEF Goes
<1>11. CASE KickRead(t)
  <2>1. UNCHANGED <<bans, rows, cache>> /\ task[t].pc = "kick_read"
    BY <1>11 DEF KickRead, Read, At, stores
  <2>2. task[t].who \notin rows
    BY <1>4, <2>1 DEF Barred
  <2>3. CASE Goto(t, "kick_ban") /\ cache = NoOne
    <3>1. Goes(t, "kick_ban") /\ Same(t)
      BY <2>3, GotoFields
    <3>2. "kick_ban" \in Kicking
      BY DEF Kicking
    <3>3. Barred(task[t])'
      BY <1>1, <1>2, <1>3, <1>4, <2>1, <2>2, <2>3, <3>1, <3>2, KickMoves DEF Same
    <3> QED BY <1>1, <1>3, <2>1, <3>1, <3>3, CalmBanished DEF Calm, Goes
  <2>4. CASE cache # NoOne /\ task' = [task EXCEPT ![t].pc = "kick_save", ![t].seen = cache]
    <3>1. Goes(t, "kick_save") /\ Same(t) /\ task'[t].seen = cache
      BY <2>4, SeenFields
    <3>2. Clear(task[t].seen)'
      BY <1>4, <2>1, <2>4, <3>1 DEF Clear
    <3>3. "kick_save" \in Kicking
      BY DEF Kicking
    <3>4. Barred(task[t])'
      BY <1>1, <1>2, <1>3, <1>4, <2>1, <2>2, <3>1, <3>2, <3>3, KickMoves DEF Same
    <3> QED BY <1>1, <1>3, <2>1, <3>1, <3>4, CalmBanished DEF Calm, Goes
  <2> QED BY <1>11, <2>3, <2>4 DEF KickRead, Read, Anyway
<1>12. CASE KickSave(t)
  <2>1. task[t].pc = "kick_save" /\ "kick_save" \in Holding
    BY <1>12 DEF KickSave, Save, At, Holding
  <2>2. PICK s \in States, u \in Users : s = task[t].seen /\ u = task[t].who
    BY <2>1, TaskFacts DEF TaskOK, Holding, Serving, Kicking
  <2> DEFINE c == [s EXCEPT !.members[u] = NoOne]
  <2>3. cache' = c /\ task' = [task EXCEPT ![t].pc = "kick_ban", ![t].seen = NoOne] /\ UNCHANGED <<bans, rows>>
    BY <1>12, <2>2 DEF KickSave, Save
  <2>4. c.members[u] = NoOne /\ \A v \in Users \ {u} : c.members[v] = s.members[v]
    BY ChangedFacts DEF States
  <2> HIDE DEF c
  <2>5. Clear(s) /\ u \notin rows
    BY <1>4, <2>1, <2>2 DEF Barred
  <2>6. Clear(cache)'
    BY <2>3, <2>4, <2>5 DEF Clear, IInv, Typed
  <2>7. Goes(t, "kick_ban") /\ Same(t)
    BY <2>3, SeenFields
  <2>8. "kick_ban" \in Kicking
    BY DEF Kicking
  <2>9. Barred(task[t])'
    BY <1>1, <1>2, <1>3, <1>4, <2>2, <2>3, <2>4, <2>5, <2>7, <2>8, KickMoves DEF Same
  <2> QED BY <1>2, <1>3, <1>4, <1>5, <2>3, <2>6, <2>7, <2>9, KickBarred DEF Goes
<1>13. CASE KickBan(t)
  <2>1. UNCHANGED <<rows, cache>> /\ bans' = bans \cup {task[t].who} /\ task[t].pc = "kick_ban"
    BY <1>13 DEF KickBan, At
  <2>2. Goes(t, "kick_socket") /\ Same(t)
    BY <1>13, GotoFields DEF KickBan
  <2>3. task[t].who \notin rows /\ (cache = NoOne \/ cache.members[task[t].who] = NoOne)
    BY <1>4, <2>1 DEF Barred
  <2>4. "kick_socket" \in Kicking
    BY DEF Kicking
  <2>5. Barred(task[t])'
    BY <1>1, <1>2, <1>3, <1>4, <2>1, <2>2, <2>3, <2>4, KickMoves DEF Same
  <2>6. Chased(task[t].who)'
    BY <2>2 DEF Chased, Goes, Same
  <2>7. \A u \in bans' : u \notin rows' /\ Chased(u)'
    <3>1. \A u \in bans : Chased(u)'
      BY <1>5, <2>2 DEF Goes
    <3>2. ASSUME NEW u \in bans' PROVE u \in bans \/ u = task[t].who
      BY <2>1, <3>2
    <3>3. ASSUME NEW u \in bans' PROVE u \notin rows'
      BY <1>4, <2>1, <2>3, <3>2, <3>3
    <3>4. ASSUME NEW u \in bans' PROVE Chased(u)'
      <4>1. CASE u = task'[t].who
        BY <2>6, <4>1 DEF Chased
      <4>2. CASE u # task'[t].who
        BY <2>2, <3>1, <3>2, <3>4, <4>2 DEF Same
      <4> QED BY <4>1, <4>2
    <3> QED BY <3>3, <3>4
  <2>8. cache' # NoOne => Clear(cache)'
    BY <1>4, <2>1, <2>3 DEF Clear
  <2> QED BY <1>2, <1>3, <2>2, <2>5, <2>7, <2>8, KickBarred DEF Goes
<1>14. CASE KickFault(t)
  <2>1. UNCHANGED <<bans, rows, cache>>
    BY <1>14 DEF KickFault, stores
  <2> QED BY <1>7, <1>8, <1>14, <2>1, FaultFields
<1> QED BY <1>9, <1>10, <1>11, <1>12, <1>13, <1>14

\* The last step of a kick ends the connection it finds, the only one there is
\* unless twice says otherwise.
LEMMA SocketBanished ==
  ASSUME IInv, Ordered, Banished, mix \notin KickUndone, NEW t \in Tasks, KickSocket(t)
  PROVE  Banished'
<1> DEFINE w == task[t].who
           found == Joined(w)
<1>1. task[t].pc = "kick_socket" /\ "kick_socket" \in Kicking
  BY DEF KickSocket, At, Kicking
<1>2. task[t].kind \in {"kick", "force"}
  BY <1>1, TaskFacts DEF TaskOK
<1>3. Barred(task[t]) /\ (\A u \in bans : u \notin rows /\ Chased(u)) /\ (cache # NoOne => Clear(cache))
  BY DEF Banished
<1>4. UNCHANGED <<bans, rows, cache, socks, mix>> /\ dying \subseteq dying' /\ twice \subseteq twice'
  BY DEF KickSocket, stores, trial
<1>5. Stops(t) \/ (task[t].kind = "force" /\ Goes(t, "force_next") /\ Same(t))
  BY GotoFields, ReturnFields DEF KickSocket
<1>6. Others(t)
  BY <1>5 DEF Stops, Goes
<1>7. Barred(task[t])'
  <2>1. CASE Goes(t, "force_next") /\ Same(t)
    <3>1. "force_next" \notin Holding \cup Joining \cup Kicking
      BY DEF Holding, Joining, Kicking
    <3>2. task'[t].kind = "force" => \A p \in task'[t].todo : Sole(p[1], p[2])'
      BY <1>1, <1>3, <1>4, <2>1, SoleOn DEF Goes, Same, Barred
    <3> QED BY <1>2, <2>1, <3>1, <3>2 DEF Barred, Goes
  <2> QED BY <1>5, <2>1, IdleBarred
<1>8. Joined(w) \subseteq dying' \/ w \in twice'
  <2>1. IsFiniteSet(found)
    BY FS_Subset, PresenceAssumption DEF Joined
  <2>2. CASE Cardinality(found) > 1
    BY <2>2 DEF KickSocket
  <2>3. CASE ~ (Cardinality(found) > 1)
    <3>1. \A s \in found : found \subseteq {s}
      <4> SUFFICES ASSUME NEW s \in found PROVE found \subseteq {s}
        OBVIOUS
      <4> HIDE DEF found
      <4>1. Cardinality(found) \in Nat /\ IsFiniteSet(found \ {s}) /\ Cardinality(found \ {s}) = Cardinality(found) - 1
        BY <2>1, FS_CardinalityType, FS_RemoveElement
      <4>2. Cardinality(found \ {s}) \in Nat
        BY <4>1, FS_CardinalityType
      <4>3. Cardinality(found \ {s}) = 0
        BY <2>3, <4>1, <4>2
      <4>4. found \ {s} = {}
        BY <4>1, <4>3, FS_EmptySet
      <4> QED BY <4>4
    <3>2. found = {} \/ \E s \in found : s \in dying'
      <4>1. CASE task[t].kind = "force"
        <5>1. Sole(w, task[t].sock)
          BY <1>1, <1>3, <4>1 DEF Barred
        <5>2. dying' = dying \cup {s \in {task[t].sock} : s # NoOne /\ socks[s] = "joined"}
          BY <4>1 DEF KickSocket
        <5>3. ASSUME found # {} PROVE task[t].sock \in found /\ task[t].sock \in dying'
          <6>1. task[t].sock \in found
            BY <5>1, <5>3 DEF Sole
          <6>2. task[t].sock \in Sockets /\ socks[task[t].sock] = "joined" /\ task[t].sock # NoOne
            BY <6>1, PresenceAssumption DEF Joined
          <6> QED BY <5>2, <6>1, <6>2
        <5> QED BY <5>3
      <4>2. CASE task[t].kind # "force"
        BY <4>2 DEF KickSocket
      <4> QED BY <4>1, <4>2
    <3> QED BY <3>1, <3>2
  <2> QED BY <2>2, <2>3
<1>9. \A u \in bans : Chased(u)'
  <2> SUFFICES ASSUME NEW u \in bans PROVE Chased(u)'
    OBVIOUS
  <2>1. CASE u = w
    BY <1>4, <1>8, <2>1 DEF Chased, Joined
  <2>2. CASE u # w
    <3>1. CASE \E o \in Tasks : task[o].pc = "kick_socket" /\ task[o].who = u
      <4>1. PICK o \in Tasks \ {t} : task[o].pc = "kick_socket" /\ task[o].who = u
        BY <2>2, <3>1
      <4> QED BY <1>6, <4>1 DEF Chased, Others
    <3>2. CASE u \in twice \/ Joined(u) \subseteq dying
      BY <1>4, <3>2 DEF Chased, Joined
    <3> QED BY <1>3, <3>1, <3>2 DEF Chased
  <2> QED BY <2>1, <2>2
<1>10. cache' # NoOne => Clear(cache)'
  BY <1>3, <1>4 DEF Clear
<1> QED BY <1>2, <1>3, <1>4, <1>6, <1>7, <1>9, <1>10, KickBarred

LEMMA StartBanished ==
  ASSUME IInv, Ordered, Banished, mix \notin KickUndone, NEW t \in Tasks,
         StartSign(t) \/ StartDB(t) \/ StartRead(t) \/ StartSave(t) \/ ForceCheck(t) \/ EntrySave(t)
  PROVE  Banished'
<1>1. task[t].pc \in Beginning \cup {"start_sign", "force_check", "entry_save"}
  BY DEF StartSign, StartDB, StartRead, StartSave, ForceCheck, EntrySave, Read, Save, At, Beginning
<1>2. task[t].pc # "kick_socket"
  BY <1>1 DEF Beginning
<1>3. \A pc \in {"start_db", "start_read"} : pc \notin Holding \cup (Joining \ {"join_ban"}) \cup Kicking \cup {"force_next"}
  BY DEF Holding, Joining, Kicking
<1>4. {"start_save", "entry_save"} \subseteq Holding
  BY DEF Holding
<1>5. CASE StartSign(t) \/ ForceCheck(t)
  <2>1. UNCHANGED <<bans, rows, socks, dying, twice, mix, cache>>
    BY <1>5 DEF StartSign, ForceCheck, stores, network, trial, history
  <2>2. Stops(t) \/ (Goes(t, "start_db") /\ Same(t))
    BY <1>5, GotoFields, ReturnFields DEF StartSign, ForceCheck
  <2> QED BY <1>2, <1>3, <2>1, <2>2, MovedBanished DEF Stops, Goes, Same, Calm
<1>6. CASE StartDB(t)
  <2>1. UNCHANGED <<bans, rows, socks, dying, twice, mix, cache>>
    BY <1>6 DEF StartDB, network, trial, history
  <2>2. Goes(t, "start_read") /\ Same(t)
    BY <1>6, GotoFields DEF StartDB
  <2> QED BY <1>2, <1>3, <2>1, <2>2, MovedBanished DEF Goes, Same, Calm
<1>7. CASE StartRead(t)
  <2>1. UNCHANGED <<bans, rows, socks, dying, twice, mix, cache>>
    BY <1>7 DEF StartRead, Read, stores, network, trial, history
  <2>2. CASE Return(t)
    <3>1. Stops(t)
      BY <2>2, ReturnFields
    <3> QED BY <1>2, <2>1, <3>1, StopBanished DEF Stops, Calm
  <2>3. CASE cache # NoOne /\ task' = [task EXCEPT ![t].pc = "start_save", ![t].seen = cache]
    BY <1>2, <1>4, <2>1, <2>3, ReadBanished
  <2> QED BY <1>7, <2>2, <2>3 DEF StartRead, Read
<1>8. CASE StartSave(t)
  <2>1. task[t].pc = "start_save"
    BY <1>8 DEF StartSave, Save, At
  <2>2. PICK s \in States : s = task[t].seen
    BY <1>4, <2>1, TaskFacts DEF TaskOK
  <2> DEFINE c == [s EXCEPT !.phase = "timer"]
  <2>3. Save(t, "start_save", "return", c) /\ twice \subseteq twice'
    BY <1>8, <2>2 DEF StartSave, history
  <2>4. c.members = s.members
    BY DEF States
  <2> HIDE DEF c
  <2> QED BY <1>4, <2>1, <2>2, <2>3, <2>4, WrittenBanished DEF Clear
<1>9. CASE EntrySave(t)
  <2>1. Save(t, "entry_save", "return", task[t].seen) /\ twice \subseteq twice'
    BY <1>9 DEF EntrySave, history
  <2> QED BY <1>4, <2>1, WrittenBanished
<1> QED BY <1>5, <1>6, <1>7, <1>8, <1>9

\* The list of a start by force names a connection of everybody who has one.
LEMMA ListBanished ==
  ASSUME IInv, Ordered, Banished, mix \notin KickUndone, NEW t \in Tasks, ForceSign(t)
  PROVE  Banished'
<1>1. /\ UNCHANGED <<bans, rows, socks, dying, twice, mix, cache>>
      /\ task[t].pc = "force_sign" /\ task[t].kind = "force"
  BY SignFields DEF ForceSign, stores, network, trial, history
<1>2. CASE Stops(t)
  BY <1>1, <1>2, StopBanished DEF Stops, Calm
<1>3. CASE Goes(t, "start_db") /\ Same(t)
  <2>1. "start_db" \notin Holding \cup (Joining \ {"join_ban"}) \cup Kicking \cup {"force_next"}
    BY DEF Holding, Joining, Kicking
  <2> QED BY <1>1, <1>3, <2>1, MovedBanished DEF Goes, Same, Calm
<1>4. ASSUME NEW f \in [Unsigned(cache) -> Sockets \cup {NoOne}], cache # NoOne,
             \A u \in Unsigned(cache) :
               IF Online(u) THEN f[u] # NoOne /\ f[u][1] = u /\ socks[f[u]] = "joined"
               ELSE f[u] = NoOne,
             Goes(t, "force_next"), task'[t].todo = {<<u, f[u]>> : u \in Unsigned(cache)}
      PROVE  Banished'
  <2>1. ASSUME NEW u \in Unsigned(cache), Joined(u) # {} PROVE f[u] \in Joined(u)
    BY <1>4, <2>1 DEF Online, Joined
  <2>2. ASSUME NEW p \in task'[t].todo PROVE Sole(p[1], p[2])
    <3>1. PICK u \in Unsigned(cache) : p[1] = u /\ p[2] = f[u]
      BY <1>4, <2>2
    <3> QED BY <2>1, <3>1 DEF Sole
  <2>3. \A p \in task'[t].todo : Sole(p[1], p[2])'
    BY <1>1, <2>2 DEF Sole, Joined
  <2>4. task'[t].pc \notin Holding \cup Joining \cup Kicking
    BY <1>4 DEF Goes, Holding, Joining, Kicking
  <2>5. task'[t].pc = "force_next" /\ task'[t].kind = "force"
    BY <1>1, <1>4 DEF Goes
  <2>6. Barred(task[t])'
    BY <2>3, <2>4, <2>5 DEF Barred
  <2> QED BY <1>1, <1>4, <2>6, CalmBanished DEF Goes, Calm
<1> QED BY <1>2, <1>3, <1>4, SignFields

LEMMA NextBanished ==
  ASSUME IInv, Ordered, Banished, mix \notin KickUndone, NEW t \in Tasks, ForceNext(t)
  PROVE  Banished'
<1>1. /\ UNCHANGED <<bans, rows, socks, dying, twice, mix, cache>>
      /\ task[t].pc = "force_next" /\ task[t].kind = "force"
  BY NextFields, Zenon DEF ForceNext, stores, network, trial, history
<1>2. CASE Stops(t)
  BY <1>1, <1>2, StopBanished DEF Stops, Calm
<1>3. CASE Goes(t, "force_check") /\ Same(t)
  <2>1. "force_check" \notin Holding \cup (Joining \ {"join_ban"}) \cup Kicking \cup {"force_next"}
    BY DEF Holding, Joining, Kicking
  <2> QED BY <1>1, <1>3, <2>1, MovedBanished DEF Goes, Same, Calm
<1>4. ASSUME NEW k \in task[t].todo, Goes(t, "kick_row"), task'[t].who = k[1], task'[t].sock = k[2],
             task'[t].todo = task[t].todo \ {k}
      PROVE  Banished'
  <2>1. \A p \in task[t].todo : Sole(p[1], p[2])
    BY <1>1 DEF Banished, Barred
  <2>2. \A p \in task'[t].todo : Sole(p[1], p[2])'
    BY <1>1, <1>4, <2>1 DEF Sole, Joined
  <2>3. Sole(k[1], k[2]) /\ (Sole(k[1], k[2]) => Sole(task'[t].who, task'[t].sock))
    BY <1>4, <2>1
  <2>4. Sole(task[t].who, task[t].sock)'
    BY <1>1, <2>3 DEF Sole, Joined
  <2>5. task'[t].pc \notin Holding \cup Joining \cup {"kick_read", "kick_save", "kick_ban", "kick_socket"}
    BY <1>4 DEF Goes, Holding, Joining
  <2>6. task'[t].pc = "kick_row" /\ task'[t].kind = "force"
    BY <1>1, <1>4 DEF Goes
  <2>7. Barred(task[t])'
    BY <2>2, <2>4, <2>5, <2>6 DEF Barred
  <2> QED BY <1>1, <1>4, <2>7, CalmBanished DEF Goes, Calm
<1> QED BY <1>2, <1>3, <1>4, NextFields, SMTT(30)

-----------------------------------------------------------------------------
(* Requests *)

LEMMA BeginBanished ==
  ASSUME IInv, Ordered, Banished, mix \notin KickUndone, NEW t \in Tasks, NEW kind, NEW u,
         NEW pc \in {"join_ban", "leave_row", "kick_host", "delete", "start_sign", "force_sign", "cleanup_active"},
         Begins(t, kind, pc, u), UNCHANGED <<bans, rows, socks, dying, twice, mix, cache>>,
         kind # "connect", pc = "kick_host" => kind = "kick"
  PROVE  Banished'
<1>1. task[t].pc = "idle"
  BY DEF Begins, Ordered, Course
<1>2. pc \notin Holding \cup (Joining \ {"join_ban"}) \cup (Kicking \ {"kick_host"})
                 \cup {"kick_read", "kick_save", "kick_ban", "kick_socket", "force_next"}
  BY DEF Holding, Joining, Kicking
<1>3. Barred(task[t])'
  BY <1>2 DEF Begins, Barred
<1> QED BY <1>1, <1>3, CalmBanished DEF Begins, Calm

\* A signature, an edit and a permission start with a copy of the state.
LEMMA CopyBanished ==
  ASSUME IInv, Ordered, Banished, mix \notin KickUndone, NEW t \in Tasks, NEW kind \in {"sign", "edited", "permit"},
         NEW u, NEW c, Begins(t, kind, "entry_save", u), task'[t].seen = c, Clear(c),
         UNCHANGED <<bans, rows, socks, dying, twice, mix, cache>>
  PROVE  Banished'
<1>1. task[t].pc = "idle"
  BY DEF Begins, Ordered, Course
<1>2. task'[t].pc = "entry_save" /\ task'[t].kind = kind
  BY DEF Begins
<1>3. task'[t].pc \notin Joining \cup Kicking
  BY <1>2 DEF Joining, Kicking
<1>4. Clear(task[t].seen)'
  BY DEF Clear
<1>5. Barred(task[t])'
  BY <1>2, <1>3, <1>4 DEF Barred
<1> QED BY <1>1, <1>5, CalmBanished DEF Begins, Calm

LEMMA SignBanished ==
  ASSUME IInv, Ordered, Banished, mix \notin KickUndone, NEW t \in Tasks, NEW u \in Users, NEW b \in BOOLEAN,
         Sign(t, u, b)
  PROVE  Banished'
<1>1. PICK s \in States : s = cache /\ s.members[u] # NoOne /\ cache # NoOne
  BY DEF Sign, In, IInv, Typed
<1> DEFINE e == [s.members[u] EXCEPT !.signed = b]
           c == [s EXCEPT !.members[u].signed = b]
<1>2. Begins(t, "sign", "entry_save", u) /\ task'[t].seen = c
  BY <1>1, SeenBegins DEF Sign
<1>3. UNCHANGED <<bans, rows, socks, dying, twice, mix, cache>>
  BY DEF Sign, stores, network, trial
<1>4. \A v \in Users \ {u} : c.members[v] = s.members[v]
  <2>1. c = [s EXCEPT !.members[u] = e]
    BY DEF States
  <2> HIDE DEF e, c
  <2> QED BY <2>1, ChangedFacts DEF States
<1> HIDE DEF c
<1>5. Clear(s) /\ bans \subseteq Users
  BY <1>1 DEF Banished, IInv, Typed
<1>6. Clear(c)
  BY <1>1, <1>4, <1>5 DEF Clear
<1> QED BY <1>2, <1>3, <1>6, CopyBanished

LEMMA EditedBanished ==
  ASSUME IInv, Ordered, Banished, mix \notin KickUndone, NEW t \in Tasks, NEW u \in Users, Edited(t, u)
  PROVE  Banished'
<1>1. PICK s \in States : s = cache
  BY DEF Edited, IInv, Typed
<1>2. UNCHANGED <<bans, rows, socks, dying, twice, mix, cache>> /\ cache # NoOne
  BY DEF Edited, stores, network, trial
<1> DEFINE c == [cache EXCEPT !.members = [v \in Users |->
                   IF In(v) THEN [@[v] EXCEPT !.signed = FALSE] ELSE @[v]]]
<1>3. (Begins(t, "edited", "entry_save", u) /\ task'[t].seen = c) \/ task' = task
  <2>1. Issue(t, [New("edited", "entry_save", u) EXCEPT !.seen = c]) \/ task' = task
    BY Zenon DEF Edited
  <2> HIDE DEF c
  <2> QED BY <2>1, SeenBegins
<1>4. Clear(c)
  <2>1. \A v \in Users : cache.members[v] = NoOne => c.members[v] = NoOne
    BY <1>1 DEF States, In
  <2> HIDE DEF c
  <2> QED BY <1>2, <2>1 DEF Clear, Banished, IInv, Typed
<1> HIDE DEF c
<1>5. CASE task' = task
  BY <1>2, <1>5 DEF Banished, Barred, Clear, Chased, Sole, Joined
<1> QED BY <1>2, <1>3, <1>4, <1>5, CopyBanished

LEMMA PermitBanished ==
  ASSUME IInv, Ordered, Banished, mix \notin KickUndone, NEW t \in Tasks, Permit(t)
  PROVE  Banished'
<1>1. Begins(t, "permit", "entry_save", Host) /\ task'[t].seen = cache
  BY SeenBegins DEF Permit
<1>2. UNCHANGED <<bans, rows, socks, dying, twice, mix, cache>> /\ cache # NoOne
  BY DEF Permit, stores, network, trial, history
<1> QED BY <1>1, <1>2, CopyBanished DEF Banished

\* A connection that begins or ends joins nobody.
LEMMA SocksBanished ==
  ASSUME IInv, Ordered, Banished, mix \notin KickUndone, NEW t \in Tasks, NEW s \in Sockets,
         Connect(t, s) \/ Drop(t, s)
  PROVE  Banished'
<1>1. CASE Connect(t, s)
  <2>1. UNCHANGED <<bans, rows, dying, twice, mix, cache>> /\ socks' = [socks EXCEPT ![s] = "opening"]
    BY <1>1 DEF Connect, stores, trial, history
  <2>2. Issue(t, [New("connect", "conn_check", s[1]) EXCEPT !.sock = s])
    BY <1>1, Zenon DEF Connect
  <2>3. Begins(t, "connect", "conn_check", s[1]) /\ task'[t].sock = s
    BY <2>2, SockBegins
  <2>4. Away(t)
    BY <2>3, StartAwayFacts DEF Begins, Kinds
  <2>5. "conn_check" \notin Holding \cup (Joining \ {"join_ban"}) \cup Kicking \cup {"force_next"}
    BY DEF Holding, Joining, Kicking
  <2>6. Barred(task[t])'
    BY <2>3, <2>5, FreeBarred DEF Begins
  <2>7. \A u \in bans : Joined(u)' \subseteq Joined(u) /\ Joined(u)' \cap dying \subseteq dying'
    BY <2>1 DEF Joined, IInv, Typed
  <2>8. rows' \cap bans = {} /\ (cache' # NoOne => Clear(cache'))
    BY <2>1 DEF Banished
  <2>9. task[t].pc = "idle"
    BY <2>3 DEF Begins, Ordered, Course
  <2> QED BY <2>1, <2>3, <2>4, <2>6, <2>7, <2>8, <2>9, BanKept DEF Begins
<1>2. CASE Drop(t, s)
  <2>1. /\ UNCHANGED <<bans, rows, twice, mix, cache>> /\ socks' = [socks EXCEPT ![s] = "closed"]
        /\ dying' = dying \ {s}
    BY <1>2 DEF Drop, stores, trial, history
  <2>2. Issue(t, [New("drop", "drop_check", s[1]) EXCEPT !.sock = s])
    BY <1>2, Zenon DEF Drop
  <2>3. Begins(t, "drop", "drop_check", s[1])
    BY <2>2, SockBegins
  <2>4. Away(t)
    BY <2>3, StartAwayFacts DEF Begins, Kinds
  <2>5. "drop_check" \notin Holding \cup (Joining \ {"join_ban"}) \cup Kicking \cup {"force_next"}
    BY DEF Holding, Joining, Kicking
  <2>6. Barred(task[t])'
    BY <2>3, <2>5, FreeBarred DEF Begins
  <2>7. \A u \in bans : Joined(u)' \subseteq Joined(u) /\ Joined(u)' \cap dying \subseteq dying'
    BY <2>1 DEF Joined, IInv, Typed
  <2>8. rows' \cap bans = {} /\ (cache' # NoOne => Clear(cache'))
    BY <2>1 DEF Banished
  <2>9. task[t].pc = "idle"
    BY <2>3 DEF Begins, Ordered, Course
  <2> QED BY <2>1, <2>3, <2>4, <2>6, <2>7, <2>8, <2>9, BanKept DEF Begins
<1> QED BY <1>1, <1>2

LEMMA EarlyBanished ==
  ASSUME IInv, Banished, NEW s \in Sockets, DropEarly(s)
  PROVE  Banished'
<1>1. /\ UNCHANGED <<bans, rows, cache, dying, twice, task, mix>>
      /\ socks[s] = "opening" /\ socks' = [socks EXCEPT ![s] = "closed"]
  BY DEF DropEarly, stores, trial, history
<1>2. \A x \in Sockets : (socks'[x] = "joined") = (socks[x] = "joined")
  BY <1>1 DEF IInv, Typed
<1>3. \A u : Joined(u)' = Joined(u)
  BY <1>2 DEF Joined
<1>4. \A u, x : Sole(u, x)' = Sole(u, x)
  BY <1>3 DEF Sole
<1>5. \A t \in Tasks : Barred(task[t]) => Barred(task[t])'
  BY <1>1, <1>4 DEF Barred, Clear
<1> QED BY <1>1, <1>3, <1>5 DEF Banished, Chased, Clear

LEMMA RequestBanished ==
  ASSUME IInv, Ordered, Banished, mix \notin KickUndone, NEW t \in Tasks, Requests(t)
  PROVE  Banished'
<1>1. CASE \E u \in Users : Join(t, u)
  <2>1. UNCHANGED <<bans, rows, socks, dying, twice, mix, cache>>
    BY <1>1 DEF Join, stores, network, trial, history
  <2>2. \E u \in Users : Begins(t, "join", "join_ban", u)
    BY <1>1, FlagBegins DEF Join
  <2> QED BY <2>1, <2>2, BeginBanished
<1>2. CASE \E u \in Users : Leave(t, u)
  <2>1. UNCHANGED <<bans, rows, socks, dying, twice, mix, cache>>
    BY <1>2 DEF Leave, stores, network, trial, history
  <2>2. \E u \in Users : Begins(t, "leave", "leave_row", u)
    BY <1>2, NewBegins DEF Leave
  <2> QED BY <2>1, <2>2, BeginBanished
<1>3. CASE \E u \in Users : Kick(t, u)
  <2>1. UNCHANGED <<bans, rows, socks, dying, twice, mix, cache>>
    BY <1>3 DEF Kick, stores, network, trial, history
  <2>2. \E u \in Users : Begins(t, "kick", "kick_host", u)
    BY <1>3, NewBegins DEF Kick
  <2> QED BY <2>1, <2>2, BeginBanished
<1>4. CASE Cleanup(t)
  <2>1. UNCHANGED <<bans, rows, socks, dying, twice, mix, cache>>
    BY <1>4 DEF Cleanup, stores, trial, history
  <2>2. Begins(t, "cleanup", "cleanup_active", NoOne)
    BY <1>4, NewBegins DEF Cleanup
  <2> QED BY <2>1, <2>2, BeginBanished
<1>5. CASE LeaveHost(t)
  <2>1. UNCHANGED <<bans, rows, socks, dying, twice, mix, cache>>
    BY <1>5 DEF LeaveHost, stores, network, trial, history
  <2>2. Begins(t, "leave", "delete", Host)
    BY <1>5, TodoBegins DEF LeaveHost
  <2> QED BY <2>1, <2>2, BeginBanished
<1>6. CASE \E k \in {"start", "force"} : Start(t, k)
  <2>1. UNCHANGED <<bans, rows, socks, dying, twice, mix, cache>>
    BY <1>6 DEF Start, stores, network, trial, history
  <2>2. Begins(t, "start", "start_sign", Host) \/ Begins(t, "force", "force_sign", Host)
    BY <1>6, NewBegins DEF Start
  <2> QED BY <2>1, <2>2, BeginBanished
<1> QED BY <1>1, <1>2, <1>3, <1>4, <1>5, <1>6, PermitBanished, SignBanished, EditedBanished, SocksBanished
        DEF Requests

LEMMA BanishedKeeps ==
  ASSUME IInv, Ordered, Banished, [Next]_vars
  PROVE  Banished'
<1>1. UNCHANGED mix
  BY MixKept
<1> SUFFICES ASSUME mix \notin KickUndone PROVE Banished'
  BY <1>1 DEF Banished
<1>2. CASE UNCHANGED vars
  BY <1>2 DEF vars, stores, network, history, Banished, Barred, Clear, Chased, Sole, Joined
<1>3. ASSUME NEW t \in Tasks, Steps(t) PROVE Banished'
  BY <1>3, JoinBanished, ConnectBanished, DropBanished, CleanupBanished, LeaveBanished, KickBanished,
     SocketBanished, StartBanished, ListBanished, NextBanished DEF Steps
<1> QED BY <1>2, <1>3, EarlyBanished, RequestBanished DEF Next

LEMMA BanishedInit == Init => Banished
<1> SUFFICES ASSUME Init PROVE Banished
  OBVIOUS
<1>1. bans = {}
  BY DEF Init
<1>2. \A t \in Tasks : Barred(task[t])
  <2>1. \A t \in Tasks : task[t].kind = "none" /\ task[t].pc = "idle"
    BY IdleFields DEF Init
  <2> QED BY <2>1 DEF Barred, Holding, Joining, Kicking
<1> QED BY <1>1, <1>2 DEF Banished, Clear

\* A banned member keeps nothing of the room once every handler is done, under
\* every overlap but those that KickUndone names (handleKick, forceStartTimer).
THEOREM KickedAreOut == Spec => []KickedOut
<1>1. Ordered /\ Banished => KickedOut
  <2> SUFFICES ASSUME Ordered, Banished, \A t \in Tasks : task[t].kind = "none", mix \notin KickUndone,
                      NEW u \in bans
               PROVE  u \notin rows /\ ~In(u) /\ (u \in twice \/ Joined(u) \subseteq dying)
    BY DEF KickedOut
  <2>1. \A t \in Tasks : task[t].pc # "kick_socket"
    BY DEF Ordered, Course
  <2>2. u \notin rows /\ Chased(u) /\ (cache # NoOne => Clear(cache))
    BY DEF Banished
  <2> QED BY <2>1, <2>2 DEF Chased, Clear, In
<1>2. Init => IInv /\ Ordered /\ Banished
  BY InitKeeps, OrderedInit, BanishedInit
<1>3. IInv /\ Ordered /\ Banished /\ [Next]_vars => (IInv /\ Ordered /\ Banished)'
  BY StepKeeps, OrderKept, BanishedKeeps
<1> QED BY <1>1, <1>2, <1>3, PTL DEF Spec

-----------------------------------------------------------------------------
(* Where a step leads, and what it changes *)

\* getState: a handler goes on with a copy of the state.
Takes(t, pc) == /\ cache # NoOne /\ UNCHANGED <<phase, rows, cache, socks>>
                /\ Goes(t, pc) /\ Same(t) /\ task'[t].seen = cache

\* Where a handler's step leads.
Leads(t) ==
  \/ Stops(t)
  \/ \E pc \in PCs \ (Holding \cup {"contract_db", "start_read", "delete"}) : Goes(t, pc)
  \/ \E pc \in Holding : /\ Takes(t, pc) /\ task[t].pc \notin Saves
                         /\ pc = "contract_save" => cache.phase = "lobby"
                         /\ pc = "start_save" => task[t].pc = "start_read"
  \/ ContractSave(t) /\ Goes(t, "contract_db")
  \/ StartDB(t) /\ Goes(t, "start_read")
  \/ CleanupCount(t) /\ Goes(t, "delete") /\ task'[t].todo = {"state", "phase"}
  \/ Delete(t) /\ Goes(t, "delete")

LEMMA PlainLeads ==
  ASSUME NEW t \in Tasks,
         NEW pc \in {"join_member", "join_row", "join_read", "conn_read", "contract_read", "drop_read", "drop_count",
                     "cleanup_count", "leave_read", "kick_row", "kick_read", "kick_ban", "kick_socket",
                     "start_db", "force_next", "force_check"}, Goes(t, pc)
  PROVE  Leads(t)
<1>1. pc \in PCs \ (Holding \cup {"contract_db", "start_read", "delete"})
  BY DEF PCs, Holding
<1> QED BY <1>1 DEF Leads

LEMMA ReadLeads ==
  ASSUME IInv, NEW t \in Tasks, NEW pc \in Holding, cache # NoOne, task[t].pc \notin Holding,
         task' = [task EXCEPT ![t].pc = pc, ![t].seen = cache], UNCHANGED <<phase, rows, cache, socks>>,
         pc = "contract_save" => cache.phase = "lobby",
         pc = "start_save" => task[t].pc = "start_read"
  PROVE  Leads(t)
<1>1. Takes(t, pc)
  BY SeenFields DEF Takes
<1> QED BY <1>1 DEF Leads, Saves

LEMMA JoinLeads ==
  ASSUME IInv, NEW t \in Tasks, JoinBan(t) \/ JoinMember(t) \/ JoinRow(t) \/ JoinRead(t) \/ JoinSave(t)
  PROVE  Leads(t)
<1>1. CASE JoinMember(t)
  <2>1. CASE task' = [task EXCEPT ![t].pc = "join_row", ![t].flag = task[t].who \in rows]
    <3> DEFINE f == task[t].who \in rows
    <3>1. task' = [task EXCEPT ![t].pc = "join_row", ![t].flag = f]
      BY <2>1
    <3> HIDE DEF f
    <3>2. Goes(t, "join_row")
      BY <3>1, TaskFacts DEF Goes, Others, TaskStates
    <3> QED BY <3>2, PlainLeads
  <2> QED BY <1>1, <2>1, ReturnFields DEF JoinMember, Leads
<1>2. CASE JoinBan(t) \/ JoinRow(t)
  BY <1>2, PlainLeads, GotoFields, ReturnFields DEF JoinBan, JoinRow, Leads
<1>3. CASE JoinRead(t)
  <2>1. UNCHANGED <<phase, rows, cache, socks>> /\ task[t].pc = "join_read"
    BY <1>3 DEF JoinRead, Read, At, stores, network
  <2>2. CASE cache # NoOne /\ task' = [task EXCEPT ![t].pc = "join_save", ![t].seen = cache]
    BY <2>1, <2>2, ReadLeads DEF Holding
  <2> QED BY <1>3, <2>2, ReturnFields DEF JoinRead, Read, Leads
<1>4. CASE JoinSave(t)
  BY <1>4, ReturnFields DEF JoinSave, Save, Leads
<1> QED BY <1>1, <1>2, <1>3, <1>4

LEMMA ConnectLeads ==
  ASSUME IInv, NEW t \in Tasks,
         \/ ConnCheck(t) \/ ConnMember(t) \/ ConnRead(t) \/ ConnSave(t)
         \/ ContractRead(t) \/ ContractSave(t) \/ ContractDB(t)
  PROVE  Leads(t)
<1>1. CASE ConnCheck(t)
  <2>1. UNCHANGED <<phase, rows, cache>> /\ task[t].pc = "conn_check"
    BY <1>1 DEF ConnCheck, At, stores
  <2>2. CASE cache # NoOne /\ task' = [task EXCEPT ![t].pc = "conn_member", ![t].seen = cache] /\ UNCHANGED socks
    BY <2>1, <2>2, ReadLeads, Zenon DEF Holding
  <2> QED BY <1>1, <2>2, ReturnFields DEF ConnCheck, Leads
<1>2. CASE ConnMember(t)
  BY <1>2, PlainLeads, SeenFields, ReturnFields, Zenon DEF ConnMember, Leads
<1>3. CASE ConnRead(t)
  <2>1. UNCHANGED <<phase, rows, cache, socks>> /\ task[t].pc = "conn_read"
    BY <1>3 DEF ConnRead, Read, At, stores, network
  <2>2. CASE cache # NoOne /\ task' = [task EXCEPT ![t].pc = "conn_save", ![t].seen = cache]
    BY <2>1, <2>2, ReadLeads DEF Holding
  <2> QED BY <1>3, <2>2, PlainLeads, GotoFields DEF ConnRead, Read
<1>4. CASE ConnSave(t)
  BY <1>4, PlainLeads, SeenFields DEF ConnSave, Save
<1>5. CASE ContractRead(t)
  <2>1. UNCHANGED <<phase, rows, cache, socks>> /\ task[t].pc = "contract_read"
    BY <1>5 DEF ContractRead, Read, At, stores, network
  <2>2. CASE /\ cache # NoOne /\ cache.phase = "lobby"
             /\ task' = [task EXCEPT ![t].pc = "contract_save", ![t].seen = cache]
    BY <2>1, <2>2, ReadLeads DEF Holding
  <2> QED BY <1>5, <2>2, ReturnFields DEF ContractRead, Read, Leads
<1>6. CASE ContractSave(t)
  BY <1>6, SeenFields DEF ContractSave, Save, Leads
<1>7. CASE ContractDB(t)
  BY <1>7, ReturnFields DEF ContractDB, Leads
<1> QED BY <1>1, <1>2, <1>3, <1>4, <1>5, <1>6, <1>7

LEMMA DropLeads ==
  ASSUME IInv, NEW t \in Tasks, DropCheck(t) \/ DropRead(t) \/ DropSave(t) \/ DropCount(t)
  PROVE  Leads(t)
<1>1. CASE DropCheck(t)
  BY <1>1, PlainLeads, SeenFields, ReturnFields DEF DropCheck, Read, Leads
<1>2. CASE DropRead(t)
  <2>1. UNCHANGED <<phase, rows, cache, socks>> /\ task[t].pc = "drop_read"
    BY <1>2 DEF DropRead, Read, At, stores, network
  <2>2. CASE cache # NoOne /\ task' = [task EXCEPT ![t].pc = "drop_save", ![t].seen = cache]
    BY <2>1, <2>2, ReadLeads DEF Holding
  <2> QED BY <1>2, <2>2, PlainLeads, GotoFields DEF DropRead, Read
<1>3. CASE DropSave(t)
  BY <1>3, PlainLeads, SeenFields DEF DropSave, Save
<1>4. CASE DropCount(t)
  BY <1>4, ReturnFields DEF DropCount, Leads
<1> QED BY <1>1, <1>2, <1>3, <1>4

LEMMA CleanupLeads ==
  ASSUME IInv, NEW t \in Tasks, CleanupActive(t) \/ CleanupCount(t) \/ Delete(t)
  PROVE  Leads(t)
<1>1. CASE CleanupActive(t)
  BY <1>1, PlainLeads, GotoFields, ReturnFields DEF CleanupActive, CleanupDone, Leads
<1>2. CASE CleanupCount(t)
  <2>1. ASSUME task' = [task EXCEPT ![t].pc = "delete", ![t].todo = {"state", "phase"}]
        PROVE  Goes(t, "delete") /\ task'[t].todo = {"state", "phase"}
    BY <2>1, TaskFacts DEF Goes, Others, TaskStates
  <2> QED BY <1>2, <2>1, ReturnFields DEF CleanupCount, CleanupDone, Leads
<1>3. CASE Delete(t)
  BY <1>3, DeleteFields DEF Leads
<1> QED BY <1>1, <1>2, <1>3

LEMMA LeaveLeads ==
  ASSUME IInv, NEW t \in Tasks, LeaveRow(t) \/ LeaveRead(t) \/ LeaveSave(t)
  PROVE  Leads(t)
<1>1. CASE LeaveRow(t)
  BY <1>1, PlainLeads, GotoFields DEF LeaveRow
<1>2. CASE LeaveRead(t)
  <2>1. UNCHANGED <<phase, rows, cache, socks>> /\ task[t].pc = "leave_read"
    BY <1>2 DEF LeaveRead, Read, At, stores, network
  <2>2. CASE cache # NoOne /\ task' = [task EXCEPT ![t].pc = "leave_save", ![t].seen = cache]
    BY <2>1, <2>2, ReadLeads DEF Holding
  <2> QED BY <1>2, <2>2, ReturnFields DEF LeaveRead, Read, Leads
<1>3. CASE LeaveSave(t)
  BY <1>3, ReturnFields DEF LeaveSave, Save, Leads
<1> QED BY <1>1, <1>2, <1>3

LEMMA KickLeads ==
  ASSUME IInv, NEW t \in Tasks,
         KickHost(t) \/ KickRow(t) \/ KickRead(t) \/ KickSave(t) \/ KickBan(t) \/ KickSocket(t) \/ KickFault(t)
  PROVE  Leads(t)
<1>1. CASE KickHost(t) \/ KickRow(t) \/ KickBan(t) \/ KickSocket(t)
  BY <1>1, PlainLeads, GotoFields, ReturnFields DEF KickHost, KickRow, KickBan, KickSocket, Leads
<1>2. CASE KickRead(t)
  <2>1. UNCHANGED <<phase, rows, cache, socks>> /\ task[t].pc = "kick_read"
    BY <1>2 DEF KickRead, Read, At, stores, network
  <2>2. CASE cache # NoOne /\ task' = [task EXCEPT ![t].pc = "kick_save", ![t].seen = cache]
    BY <2>1, <2>2, ReadLeads DEF Holding
  <2> QED BY <1>2, <2>2, PlainLeads, GotoFields DEF KickRead, Read
<1>3. CASE KickSave(t)
  BY <1>3, PlainLeads, SeenFields DEF KickSave, Save
<1>4. CASE KickFault(t)
  BY <1>4, PlainLeads, FaultFields DEF Leads
<1> QED BY <1>1, <1>2, <1>3, <1>4

LEMMA StartLeads ==
  ASSUME IInv, NEW t \in Tasks,
         \/ StartSign(t) \/ StartDB(t) \/ StartRead(t) \/ StartSave(t) \/ EntrySave(t)
         \/ ForceSign(t) \/ ForceNext(t) \/ ForceCheck(t)
  PROVE  Leads(t)
<1>1. CASE StartSign(t) \/ ForceCheck(t)
  BY <1>1, PlainLeads, GotoFields, ReturnFields DEF StartSign, ForceCheck, Leads
<1>2. CASE StartDB(t)
  BY <1>2, GotoFields DEF StartDB, Leads
<1>3. CASE StartRead(t)
  <2>1. UNCHANGED <<phase, rows, cache, socks>> /\ task[t].pc = "start_read"
    BY <1>3 DEF StartRead, Read, At, stores, network
  <2>2. CASE cache # NoOne /\ task' = [task EXCEPT ![t].pc = "start_save", ![t].seen = cache]
    BY <2>1, <2>2, ReadLeads DEF Holding
  <2> QED BY <1>3, <2>2, ReturnFields DEF StartRead, Read, Leads
<1>4. CASE StartSave(t) \/ EntrySave(t)
  BY <1>4, ReturnFields DEF StartSave, EntrySave, Save, Leads
<1>5. CASE ForceSign(t)
  BY <1>5, PlainLeads, SignFields DEF Leads
<1>6. CASE ForceNext(t)
  BY <1>6, PlainLeads, NextFields DEF Leads
<1> QED BY <1>1, <1>2, <1>3, <1>4, <1>5, <1>6

LEMMA StepLeads ==
  ASSUME IInv, NEW t \in Tasks, Steps(t)
  PROVE  Leads(t)
BY JoinLeads, ConnectLeads, DropLeads, CleanupLeads, LeaveLeads, KickLeads, StartLeads DEF Steps

\* What each step changes.
Live(u) == Joined(u) \ dying

Writes(t) == \/ JoinSave(t) \/ ConnSave(t) \/ ContractSave(t) \/ DropSave(t) \/ LeaveSave(t)
             \/ KickSave(t) \/ EntrySave(t) \/ StartSave(t)

LEMMA StepEffects ==
  ASSUME IInv, NEW t \in Tasks, Steps(t)
  PROVE  /\ phase' = phase \/ ContractDB(t) \/ StartDB(t) \/ (Delete(t) /\ phase' = "closed")
         /\ rows' \subseteq rows \/ JoinRow(t)
         /\ cache' = cache \/ Writes(t) \/ (Delete(t) /\ cache' = NoOne)
         /\ timer' = timer \/ ConnMember(t) \/ DropCount(t) \/ CleanupDone(t)
         /\ twice \subseteq twice'
         /\ ConnMember(t) \/ \A u : Live(u)' \subseteq Live(u)
<1>1. /\ phase' = phase \/ ContractDB(t) \/ StartDB(t) \/ (Delete(t) /\ phase' = "closed")
      /\ rows' \subseteq rows \/ JoinRow(t)
      /\ cache' = cache \/ Writes(t) \/ (Delete(t) /\ cache' = NoOne)
  BY ZenonT(60) DEF Steps, Writes, JoinBan, JoinMember, JoinRow, JoinRead, JoinSave, ConnCheck, ConnMember, ConnRead, ConnSave,
     ContractRead, ContractSave, ContractDB, DropCheck, DropRead, DropSave, DropCount, CleanupActive,
     CleanupCount, Delete, LeaveRow, LeaveRead, LeaveSave, KickHost, KickRow, KickRead, KickSave, KickBan,
     KickFault, KickSocket, EntrySave, StartSign, StartDB, StartRead, StartSave, ForceSign, ForceNext,
     ForceCheck, Read, Save, stores
<1>2. /\ timer' = timer \/ ConnMember(t) \/ DropCount(t) \/ CleanupDone(t)
      /\ twice \subseteq twice'
      /\ UNCHANGED socks \/ ConnMember(t) \/ (\E s : socks' = [socks EXCEPT ![s] = "closed"])
      /\ dying \subseteq dying'
  BY Zenon DEF Steps, JoinBan, JoinMember, JoinRow, JoinRead, JoinSave, ConnCheck, ConnMember, ConnRead, ConnSave,
     ContractRead, ContractSave, ContractDB, DropCheck, DropRead, DropSave, DropCount, CleanupActive,
     CleanupCount, Delete, LeaveRow, LeaveRead, LeaveSave, KickHost, KickRow, KickRead, KickSave, KickBan,
     KickFault, KickSocket, EntrySave, StartSign, StartDB, StartRead, StartSave, ForceSign, ForceNext,
     ForceCheck, Read, Save, network, history
<1>3. ASSUME UNCHANGED socks \/ (\E s : socks' = [socks EXCEPT ![s] = "closed"]), NEW u
      PROVE  Live(u)' \subseteq Live(u)
  BY <1>2, <1>3 DEF Live, Joined, IInv, Typed
<1> QED BY <1>1, <1>2, <1>3, SMTT(30)

\* What a write makes of the copy s that was read.
Changed(t, s, c) ==
  \/ c.members = s.members
  \/ /\ \A v \in Users \ {task[t].who} : c.members[v] = s.members[v]
     /\ \/ JoinSave(t) /\ c.members[task[t].who] = Fresh
        \/ /\ ConnSave(t) /\ c.members[task[t].who] # NoOne
           /\ c.members[task[t].who].sock = task[t].sock
        \/ DropSave(t) /\ c.members[task[t].who] # NoOne
        \/ (LeaveSave(t) \/ KickSave(t)) /\ c.members[task[t].who] = NoOne

LEMMA WrittenFacts ==
  ASSUME IInv, NEW t \in Tasks, Writes(t)
  PROVE  /\ task[t].seen \in States /\ cache' \in States /\ task[t].pc \in Saves
         /\ UNCHANGED <<phase, rows, socks, dying, timer, mix>>
         /\ \/ cache'.phase = task[t].seen.phase
            \/ ContractSave(t) /\ cache'.phase = "contract"
            \/ StartSave(t) /\ cache'.phase = "timer"
         /\ Changed(t, task[t].seen, cache')
<1>1. task[t].pc \in Saves /\ UNCHANGED <<phase, rows, socks, dying, timer, mix>>
  BY Zenon DEF Writes, JoinSave, ConnSave, ContractSave, DropSave, LeaveSave, KickSave, EntrySave, StartSave, Save,
         At, network, trial, Saves, Holding
<1>2. PICK s \in States : s = task[t].seen
  BY <1>1, TaskFacts DEF TaskOK, Saves
<1>3. ASSUME NEW e \in Entry \cup {NoOne}, NEW u \in Users, u = task[t].who,
             cache' = [s EXCEPT !.members[u] = e]
      PROVE  /\ cache' \in States /\ cache'.phase = s.phase /\ cache'.members[u] = e
             /\ \A v \in Users \ {u} : cache'.members[v] = s.members[v]
  BY <1>3, EntryType, ChangedFacts DEF States
<1>4. ASSUME NEW x \in Sockets \cup {NoOne}, NEW u \in Users, u = task[t].who, s.members[u] # NoOne,
             cache' = [s EXCEPT !.members[u].sock = x]
      PROVE  /\ cache' \in States /\ cache'.phase = s.phase
             /\ cache'.members[u] # NoOne /\ cache'.members[u].sock = x
             /\ \A v \in Users \ {u} : cache'.members[v] = s.members[v]
  <2> DEFINE e == [s.members[u] EXCEPT !.sock = x]
  <2>1. s.members[u] \in Entry
    BY <1>4, MemberType
  <2>2. e \in Entry /\ e.sock = x
    BY <2>1 DEF Entry
  <2>3. cache' = [s EXCEPT !.members[u] = e]
    BY <1>4 DEF States
  <2>4. e # NoOne
    BY <2>2, NullAssumption
  <2> HIDE DEF e
  <2> QED BY <1>3, <1>4, <2>2, <2>3, <2>4
<1>5. CASE JoinSave(t)
  <2>1. PICK u \in Users : u = task[t].who /\ cache' = [s EXCEPT !.members[u] = Fresh]
    BY <1>1, <1>2, <1>5, TaskFacts DEF JoinSave, Save, At, TaskOK, Serving, Joining
  <2>2. Fresh \in Entry \cup {NoOne}
    BY DEF Fresh, Entry
  <2>3. /\ cache' \in States /\ cache'.phase = s.phase /\ cache'.members[u] = Fresh
        /\ \A v \in Users \ {u} : cache'.members[v] = s.members[v]
    BY <1>3, <2>1, <2>2
  <2>4. Changed(t, s, cache')
    BY <1>5, <2>1, <2>3 DEF Changed
  <2> QED BY <1>1, <1>2, <2>3, <2>4
<1>6. CASE LeaveSave(t) \/ KickSave(t)
  <2>1. PICK u \in Users : u = task[t].who /\ cache' = [s EXCEPT !.members[u] = NoOne]
    BY <1>1, <1>2, <1>6, TaskFacts DEF LeaveSave, KickSave, Save, At, TaskOK, Serving, Kicking
  <2>2. /\ cache' \in States /\ cache'.phase = s.phase /\ cache'.members[u] = NoOne
        /\ \A v \in Users \ {u} : cache'.members[v] = s.members[v]
    BY <1>3, <2>1
  <2>3. Changed(t, s, cache')
    BY <1>6, <2>1, <2>2 DEF Changed
  <2> QED BY <1>1, <1>2, <2>2, <2>3
<1>7. CASE ConnSave(t)
  <2>1. PICK u \in Users, x \in Sockets \cup {NoOne} :
          u = task[t].who /\ x = task[t].sock /\ cache' = [s EXCEPT !.members[u].sock = x] /\ s.members[u] # NoOne
    BY <1>1, <1>2, <1>7, TaskFacts DEF ConnSave, Save, At, TaskOK, TaskStates, Serving
  <2>2. /\ cache' \in States /\ cache'.phase = s.phase
        /\ cache'.members[u] # NoOne /\ cache'.members[u].sock = x
        /\ \A v \in Users \ {u} : cache'.members[v] = s.members[v]
    BY <1>4, <2>1
  <2>3. Changed(t, s, cache')
    BY <1>7, <2>1, <2>2 DEF Changed
  <2> QED BY <1>1, <1>2, <2>2, <2>3
<1>8. CASE DropSave(t)
  <2>1. PICK u \in Users, x \in Sockets \cup {NoOne} :
          u = task[t].who /\ x = NoOne /\ cache' = [s EXCEPT !.members[u].sock = x] /\ s.members[u] # NoOne
    BY <1>1, <1>2, <1>8, TaskFacts DEF DropSave, Save, At, TaskOK, TaskStates, Serving
  <2>2. /\ cache' \in States /\ cache'.phase = s.phase
        /\ cache'.members[u] # NoOne /\ cache'.members[u].sock = x
        /\ \A v \in Users \ {u} : cache'.members[v] = s.members[v]
    BY <1>4, <2>1
  <2>3. Changed(t, s, cache')
    BY <1>8, <2>1, <2>2 DEF Changed
  <2> QED BY <1>1, <1>2, <2>2, <2>3
<1>9. CASE ContractSave(t)
  <2>1. cache' = [s EXCEPT !.phase = "contract"]
    BY <1>2, <1>9 DEF ContractSave, Save
  <2>2. cache' \in States /\ cache'.phase = "contract" /\ cache'.members = s.members
    BY <2>1, PhaseType DEF Phases, States
  <2> QED BY <1>1, <1>2, <1>9, <2>2 DEF Changed
<1>10. CASE StartSave(t)
  <2>1. cache' = [s EXCEPT !.phase = "timer"]
    BY <1>2, <1>10 DEF StartSave, Save
  <2>2. cache' \in States /\ cache'.phase = "timer" /\ cache'.members = s.members
    BY <2>1, PhaseType DEF Phases, States
  <2> QED BY <1>1, <1>2, <1>10, <2>2 DEF Changed
<1>11. CASE EntrySave(t)
  BY <1>1, <1>2, <1>11 DEF EntrySave, Save, Changed
<1> QED BY <1>5, <1>6, <1>7, <1>8, <1>9, <1>10, <1>11, SMTT(30) DEF Writes

-----------------------------------------------------------------------------
(* What a request starts *)

SameSocks(c, d) ==
  \A v \in Users : /\ c.members[v] = NoOne <=> d.members[v] = NoOne
                   /\ c.members[v] # NoOne => c.members[v].sock = d.members[v].sock

Launches(t, kind, pc, u) ==
  /\ Begins(t, kind, pc, u)
  /\ pc = "entry_save" => /\ cache # NoOne /\ task'[t].seen \in States
                          /\ task'[t].seen.phase = cache.phase /\ SameSocks(task'[t].seen, cache)
  /\ kind \in {"start", "force"} => phase = "contract"
  /\ pc = "delete" => task'[t].todo = {"state", "phase"}
  /\ kind = "drop" => task'[t].sock \in Sockets /\ socks'[task'[t].sock] = "closed"
  /\ kind = "connect" => task'[t].sock \in Sockets /\ task'[t].sock[1] = u
  /\ kind = "cleanup" => Cleanup(t)

Starting == {<<"join", "join_ban">>, <<"leave", "leave_row">>, <<"kick", "kick_host">>, <<"sign", "entry_save">>,
             <<"edited", "entry_save">>, <<"connect", "conn_check">>, <<"drop", "drop_check">>,
             <<"leave", "delete">>, <<"permit", "entry_save">>, <<"start", "start_sign">>,
             <<"force", "force_sign">>, <<"cleanup", "cleanup_active">>}

LEMMA RequestLaunches ==
  ASSUME IInv, NEW t \in Tasks, Requests(t)
  PROVE  task' = task \/ \E p \in Starting, u \in Users \cup {NoOne} : Launches(t, p[1], p[2], u)
<1> DEFINE G == \E p \in Starting, u \in Users \cup {NoOne} : Launches(t, p[1], p[2], u)
<1> SUFFICES task' = task \/ G
  OBVIOUS
<1>0. ASSUME NEW kind, NEW pc, NEW u \in Users \cup {NoOne}, <<kind, pc>> \in Starting, Launches(t, kind, pc, u) PROVE G
  <2>1. <<kind, pc>>[1] = kind /\ <<kind, pc>>[2] = pc
    OBVIOUS
  <2> QED BY <1>0, <2>1
<1> HIDE DEF G
<1>h. Host \in Users
  BY PresenceAssumption
<1>1. CASE \E u \in Users : Join(t, u)
  <2>1. PICK u \in Users : Begins(t, "join", "join_ban", u)
    BY <1>1, FlagBegins DEF Join
  <2>2. Launches(t, "join", "join_ban", u) /\ <<"join", "join_ban">> \in Starting
    BY <2>1 DEF Launches, Starting
  <2> QED BY <1>0, <2>2
<1>2. CASE \E u \in Users : Leave(t, u)
  <2>1. PICK u \in Users : Begins(t, "leave", "leave_row", u)
    BY <1>2, NewBegins DEF Leave
  <2>2. Launches(t, "leave", "leave_row", u) /\ <<"leave", "leave_row">> \in Starting
    BY <2>1 DEF Launches, Starting
  <2> QED BY <1>0, <2>2
<1>3. CASE \E u \in Users : Kick(t, u)
  <2>1. PICK u \in Users : Begins(t, "kick", "kick_host", u)
    BY <1>3, NewBegins DEF Kick
  <2>2. Launches(t, "kick", "kick_host", u) /\ <<"kick", "kick_host">> \in Starting
    BY <2>1 DEF Launches, Starting
  <2> QED BY <1>0, <2>2
<1>4. ASSUME NEW kind \in {"sign", "edited", "permit"}, NEW u \in Users, NEW c \in States, cache # NoOne,
             Begins(t, kind, "entry_save", u), task'[t].seen = c, c.phase = cache.phase, SameSocks(c, cache)
      PROVE  G
  <2>1. Launches(t, kind, "entry_save", u) /\ <<kind, "entry_save">> \in Starting
    BY <1>4 DEF Launches, Starting
  <2> QED BY <1>0, <2>1
<1>5. CASE \E u \in Users : Edited(t, u)
  <2>1. PICK u \in Users, s \in States : Edited(t, u) /\ s = cache /\ cache # NoOne
    BY <1>5 DEF Edited, IInv, Typed
  <2> DEFINE m == [v \in Users |-> IF In(v) THEN [s.members[v] EXCEPT !.signed = FALSE] ELSE s.members[v]]
             c == [cache EXCEPT !.members = [v \in Users |->
                     IF In(v) THEN [@[v] EXCEPT !.signed = FALSE] ELSE @[v]]]
  <2>2. \/ Issue(t, [New("edited", "entry_save", u) EXCEPT !.seen = c])
        \/ task' = task
    BY <2>1, Zenon DEF Edited
  <2>3. ASSUME NEW v \in Users
        PROVE  /\ m[v] \in Entry \cup {NoOne}
               /\ m[v] = NoOne <=> s.members[v] = NoOne
               /\ m[v] # NoOne => m[v].sock = s.members[v].sock
    <3> DEFINE e == [s.members[v] EXCEPT !.signed = FALSE]
    <3>1. m[v] = IF s.members[v] # NoOne THEN e ELSE s.members[v]
      BY <2>1 DEF In
    <3>2. s.members[v] # NoOne => e \in Entry /\ e.sock = s.members[v].sock
      BY MemberType DEF Entry
    <3> HIDE DEF e, m
    <3> QED BY <3>1, <3>2, NullAssumption
  <2>a. m = [v \in Users |-> m[v]]
    OBVIOUS
  <2>5. c = [s EXCEPT !.members = m]
    BY <2>1 DEF States
  <2> HIDE DEF c, m
  <2>4. m \in [Users -> Entry \cup {NoOne}]
    BY <2>3, <2>a
  <2>6. c \in States /\ c.phase = s.phase /\ c.members = m
    BY <2>4, <2>5 DEF States
  <2>7. SameSocks(c, cache)
    BY <2>1, <2>3, <2>6 DEF SameSocks
  <2> QED BY <1>4, <2>1, <2>2, <2>6, <2>7, SeenBegins
<1>6. CASE \E u \in Users, b \in BOOLEAN : Sign(t, u, b)
  <2>1. PICK u \in Users, b \in BOOLEAN, s \in States : Sign(t, u, b) /\ s = cache /\ cache # NoOne /\ s.members[u] # NoOne
    BY <1>6 DEF Sign, In, IInv, Typed
  <2> DEFINE e == [s.members[u] EXCEPT !.signed = b]
             c == [s EXCEPT !.members[u].signed = b]
  <2>2. Begins(t, "sign", "entry_save", u) /\ task'[t].seen = c
    BY <2>1, SeenBegins DEF Sign
  <2>3. e \in Entry /\ e.sock = s.members[u].sock
    BY <2>1, MemberType DEF Entry
  <2>4. c = [s EXCEPT !.members[u] = e]
    BY DEF States
  <2> HIDE DEF c, e
  <2>5. /\ c \in States /\ c.phase = s.phase /\ c.members[u] = e
        /\ \A v \in Users \ {u} : c.members[v] = s.members[v]
    BY <2>3, <2>4, EntryType, ChangedFacts DEF States
  <2>6. SameSocks(c, cache)
    BY <2>1, <2>3, <2>5, NullAssumption DEF SameSocks
  <2> QED BY <1>4, <2>1, <2>2, <2>5, <2>6
<1>7. CASE Permit(t)
  <2>1. Begins(t, "permit", "entry_save", Host) /\ task'[t].seen = cache /\ cache # NoOne /\ cache \in States
    BY <1>7, SeenBegins DEF Permit, IInv, Typed
  <2> QED BY <1>4, <1>h, <2>1 DEF SameSocks
<1>8. CASE \E s \in Sockets : Connect(t, s) \/ Drop(t, s)
  <2>1. PICK s \in Sockets : Connect(t, s) \/ Drop(t, s)
    BY <1>8
  <2>2. s[1] \in Users
    BY PresenceAssumption
  <2>3. CASE Connect(t, s)
    <3>1. Issue(t, [New("connect", "conn_check", s[1]) EXCEPT !.sock = s])
      BY <2>3, Zenon DEF Connect
    <3>2. Launches(t, "connect", "conn_check", s[1]) /\ <<"connect", "conn_check">> \in Starting
      BY <3>1, SockBegins DEF Launches, Starting
    <3> QED BY <1>0, <2>2, <3>2
  <2>4. CASE Drop(t, s)
    <3>1. Issue(t, [New("drop", "drop_check", s[1]) EXCEPT !.sock = s]) /\ socks' = [socks EXCEPT ![s] = "closed"]
      BY <2>4, Zenon DEF Drop
    <3>2. socks'[s] = "closed"
      BY <3>1 DEF IInv, Typed
    <3>3. Launches(t, "drop", "drop_check", s[1]) /\ <<"drop", "drop_check">> \in Starting
      BY <3>1, <3>2, SockBegins DEF Launches, Starting
    <3> QED BY <1>0, <2>2, <3>3
  <2> QED BY <2>1, <2>3, <2>4
<1>9. CASE Cleanup(t)
  <2>1. Begins(t, "cleanup", "cleanup_active", NoOne)
    BY <1>9, NewBegins DEF Cleanup
  <2>2. Launches(t, "cleanup", "cleanup_active", NoOne) /\ <<"cleanup", "cleanup_active">> \in Starting
    BY <1>9, <2>1 DEF Launches, Starting
  <2> QED BY <1>0, <2>2
<1>10. CASE LeaveHost(t)
  <2>1. Begins(t, "leave", "delete", Host) /\ task'[t].todo = {"state", "phase"}
    BY <1>10, TodoBegins DEF LeaveHost
  <2>2. Launches(t, "leave", "delete", Host) /\ <<"leave", "delete">> \in Starting
    BY <2>1 DEF Launches, Starting
  <2> QED BY <1>0, <1>h, <2>2
<1>11. CASE \E k \in {"start", "force"} : Start(t, k)
  <2>1. phase = "contract" /\ (Begins(t, "start", "start_sign", Host) \/ Begins(t, "force", "force_sign", Host))
    BY <1>11, NewBegins DEF Start
  <2>2. CASE Begins(t, "start", "start_sign", Host)
    <3>1. Launches(t, "start", "start_sign", Host) /\ <<"start", "start_sign">> \in Starting
      BY <2>1, <2>2 DEF Launches, Starting
    <3> QED BY <1>0, <1>h, <3>1
  <2>3. CASE Begins(t, "force", "force_sign", Host)
    <3>1. Launches(t, "force", "force_sign", Host) /\ <<"force", "force_sign">> \in Starting
      BY <2>1, <2>3 DEF Launches, Starting
    <3> QED BY <1>0, <1>h, <3>1
  <2> QED BY <2>1, <2>2, <2>3
<1> QED BY <1>1, <1>2, <1>3, <1>5, <1>6, <1>7, <1>8, <1>9, <1>10, <1>11 DEF Requests

LEMMA RequestEffects ==
  ASSUME IInv, NEW t \in Tasks, Requests(t)
  PROVE  /\ UNCHANGED <<phase, rows, cache, twice>> /\ timer' \subseteq timer
         /\ \A u : Live(u)' \subseteq Live(u)
<1>1. /\ UNCHANGED <<phase, rows, cache, twice>> /\ timer' \subseteq timer
      /\ \/ UNCHANGED <<socks, dying>>
         \/ \E s : socks' = [socks EXCEPT ![s] = "opening"] /\ UNCHANGED dying
         \/ \E s : socks' = [socks EXCEPT ![s] = "closed"] /\ dying' = dying \ {s}
  BY DEF Requests, Join, Leave, Kick, Edited, Sign, Connect, Drop, Cleanup, LeaveHost, Permit, Start,
     stores, network, history
<1> QED BY <1>1 DEF Live, Joined, IInv, Typed

-----------------------------------------------------------------------------
(* Who may be there with whom *)

\* While somebody joins or connects, only a start may be under way.
LEMMA LostSocket ==
  ASSUME NEW a \in {"join", "connect"}, NEW b \in Kinds, mix = {a, b}, mix \notin SocketLost
  PROVE  b = "start"
BY DEF SocketLost

LEMMA ArriveFacts ==
  ASSUME IInv, Ordered, mix \notin SocketLost, NEW t \in Tasks, NEW o \in Tasks \ {t}, task[t].kind \in {"join", "connect"}
  PROVE  task[o].kind \in {"none", "start"}
<1>1. task[o].kind # "none" => {task[t].kind, task[o].kind} = mix
  BY DEF Ordered, Overlap
<1> QED BY <1>1, KindFacts, LostSocket

LEMMA StartArriveFacts ==
  ASSUME IInv, mix \notin SocketLost, NEW t \in Tasks, NEW o \in Tasks \ {t}, NEW kind \in Kinds, MayStart(t, kind)
  PROVE  /\ kind \in {"join", "connect"} => task[o].kind \in {"none", "start"}
         /\ task[o].kind \in {"join", "connect"} => kind = "start"
<1>1. task[o].kind # "none" => {kind, task[o].kind} = mix /\ {task[o].kind, kind} = mix
  BY DEF MayStart
<1> QED BY <1>1, KindFacts, LostSocket

LEMMA StepBusy ==
  ASSUME Ordered, NEW t \in Tasks, Steps(t)
  PROVE  task[t].kind # "none"
<1>1. task[t].pc # "idle"
  BY Zenon DEF Steps, JoinBan, JoinMember, JoinRow, JoinRead, JoinSave, ConnCheck, ConnMember, ConnRead, ConnSave,
     ContractRead, ContractSave, ContractDB, DropCheck, DropRead, DropSave, DropCount, CleanupActive,
     CleanupCount, Delete, LeaveRow, LeaveRead, LeaveSave, KickHost, KickRow, KickRead, KickSave, KickBan,
     KickFault, KickSocket, EntrySave, StartSign, StartDB, StartRead, StartSave, ForceSign, ForceNext,
     ForceCheck, Read, Save, At
<1> QED BY <1>1, SMTT(30) DEF Ordered, Course

-----------------------------------------------------------------------------
(* A room opens once *)

NoStart == \A t \in Tasks : task[t].kind \notin {"start", "force"}

\* Neither the state nor any copy that will be written is a lobby.
NoLobby == /\ cache = NoOne \/ cache.phase # "lobby"
           /\ \A t \in Tasks : task[t].pc \in Saves => task[t].seen.phase # "lobby"

Paced(k) ==
  /\ k.pc = "contract_save" => k.seen.phase = "lobby"
  /\ k.pc = "contract_db" => phase \in {"lobby", "closed"} /\ cache # NoOne /\ NoLobby /\ NoStart
  /\ k.pc \in {"start_read", "start_save"} => phase \notin Open
  /\ k.pc = "delete" /\ "phase" \notin k.todo => phase \notin Open

Opened ==
  mix \notin SocketLost =>
    /\ phase \in {"contract", "timer"} \/ ~NoStart => NoLobby
    /\ cache = NoOne /\ phase \in Open => \E t \in Tasks : task[t].pc = "delete" /\ "phase" \in task[t].todo
    /\ \A t \in Tasks : Paced(task[t])

\* The room is open, or a handler may still open it.
MayOpen == phase \in Open \/ ~NoLobby \/ \E t \in Tasks : task[t].pc = "contract_db"

LEMMA NoLobbyKept ==
  ASSUME IInv, Ordered, NoLobby, [Next]_vars
  PROVE  NoLobby'
<1>1. ASSUME NEW t \in Tasks, Others(t), cache' = NoOne \/ cache'.phase # "lobby",
             task'[t].pc \in Saves => task'[t].seen.phase # "lobby"
      PROVE  NoLobby'
  BY <1>1 DEF NoLobby, Others
<1>2. CASE UNCHANGED <<cache, task>>
  BY <1>2 DEF NoLobby
<1>3. ASSUME NEW t \in Tasks, Steps(t) PROVE NoLobby'
  <2>1. cache' = NoOne \/ cache'.phase # "lobby"
    BY <1>3, StepEffects, WrittenFacts DEF NoLobby
  <2>2. Others(t)
    BY <1>3, StepFlow DEF Onward, Stops, Ordered
  <2>3. ASSUME task'[t].pc \in Saves PROVE task'[t].seen.phase # "lobby"
    <3>1. task'[t].pc \in Holding /\ task'[t].pc \notin {"idle", "contract_db", "start_read", "delete"}
      BY <2>3 DEF Saves, Holding
    <3>2. \E pc \in Holding : Takes(t, pc)
      BY <1>3, <3>1, StepLeads, IdleFields DEF Leads, Stops, Goes
    <3> QED BY <3>2 DEF Takes, NoLobby
  <2> QED BY <1>1, <2>1, <2>2, <2>3
<1>4. ASSUME NEW t \in Tasks, Requests(t) PROVE NoLobby'
  <2>1. UNCHANGED cache
    BY <1>4, RequestEffects
  <2>2. ASSUME NEW p \in Starting, NEW u, Launches(t, p[1], p[2], u) PROVE NoLobby'
    <3>1. Others(t) /\ task'[t].pc = p[2] /\ (p[2] = "entry_save" => cache # NoOne /\ task'[t].seen.phase = cache.phase)
      BY <2>2 DEF Launches, Begins
    <3>2. p[2] \in Saves => p[2] = "entry_save"
      BY DEF Starting, Saves, Holding
    <3> QED BY <1>1, <2>1, <3>1, <3>2 DEF NoLobby
  <2> QED BY <1>2, <1>4, <2>1, <2>2, RequestLaunches
<1>5. ASSUME NEW s \in Sockets, DropEarly(s) PROVE NoLobby'
  BY <1>2, <1>5 DEF DropEarly, stores
<1> QED BY <1>2, <1>3, <1>4, <1>5 DEF Next, vars, stores

\* A room that cannot open any more stays so.
LEMMA ClosedStays ==
  ASSUME IInv, Ordered, Opened, mix \notin SocketLost, [Next]_vars, MayOpen'
  PROVE  MayOpen
<1> SUFFICES ASSUME phase \notin Open, NoLobby, \A t \in Tasks : task[t].pc # "contract_db" PROVE FALSE
  BY DEF MayOpen
<1>1. NoLobby'
  BY NoLobbyKept
<1>2. CASE UNCHANGED <<phase, task>>
  BY <1>1, <1>2 DEF MayOpen
<1>3. ASSUME NEW t \in Tasks, Steps(t) PROVE FALSE
  <2>1. phase' \notin Open
    BY <1>3, StepEffects DEF ContractDB, StartDB, At, Open
  <2>2. Others(t)
    BY <1>3, StepFlow DEF Onward, Stops, Ordered
  <2>3. task'[t].pc # "contract_db"
    <3>1. ~ContractSave(t)
      <4>1. ASSUME task[t].pc = "contract_save" PROVE task[t].pc \in Saves /\ task[t].seen.phase = "lobby"
        BY <4>1 DEF Opened, Paced, Saves, Holding
      <4> QED BY <4>1 DEF ContractSave, Save, At, NoLobby
    <3> QED BY <1>3, <3>1, StepLeads, IdleFields DEF Leads, Stops, Goes, Takes, Holding
  <2> QED BY <1>1, <2>1, <2>2, <2>3 DEF MayOpen, Others
<1>4. ASSUME NEW t \in Tasks, Requests(t) PROVE FALSE
  <2>1. UNCHANGED phase
    BY <1>4, RequestEffects
  <2>2. ASSUME NEW p \in Starting, NEW u, Launches(t, p[1], p[2], u) PROVE FALSE
    <3>1. Others(t) /\ task'[t].pc = p[2] /\ p[2] # "contract_db"
      BY <2>2 DEF Launches, Begins, Starting
    <3> QED BY <1>1, <2>1, <3>1 DEF MayOpen, Others
  <2> QED BY <1>2, <1>4, <2>1, <2>2, RequestLaunches
<1>5. ASSUME NEW s \in Sockets, DropEarly(s) PROVE FALSE
  BY <1>2, <1>5 DEF DropEarly, stores
<1> QED BY <1>2, <1>3, <1>4, <1>5 DEF Next, vars, stores

LEMMA DeleteTodo ==
  ASSUME IInv, NEW t \in Tasks, Delete(t)
  PROVE  \/ Stops(t) /\ task[t].todo = {} /\ UNCHANGED <<phase, cache>>
         \/ \E w \in task[t].todo :
              /\ Goes(t, "delete") /\ task'[t].todo = task[t].todo \ {w}
              /\ IF w = "state" THEN cache' = NoOne /\ UNCHANGED phase ELSE phase' = "closed" /\ UNCHANGED cache
<1>1. task[t] \in TaskStates /\ task \in [Tasks -> TaskStates] /\ task[t].pc = "delete"
  BY TaskFacts DEF Delete, At
<1>2. ASSUME NEW w \in task[t].todo, task' = [task EXCEPT ![t].todo = @ \ {w}]
      PROVE  Goes(t, "delete") /\ task'[t].todo = task[t].todo \ {w}
  <2> DEFINE d == task[t].todo \ {w}
  <2>1. task' = [task EXCEPT ![t].todo = d]
    BY <1>2
  <2> HIDE DEF d
  <2>2. Goes(t, "delete") /\ task'[t].todo = d
    BY <1>1, <2>1 DEF Goes, Others, TaskStates
  <2> QED BY <2>2 DEF d
<1> QED BY <1>2, ReturnFields DEF Delete, CleanupDone

\* A handler's step keeps the pace of the others, ...
LEMMA OthersPaced ==
  ASSUME IInv, Ordered, Opened, mix \notin SocketLost, NEW t \in Tasks, Steps(t), NEW o \in Tasks \ {t}
  PROVE  Paced(task[o])'
<1>1. task'[o] = task[o] /\ Paced(task[o]) /\ Course(task[o])
  BY StepFlow DEF Opened, Onward, Stops, Others, Ordered
<1>2. task[o].pc # "contract_db"
  <2>1. ASSUME task[o].pc = "contract_db" PROVE FALSE
    <3>1. task[o].kind = "connect" /\ NoStart
      BY <1>1, <2>1 DEF Paced, Course, Joining, Connecting, Dropping, Cleaning, Kicking, Beginning
    <3>2. task[t].kind = "none"
      BY <3>1, ArriveFacts DEF NoStart
    <3> QED BY <3>2, StepBusy
  <2> QED BY <2>1
<1>3. ASSUME task[o].pc \in {"start_read", "start_save", "delete"} PROVE ~ContractDB(t)
  <2>1. task[o].kind \in {"start", "force", "cleanup", "leave"}
    BY <1>1, <1>3 DEF Course, Joining, Connecting, Dropping, Cleaning, Kicking, Beginning
  <2>2. ASSUME task[t].pc = "contract_db" PROVE FALSE
    <3>1. task[t].kind = "connect" /\ NoStart
      BY <2>2 DEF Opened, Paced, Ordered, Course, Joining, Connecting, Dropping, Cleaning, Kicking, Beginning
    <3>2. task[o].kind = "none"
      BY <3>1, ArriveFacts DEF NoStart
    <3> QED BY <2>1, <3>2
  <2> QED BY <2>2 DEF ContractDB, At
<1>4. ASSUME ~ContractDB(t), phase \notin Open PROVE phase' \notin Open
  BY <1>4, StepEffects DEF StartDB, Open
<1> QED BY <1>1, <1>2, <1>3, <1>4 DEF Paced

\* ... and its own.
LEMMA SelfPaced ==
  ASSUME IInv, Ordered, Opened, mix \notin SocketLost, [Next]_vars, NEW t \in Tasks, Steps(t)
  PROVE  Paced(task[t])'
<1>0. Paced(task[t]) /\ Course(task[t]) /\ (phase \in {"contract", "timer"} \/ ~NoStart => NoLobby)
  BY DEF Opened, Ordered
<1>1. CASE Stops(t)
  BY <1>1, IdleFields DEF Stops, Paced
<1>2. ASSUME NEW pc \in PCs \ (Holding \cup {"contract_db", "start_read", "delete"}), Goes(t, pc) PROVE Paced(task[t])'
  BY <1>2 DEF Goes, Paced, Holding
<1>3. ASSUME NEW pc \in Holding, Takes(t, pc), pc = "contract_save" => cache.phase = "lobby",
             pc = "start_save" => task[t].pc = "start_read"
      PROVE  Paced(task[t])'
  BY <1>0, <1>3 DEF Takes, Goes, Paced, Holding
<1>4. CASE ContractSave(t) /\ Goes(t, "contract_db")
  <2>1. task[t].pc = "contract_save" /\ "contract_save" \in Saves
    BY <1>4 DEF ContractSave, Save, At, Saves, Holding
  <2>2. ~NoLobby /\ task[t].kind = "connect"
    BY <1>0, <2>1 DEF Paced, NoLobby, Course, Joining, Connecting, Dropping, Cleaning, Kicking, Beginning
  <2>3. phase \in {"lobby", "closed"} /\ NoStart
    BY <1>0, <2>2 DEF IInv, Typed, Phases
  <2>4. /\ phase' = phase /\ cache' \in States /\ cache' # NoOne
        /\ cache'.phase = "contract"
    <3>1. Writes(t)
      BY <1>4 DEF Writes
    <3>2. PICK s \in States : s = task[t].seen
      BY <3>1, WrittenFacts
    <3>3. cache' = [s EXCEPT !.phase = "contract"]
      BY <1>4, <3>2 DEF ContractSave, Save
    <3>4. cache'.phase = "contract"
      BY <3>3 DEF States
    <3> QED BY <3>1, <3>4, WrittenFacts, NullAssumption
  <2>5. \A o \in Tasks \ {t} : task'[o] = task[o] /\ task[o].pc = "idle"
    <3>1. \A o \in Tasks \ {t} : task[o].kind = "none"
      BY <2>2, <2>3, ArriveFacts DEF NoStart
    <3> QED BY <1>4, <3>1 DEF Goes, Others, Ordered, Course
  <2>6. task'[t].pc = "contract_db" /\ task'[t].kind = "connect"
    BY <1>4, <2>2 DEF Goes
  <2>7. \A o \in Tasks : task'[o].pc \notin Saves
    BY <2>5, <2>6 DEF Saves, Holding
  <2>8. \A o \in Tasks : task'[o].kind \notin {"start", "force"}
    BY <2>3, <2>5, <2>6 DEF NoStart
  <2>9. NoLobby' /\ NoStart'
    BY <2>4, <2>7, <2>8 DEF NoLobby, NoStart
  <2> QED BY <2>3, <2>4, <2>6, <2>9 DEF Paced
<1>5. CASE StartDB(t) /\ Goes(t, "start_read")
  BY <1>5 DEF StartDB, Goes, Paced, Open
<1>6. CASE Goes(t, "delete") /\ task'[t].todo = {"state", "phase"}
  BY <1>6 DEF Goes, Paced
<1>7. CASE Delete(t) /\ Goes(t, "delete")
  <2>1. task[t].pc = "delete"
    BY <1>7 DEF Delete, At
  <2>2. Stops(t) \/ ("phase" \notin task'[t].todo => phase' \notin Open)
    BY <1>0, <1>7, <2>1, DeleteTodo DEF Paced, Open
  <2> QED BY <1>1, <1>7, <2>2 DEF Goes, Paced
<1> QED BY <1>1, <1>2, <1>3, <1>4, <1>5, <1>6, <1>7, StepLeads DEF Leads

LEMMA OpenedKeeps ==
  ASSUME IInv, Ordered, Opened, [Next]_vars
  PROVE  Opened'
<1>m. UNCHANGED mix
  BY MixKept
<1> SUFFICES ASSUME mix \notin SocketLost PROVE Opened'
  BY <1>m DEF Opened
<1>n. NoLobby => NoLobby'
  BY NoLobbyKept
<1>0. /\ phase \in {"contract", "timer"} \/ ~NoStart => NoLobby
      /\ cache = NoOne /\ phase \in Open => \E t \in Tasks : task[t].pc = "delete" /\ "phase" \in task[t].todo
      /\ \A t \in Tasks : Paced(task[t])
  BY DEF Opened
<1>1. CASE UNCHANGED <<phase, cache, task>>
  BY <1>0, <1>1, <1>m DEF Opened, Paced, NoLobby, NoStart
<1>2. ASSUME NEW t \in Tasks, Steps(t) PROVE Opened'
  <2>0. Onward(t) /\ Others(t) /\ (task'[t].kind = task[t].kind \/ task'[t].kind = "none")
    BY <1>2, StepFlow, IdleFields DEF Onward, Stops, Ordered
  <2>1. \A o \in Tasks : Paced(task[o])'
    BY <1>2, OthersPaced, SelfPaced
  <2>2. ASSUME phase' \in {"contract", "timer"} \/ ~NoStart', ~NoLobby PROVE FALSE
    <3>1. phase \notin {"contract", "timer"} /\ NoStart
      BY <1>0, <2>2
    <3>2. NoStart'
      BY <2>0, <3>1 DEF NoStart, Others
    <3>3. ~ContractDB(t)
      BY <1>0, <2>2 DEF ContractDB, At, Paced
    <3>4. ~StartDB(t)
      <4>1. task[t].pc # "start_db"
        BY <3>1 DEF NoStart, Ordered, Course, Joining, Connecting, Dropping, Cleaning, Kicking, Beginning
      <4> QED BY <4>1 DEF StartDB, At
    <3> QED BY <1>2, <2>2, <3>1, <3>2, <3>3, <3>4, StepEffects
  <2>3. ASSUME cache' = NoOne, phase' \in Open
        PROVE  \E o \in Tasks : task'[o].pc = "delete" /\ "phase" \in task'[o].todo
    <3>1. ~Writes(t)
      BY <2>3, WrittenFacts, NullAssumption
    <3>2. CASE ~Delete(t)
      <4>1. cache' = cache
        BY <1>2, <3>1, <3>2, StepEffects
      <4>2. ~ContractDB(t)
        BY <1>0, <2>3, <4>1 DEF ContractDB, At, Paced
      <4>3. phase \in Open
        BY <1>2, <2>3, <3>2, <4>2, StepEffects DEF StartDB, Open
      <4>4. PICK o \in Tasks : task[o].pc = "delete" /\ "phase" \in task[o].todo
        BY <1>0, <2>3, <4>1, <4>3
      <4>5. CASE o # t
        BY <2>0, <4>4, <4>5 DEF Others
      <4>6. CASE o = t
        <5>1. task[t].pc = "delete"
          BY <4>4, <4>6
        <5> QED BY <1>2, <3>2, <5>1
                DEF Steps, JoinBan, JoinMember, JoinRow, JoinRead, JoinSave, ConnCheck, ConnMember, ConnRead, ConnSave,
                    ContractRead, ContractSave, ContractDB, DropCheck, DropRead, DropSave, DropCount, CleanupActive,
                    CleanupCount, LeaveRow, LeaveRead, LeaveSave, KickHost, KickRow, KickRead, KickSave, KickBan,
                    KickFault, KickSocket, EntrySave, StartSign, StartDB, StartRead, StartSave, ForceSign, ForceNext,
                    ForceCheck, Read, Save, At
      <4> QED BY <4>5, <4>6
    <3>3. CASE Delete(t)
      <4>0. task[t].pc = "delete"
        BY <3>3 DEF Delete, At
      <4>1. CASE Stops(t) /\ task[t].todo = {} /\ UNCHANGED <<phase, cache>>
        <5>1. PICK o \in Tasks : task[o].pc = "delete" /\ "phase" \in task[o].todo
          BY <1>0, <2>3, <4>1
        <5>2. o # t
          BY <4>1, <5>1
        <5> QED BY <2>0, <5>1, <5>2 DEF Others
      <4>2. CASE \E w \in task[t].todo :
                   /\ Goes(t, "delete") /\ task'[t].todo = task[t].todo \ {w}
                   /\ IF w = "state" THEN cache' = NoOne /\ UNCHANGED phase ELSE phase' = "closed" /\ UNCHANGED cache
        <5>1. phase' # "closed"
          BY <2>3 DEF Open
        <5>2. /\ Goes(t, "delete") /\ task'[t].todo = task[t].todo \ {"state"} /\ UNCHANGED phase
          BY <4>2, <5>1
        <5>3. "phase" \in task[t].todo
          BY <1>0, <2>3, <4>0, <5>2 DEF Paced
        <5> QED BY <5>2, <5>3 DEF Goes
      <4> QED BY <3>3, <4>1, <4>2, DeleteTodo
    <3> QED BY <3>2, <3>3
  <2> QED BY <1>n, <2>1, <2>2, <2>3 DEF Opened
<1>3. ASSUME NEW t \in Tasks, Requests(t) PROVE Opened'
  <2>1. UNCHANGED <<phase, cache>>
    BY <1>3, RequestEffects
  <2>2. ASSUME NEW p \in Starting, NEW u, Launches(t, p[1], p[2], u) PROVE Opened'
    <3>1. /\ Others(t) /\ task'[t].pc = p[2] /\ task'[t].kind = p[1] /\ MayStart(t, p[1])
          /\ p[1] \in {"start", "force"} => phase = "contract"
          /\ p[2] = "delete" => task'[t].todo = {"state", "phase"}
      BY <2>2 DEF Launches, Begins
    <3>2. p[2] \notin {"contract_save", "contract_db", "start_read", "start_save"} /\ p[1] \in Kinds
      BY DEF Starting, Kinds
    <3>3. task[t].kind = "none" /\ task[t].pc = "idle"
      BY <3>1 DEF MayStart, Ordered, Course
    <3>4. ~NoStart' => ~NoStart \/ phase = "contract"
      BY <3>1 DEF NoStart, Others
    <3>5. ASSUME NEW o \in Tasks \ {t}, task[o].pc = "contract_db" PROVE FALSE
      <4>1. task[o].kind = "connect" /\ phase \in {"lobby", "closed"}
        BY <1>0, <3>5 DEF Paced, Ordered, Course, Joining, Connecting, Dropping, Cleaning, Kicking, Beginning
      <4> QED BY <3>1, <3>2, <4>1, StartArriveFacts
    <3>6. \A o \in Tasks \ {t} : Paced(task[o])'
      BY <1>0, <2>1, <3>1, <3>5 DEF Paced, Others
    <3>7. Paced(task[t])'
      BY <3>1, <3>2 DEF Paced
    <3>8. ASSUME cache = NoOne, phase \in Open
          PROVE  \E o \in Tasks : task'[o].pc = "delete" /\ "phase" \in task'[o].todo
      <4>1. PICK o \in Tasks : task[o].pc = "delete" /\ "phase" \in task[o].todo
        BY <1>0, <3>8
      <4>2. o # t
        BY <3>3, <4>1
      <4> QED BY <3>1, <4>1, <4>2 DEF Others
    <3> QED BY <1>0, <1>n, <2>1, <3>4, <3>6, <3>7, <3>8 DEF Opened
  <2> QED BY <1>1, <1>3, <2>1, <2>2, RequestLaunches
<1>4. ASSUME NEW s \in Sockets, DropEarly(s) PROVE Opened'
  BY <1>1, <1>4 DEF DropEarly, stores
<1> QED BY <1>1, <1>2, <1>3, <1>4 DEF Next, vars, stores

LEMMA OpenedInit == Init => Opened
<1> SUFFICES ASSUME Init PROVE Opened
  OBVIOUS
<1>1. \A t \in Tasks : task[t].kind = "none" /\ task[t].pc = "idle"
  BY IdleFields DEF Init
<1>2. NoStart /\ \A t \in Tasks : Paced(task[t])
  BY <1>1 DEF NoStart, Paced
<1>3. phase = "lobby" /\ cache \in States
  BY InitKeeps DEF Init, States, Phases
<1> QED BY <1>2, <1>3, NullAssumption DEF Opened

-----------------------------------------------------------------------------
(* Who is known to be connected *)

\* What a handler has been sent out with.
Sent(k) ==
  /\ k.kind = "drop" => k.sock \in Sockets /\ socks[k.sock] # "joined"
  /\ k.kind = "connect" => k.sock \in Sockets /\ k.sock[1] = k.who
  /\ k.pc \in Left => k.who \notin rows

\* A connection whose handler has still to write it into the state.
Arriving(u, s) == \E t \in Tasks : /\ task[t].kind = "connect" /\ task[t].pc \in {"conn_read", "conn_save"}
                                   /\ task[t].who = u /\ task[t].sock = s

\* The state c names the one live connection of every member.
Listing(c, u) == c.members[u] # NoOne /\ \A s \in Live(u) : Arriving(u, s) \/ c.members[u].sock = s
Knows(c) == \A u \in Users : u \in rows => u \in twice \/ u \in Coming \/ Listing(c, u)

Placed(k) ==
  /\ k.pc \in Holding => Knows(k.seen)
  /\ k.pc \in {"drop_read", "drop_save"} /\ k.who \in rows => k.who \in twice \/ Live(k.who) = {}
  /\ k.pc \in {"conn_read", "conn_save"} /\ k.who \in rows => k.who \in twice \/ Live(k.who) \subseteq {k.sock}

Known ==
  mix \notin SocketLost =>
    /\ \A t \in Tasks : Sent(task[t])
    /\ MayOpen => (cache # NoOne => Knows(cache)) /\ \A t \in Tasks : Placed(task[t])

LEMMA ConnectMoves ==
  ASSUME IInv, NEW t \in Tasks,
         \/ ConnCheck(t) \/ ConnMember(t) \/ ConnRead(t) \/ ConnSave(t)
         \/ ContractRead(t) \/ ContractSave(t) \/ ContractDB(t)
  PROVE  Stops(t) \/ (task'[t].who = task[t].who /\ task'[t].sock = task[t].sock)
<1>1. CASE ConnCheck(t)
  BY <1>1, ReturnFields, GotoFields, SeenFields, SMTT(30) DEF ConnCheck, Same
<1>2. CASE ConnMember(t)
  BY <1>2, ReturnFields, GotoFields, SeenFields DEF ConnMember, Same
<1>3. CASE ConnRead(t)
  BY <1>3, ReturnFields, GotoFields, SeenFields DEF ConnRead, Read, Same
<1>4. CASE ConnSave(t)
  BY <1>4, ReturnFields, GotoFields, SeenFields DEF ConnSave, Save, Same
<1>5. CASE ContractRead(t)
  BY <1>5, ReturnFields, GotoFields, SeenFields DEF ContractRead, Read, Same
<1>6. CASE ContractSave(t)
  BY <1>6, ReturnFields, GotoFields, SeenFields DEF ContractSave, Save, Same
<1>7. CASE ContractDB(t)
  BY <1>7, ReturnFields, GotoFields, SeenFields DEF ContractDB, Same
<1> QED BY <1>1, <1>2, <1>3, <1>4, <1>5, <1>6, <1>7

LEMMA DropMoves ==
  ASSUME IInv, NEW t \in Tasks, DropCheck(t) \/ DropRead(t) \/ DropSave(t) \/ DropCount(t)
  PROVE  Stops(t) \/ (task'[t].who = task[t].who /\ task'[t].sock = task[t].sock)
<1>1. CASE DropCheck(t)
  BY <1>1, ReturnFields, GotoFields, SeenFields DEF DropCheck, Read, Same
<1>2. CASE DropRead(t)
  BY <1>2, ReturnFields, GotoFields, SeenFields DEF DropRead, Read, Same
<1>3. CASE DropSave(t)
  BY <1>3, ReturnFields, GotoFields, SeenFields, SMTT(30) DEF DropSave, Save, Same
<1>4. CASE DropCount(t)
  BY <1>4, ReturnFields, GotoFields, SeenFields DEF DropCount, Same
<1> QED BY <1>1, <1>2, <1>3, <1>4

LEMMA GoneMoves ==
  ASSUME IInv, NEW t \in Tasks,
         LeaveRead(t) \/ LeaveSave(t) \/ KickRead(t) \/ KickSave(t) \/ KickBan(t) \/ KickSocket(t)
  PROVE  Stops(t) \/ (task'[t].who = task[t].who /\ task'[t].sock = task[t].sock)
<1>1. CASE LeaveRead(t)
  BY <1>1, ReturnFields, GotoFields, SeenFields DEF LeaveRead, Read, Same
<1>2. CASE LeaveSave(t)
  BY <1>2, ReturnFields, GotoFields, SeenFields DEF LeaveSave, Save, Same
<1>3. CASE KickRead(t)
  BY <1>3, ReturnFields, GotoFields, SeenFields DEF KickRead, Read, Same
<1>4. CASE KickSave(t)
  BY <1>4, ReturnFields, GotoFields, SeenFields DEF KickSave, Save, Same
<1>5. CASE KickBan(t)
  BY <1>5, ReturnFields, GotoFields, SeenFields DEF KickBan, Same
<1>6. CASE KickSocket(t)
  BY <1>6, ReturnFields, GotoFields, SeenFields DEF KickSocket, Same
<1> QED BY <1>1, <1>2, <1>3, <1>4, <1>5, <1>6

LEMMA KindSteps ==
  ASSUME IInv, Ordered, NEW t \in Tasks, Steps(t)
  PROVE  /\ task[t].kind = "join" =>
              JoinBan(t) \/ JoinMember(t) \/ JoinRow(t) \/ JoinRead(t) \/ JoinSave(t)
         /\ task[t].kind = "connect" =>
              \/ ConnCheck(t) \/ ConnMember(t) \/ ConnRead(t) \/ ConnSave(t)
              \/ ContractRead(t) \/ ContractSave(t) \/ ContractDB(t)
         /\ task[t].kind = "drop" => DropCheck(t) \/ DropRead(t) \/ DropSave(t) \/ DropCount(t)
         /\ task[t].kind = "cleanup" => CleanupActive(t) \/ CleanupCount(t) \/ Delete(t)
         /\ JoinRow(t) \/ JoinSave(t) => task[t].kind = "join"
         /\ ConnMember(t) \/ ConnSave(t) \/ ContractSave(t) \/ ContractDB(t) => task[t].kind = "connect"
<1>1. Course(task[t])
  BY SMTT(30) DEF Ordered
<1>2. /\ JoinBan(t) \/ JoinMember(t) \/ JoinRow(t) \/ JoinRead(t) \/ JoinSave(t) => task[t].pc \in Joining
      /\ \/ ConnCheck(t) \/ ConnMember(t) \/ ConnRead(t) \/ ConnSave(t)
         \/ ContractRead(t) \/ ContractSave(t) \/ ContractDB(t)
         => task[t].pc \in Connecting
      /\ DropCheck(t) \/ DropRead(t) \/ DropSave(t) \/ DropCount(t) => task[t].pc \in Dropping
      /\ CleanupActive(t) \/ CleanupCount(t) \/ Delete(t) => task[t].pc \in Cleaning
      /\ LeaveRow(t) \/ LeaveRead(t) \/ LeaveSave(t) => task[t].pc \in {"leave_row", "leave_read", "leave_save"}
      /\ KickHost(t) \/ KickRow(t) \/ KickRead(t) \/ KickSave(t) \/ KickBan(t) \/ KickFault(t) \/ KickSocket(t)
         => task[t].pc \in Kicking
      /\ EntrySave(t) => task[t].pc = "entry_save"
      /\ StartSign(t) \/ StartDB(t) \/ StartRead(t) \/ StartSave(t) => task[t].pc \in Beginning \cup {"start_sign"}
      /\ ForceSign(t) \/ ForceNext(t) \/ ForceCheck(t) => task[t].pc \in {"force_sign", "force_next", "force_check"}
  BY Zenon DEF JoinBan, JoinMember, JoinRow, JoinRead, JoinSave, ConnCheck, ConnMember, ConnRead, ConnSave,
     ContractRead, ContractSave, ContractDB, DropCheck, DropRead, DropSave, DropCount, CleanupActive,
     CleanupCount, Delete, LeaveRow, LeaveRead, LeaveSave, KickHost, KickRow, KickRead, KickSave, KickBan,
     KickFault, KickSocket, EntrySave, StartSign, StartDB, StartRead, StartSave, ForceSign, ForceNext,
     ForceCheck, Read, Save, At, Joining, Connecting, Dropping, Cleaning, Kicking, Beginning
<1>3. ASSUME task[t].kind \in {"join", "connect", "drop", "cleanup"}
      PROVE  /\ task[t].kind = "join" <=> task[t].pc \in Joining
             /\ task[t].kind = "connect" <=> task[t].pc \in Connecting
             /\ task[t].kind = "drop" <=> task[t].pc \in Dropping
             /\ task[t].kind = "cleanup" <=> task[t].pc \in Cleaning
             /\ task[t].pc \notin {"leave_row", "leave_read", "leave_save", "entry_save", "start_sign",
                                   "force_sign", "force_next", "force_check"} \cup Kicking \cup Beginning
  BY <1>1, <1>3 DEF Course, Joining, Connecting, Dropping, Cleaning, Kicking, Beginning
<1>4. task[t].pc \in Joining => task[t].kind = "join"
  BY <1>1 DEF Course, Joining, Connecting, Dropping, Cleaning, Kicking, Beginning
<1>5. task[t].pc \in Connecting => task[t].kind = "connect"
  BY <1>1 DEF Course, Joining, Connecting, Dropping, Cleaning, Kicking, Beginning
<1> HIDE DEF Joining, Connecting, Dropping, Cleaning, Kicking, Beginning
<1> QED BY <1>2, <1>3, <1>4, <1>5 DEF Steps

LEMMA StepSent ==
  ASSUME IInv, Ordered, mix \notin SocketLost, \A o \in Tasks : Sent(task[o]), NEW t \in Tasks, Steps(t)
  PROVE  \A o \in Tasks : Sent(task[o])'
<1>0. Onward(t) /\ Others(t)
  BY StepFlow DEF Onward, Stops, Ordered
<1>1. /\ UNCHANGED socks \/ ConnMember(t) \/ (\E s : socks' = [socks EXCEPT ![s] = "closed"])
      /\ rows' \subseteq rows \/ JoinRow(t)
  <2>1. UNCHANGED socks \/ ConnMember(t) \/ ConnCheck(t)
    BY Zenon DEF Steps, JoinBan, JoinMember, JoinRow, JoinRead, JoinSave, ConnRead, ConnSave,
       ContractRead, ContractSave, ContractDB, DropCheck, DropRead, DropSave, DropCount, CleanupActive,
       CleanupCount, Delete, LeaveRow, LeaveRead, LeaveSave, KickHost, KickRow, KickRead, KickSave, KickBan,
       KickFault, KickSocket, EntrySave, StartSign, StartDB, StartRead, StartSave, ForceSign, ForceNext,
       ForceCheck, Read, Save, network
  <2> QED BY <2>1, StepEffects, SMTT(30) DEF ConnCheck
<1>2. ASSUME NEW o \in Tasks, task'[o].kind = "drop", task[o].kind = "drop", task'[o].sock = task[o].sock
      PROVE  task'[o].sock \in Sockets /\ socks'[task'[o].sock] # "joined"
  <2>1. ~ConnMember(t)
    <3>1. o # t => task[t].kind # "connect"
      BY <1>2, ArriveFacts
    <3> QED BY <1>2, <3>1, KindSteps
  <2> QED BY <1>1, <1>2, <2>1 DEF Sent, IInv, Typed
<1>3. ASSUME NEW o \in Tasks, task[o].pc \in Left, task'[o].who = task[o].who
      PROVE  task'[o].who \notin rows'
  <2>1. task[o].kind \in {"leave", "kick", "force"}
    BY <1>3 DEF Ordered, Course, Joining, Connecting, Dropping, Cleaning, Beginning, Kicking, Left
  <2>2. ~JoinRow(t)
    <3>1. o # t => task[t].kind # "join"
      BY <2>1, ArriveFacts
    <3> QED BY <2>1, <3>1, KindSteps
  <2> QED BY <1>1, <1>3, <2>2 DEF Sent
<1>4. ASSUME NEW o \in Tasks \ {t} PROVE Sent(task[o])'
  <2>1. task'[o] = task[o] /\ Sent(task[o])
    BY <1>0 DEF Others
  <2> QED BY <1>2, <1>3, <2>1 DEF Sent
<1>5. Sent(task[t])'
  <2>1. CASE Stops(t)
    BY <2>1, IdleFields DEF Stops, Sent, Left
  <2>2. ASSUME ~Stops(t) PROVE task'[t].kind = task[t].kind /\ Course(task'[t])
    BY <1>0, <2>2 DEF Onward
  <2>3. ASSUME ~Stops(t), task[t].kind \in {"drop", "connect"}
        PROVE  task'[t].who = task[t].who /\ task'[t].sock = task[t].sock
    BY <2>3, KindSteps, ConnectMoves, DropMoves
  <2>4. ASSUME ~Stops(t), task'[t].pc \in Left PROVE task'[t].who \notin rows'
    <3>1. CASE LeaveRow(t) \/ KickRow(t)
      BY <3>1, GotoFields DEF LeaveRow, KickRow, Same
    <3>2. CASE LeaveRead(t) \/ LeaveSave(t) \/ KickRead(t) \/ KickSave(t) \/ KickBan(t) \/ KickSocket(t)
      <4>1. task[t].pc \in Left
        BY <3>2 DEF LeaveRead, LeaveSave, KickRead, KickSave, KickBan, KickSocket, Read, Save, At, Left
      <4> QED BY <1>3, <2>4, <3>2, <4>1, GoneMoves
    <3>3. CASE task[t].kind \in {"join", "connect", "drop", "cleanup"}
      BY <2>2, <2>4, <3>3 DEF Course, Joining, Connecting, Dropping, Cleaning, Beginning, Kicking, Left
    <3>4. CASE KickHost(t) \/ KickFault(t) \/ Delete(t) \/ EntrySave(t) \/ StartSign(t) \/ StartDB(t)
               \/ StartRead(t) \/ StartSave(t) \/ ForceSign(t) \/ ForceNext(t) \/ ForceCheck(t)
      <4>1. Stops(t) \/ Goes(t, "kick_row") \/ Goes(t, "force_next") \/ Goes(t, "delete") \/ Goes(t, "start_db")
            \/ Goes(t, "start_read") \/ Goes(t, "start_save") \/ Goes(t, "force_check")
        <5>1. CASE KickHost(t) \/ KickFault(t) \/ Delete(t)
          BY <5>1, GotoFields, ReturnFields, FaultFields, DeleteFields DEF KickHost
        <5>2. CASE EntrySave(t) \/ StartSign(t) \/ StartDB(t) \/ StartRead(t) \/ StartSave(t)
          BY <5>2, GotoFields, ReturnFields, SeenFields DEF EntrySave, StartSign, StartDB, StartRead, StartSave, Read, Save
        <5>3. CASE ForceSign(t) \/ ForceNext(t) \/ ForceCheck(t)
          BY <5>3, GotoFields, ReturnFields, SignFields, NextFields DEF ForceCheck
        <5> QED BY <3>4, <5>1, <5>2, <5>3
      <4> QED BY <2>4, <4>1 DEF Goes, Left
    <3>5. JoinBan(t) \/ JoinMember(t) \/ JoinRow(t) \/ JoinRead(t) \/ JoinSave(t)
          \/ ConnCheck(t) \/ ConnMember(t) \/ ConnRead(t) \/ ConnSave(t)
          \/ ContractRead(t) \/ ContractSave(t) \/ ContractDB(t)
          \/ DropCheck(t) \/ DropRead(t) \/ DropSave(t) \/ DropCount(t) \/ CleanupActive(t) \/ CleanupCount(t)
          => task'[t].pc \notin Left \/ Stops(t)
      <4>1. JoinBan(t) \/ JoinMember(t) \/ JoinRow(t) \/ JoinRead(t) \/ JoinSave(t)
            \/ ConnCheck(t) \/ ConnMember(t) \/ ConnRead(t) \/ ConnSave(t)
            \/ ContractRead(t) \/ ContractSave(t) \/ ContractDB(t)
            \/ DropCheck(t) \/ DropRead(t) \/ DropSave(t) \/ DropCount(t) \/ CleanupActive(t) \/ CleanupCount(t)
            => task[t].kind \in {"join", "connect", "drop", "cleanup"}
        <5>1. Course(task[t])
          BY SMTT(30) DEF Ordered
        <5>2. \/ JoinBan(t) \/ JoinMember(t) \/ JoinRow(t) \/ JoinRead(t) \/ JoinSave(t)
              \/ ConnCheck(t) \/ ConnMember(t) \/ ConnRead(t) \/ ConnSave(t)
              \/ ContractRead(t) \/ ContractSave(t) \/ ContractDB(t)
              \/ DropCheck(t) \/ DropRead(t) \/ DropSave(t) \/ DropCount(t) \/ CleanupActive(t) \/ CleanupCount(t)
              => task[t].pc \in Joining \cup Connecting \cup Dropping \cup {"cleanup_active", "cleanup_count"}
          BY Zenon DEF JoinBan, JoinMember, JoinRow, JoinRead, JoinSave, ConnCheck, ConnMember, ConnRead, ConnSave,
             ContractRead, ContractSave, ContractDB, DropCheck, DropRead, DropSave, DropCount, CleanupActive,
             CleanupCount, Read, Save, At, Joining, Connecting, Dropping
        <5>3. task[t].pc \in Joining \cup Connecting \cup Dropping \cup {"cleanup_active", "cleanup_count"}
              => task[t].kind \in {"join", "connect", "drop", "cleanup"}
          BY <5>1 DEF Course, Joining, Connecting, Dropping, Cleaning, Beginning, Kicking
        <5> QED BY <5>2, <5>3
      <4> QED BY <2>4, <3>3, <4>1, <2>2 DEF Course, Joining, Connecting, Dropping, Cleaning, Beginning, Kicking, Left
    <3> QED BY <2>4, <3>1, <3>2, <3>4, <3>5 DEF Steps
  <2>5. ASSUME ~Stops(t) PROVE Sent(task[t])'
    <3>1. Sent(task[t]) /\ task'[t].kind = task[t].kind
      BY <2>2, <2>5
    <3> QED BY <1>2, <2>3, <2>4, <2>5, <3>1 DEF Sent
  <2> QED BY <2>1, <2>5
<1> QED BY <1>4, <1>5

\* What is known stays known while nobody new comes or arrives.
Fading == /\ rows' \subseteq rows /\ twice \subseteq twice'
          /\ \A u : Live(u)' \subseteq Live(u)
          /\ Coming \subseteq Coming'
          /\ \A u \in Users, s \in Sockets : Arriving(u, s) => Arriving(u, s)'

LEMMA KnowsOn ==
  ASSUME NEW c, NEW d, Knows(c), SameSocks(d, c), Fading
  PROVE  Knows(d)'
<1> SUFFICES ASSUME NEW u \in Users, u \in rows', u \notin twice', u \notin Coming' PROVE Listing(d, u)'
  BY DEF Knows
<1>1. Listing(c, u)
  BY DEF Knows, Fading
<1>2. Live(u)' \subseteq Live(u) /\ Live(u) \subseteq Sockets
  BY DEF Fading, Live, Joined
<1>3. d.members[u] # NoOne /\ d.members[u].sock = c.members[u].sock
  BY <1>1 DEF Listing, SameSocks
<1>4. \A s \in Live(u)' : Arriving(u, s)' \/ d.members[u].sock = s
  BY <1>1, <1>2, <1>3 DEF Listing, Fading
<1> QED BY <1>3, <1>4 DEF Listing

LEMMA SameState == \A c : SameSocks(c, c)
BY DEF SameSocks

LEMMA BystanderPlaced ==
  ASSUME NEW k, Placed(k), Fading
  PROVE  Placed(k)'
<1>1. ASSUME Knows(k.seen) PROVE Knows(k.seen)'
  BY <1>1, KnowsOn, SameState
<1>2. \A u \in Users : u \in rows' => u \in rows
  BY DEF Fading
<1>3. k.pc \in {"drop_read", "drop_save"} /\ k.who \in rows' => k.who \in twice' \/ Live(k.who)' = {}
  BY DEF Placed, Fading
<1> QED BY <1>1, <1>3 DEF Placed, Fading

\* While somebody joins or connects to a room that may open, no other handler
\* has anything of the state in hand.
LEMMA ArriveAlone ==
  ASSUME IInv, Ordered, Opened, mix \notin SocketLost, MayOpen,
         NEW t \in Tasks, task[t].kind \in {"join", "connect"}, NEW o \in Tasks \ {t}
  PROVE  /\ task[o].kind \notin {"join", "connect", "drop"}
         /\ task[o].pc \notin Holding \cup Left \cup {"drop_read", "drop_save", "conn_read", "conn_save", "join_read", "join_save"}
<1>1. task[o].kind \in {"none", "start"} /\ Course(task[o])
  BY ArriveFacts DEF Ordered
<1>2. task[o].pc # "start_save"
  <2> SUFFICES ASSUME task[o].pc = "start_save" PROVE FALSE
    OBVIOUS
  <2>1. task[o].kind = "start"
    BY <1>1 DEF Course
  <2>2. ~NoStart
    BY <2>1 DEF NoStart
  <2>3. NoLobby /\ phase \notin Open /\ \A u \in Tasks : task[u].pc # "contract_db"
    BY <2>2 DEF Opened, Paced
  <2> QED BY <2>3 DEF MayOpen
<1> QED BY <1>1, <1>2 DEF Course, Joining, Connecting, Dropping, Cleaning, Beginning, Kicking, Left, Holding

LEMMA PlainKnown ==
  ASSUME IInv, Ordered, Opened, Known, mix \notin SocketLost, [Next]_vars, MayOpen', NEW t \in Tasks, Steps(t),
         task[t].kind \notin {"join", "connect"}
  PROVE  (cache' # NoOne => Knows(cache)') /\ \A o \in Tasks : Placed(task[o])'
<1>0. /\ MayOpen /\ (cache # NoOne => Knows(cache)) /\ (\A o \in Tasks : Placed(task[o]) /\ Sent(task[o]))
      /\ Others(t) /\ Onward(t) /\ Course(task[t])
  BY ClosedStays, StepFlow DEF Known, Onward, Stops, Ordered
<1>1. Fading
  <2>1. rows' \subseteq rows /\ twice \subseteq twice' /\ \A u : Live(u)' \subseteq Live(u)
    BY StepEffects, KindSteps
  <2>2. task[t].pc \notin {"join_read", "join_save"}
    BY <1>0 DEF Course, Connecting, Dropping, Cleaning, Beginning, Kicking
  <2>3. Coming \subseteq Coming'
    BY <1>0, <2>2 DEF Coming, Others
  <2>4. \A u \in Users, s \in Sockets : Arriving(u, s) => Arriving(u, s)'
    BY <1>0 DEF Arriving, Others
  <2> QED BY <2>1, <2>3, <2>4 DEF Fading
<1>2. ASSUME NEW o \in Tasks \ {t} PROVE Placed(task[o])'
  <2>1. PICK k : k = task[o]
    OBVIOUS
  <2>2. Placed(k)'
    BY <1>0, <1>1, <2>1, BystanderPlaced
  <2>3. task'[o] = k
    BY <1>0, <2>1 DEF Others
  <2> QED BY <2>2, <2>3 DEF Placed
<1>3. ASSUME cache # NoOne, NEW x, x = cache PROVE Knows(x)'
  BY <1>0, <1>1, <1>3, KnowsOn, SameState
<1>4. ASSUME cache' # NoOne PROVE Knows(cache)'
  <2>1. CASE cache' = cache
    <3>1. PICK c : c = cache
      OBVIOUS
    <3>2. Knows(c)' /\ cache' = c
      BY <1>3, <1>4, <2>1, <3>1
    <3> QED BY <3>2 DEF Knows, Listing
  <2>2. CASE Writes(t)
    <3>1. PICK s, d : s = task[t].seen /\ d = cache'
      OBVIOUS
    <3>2. Changed(t, s, d) /\ task[t].pc \in Holding
      BY <2>2, <3>1, WrittenFacts DEF Saves
    <3>3. Knows(s)
      BY <1>0, <3>1, <3>2 DEF Placed
    <3>4. Knows(s)'
      BY <1>1, <3>3, KnowsOn, SameState
    <3>5. ~JoinSave(t) /\ ~ConnSave(t)
      BY KindSteps
    <3>u. PICK u : u = task[t].who
      OBVIOUS
    <3>6. ASSUME \A v \in Users \ {u} : d.members[v] = s.members[v],
                 u \in rows' => u \in twice' \/ (Live(u)' = {} /\ d.members[u] # NoOne)
          PROVE  Knows(d)'
      <4> SUFFICES ASSUME NEW v \in Users, v \in rows', v \notin twice', v \notin Coming' PROVE Listing(d, v)'
        BY DEF Knows
      <4>1. CASE v = u
        <5>1. d.members[v] # NoOne /\ Live(v)' = {}
          BY <3>6, <4>1
        <5> QED BY <5>1 DEF Listing
      <4>2. CASE v # u
        <5>1. Listing(s, v)'
          BY <3>4 DEF Knows
        <5>2. d.members[v] = s.members[v]
          BY <3>6, <4>2
        <5> QED BY <5>1, <5>2 DEF Listing
      <4> QED BY <4>1, <4>2
    <3>7. Knows(d)'
      <4>1. CASE d.members = s.members
        BY <1>1, <3>3, <4>1, KnowsOn DEF SameSocks
      <4>2. CASE DropSave(t) /\ d.members[u] # NoOne /\ \A v \in Users \ {u} : d.members[v] = s.members[v]
        <5>1. task[t].pc = "drop_save" /\ u \in Users
          BY <3>u, <4>2, TaskFacts DEF DropSave, Save, At, TaskOK, Serving
        <5>2. u \in rows => u \in twice \/ Live(u) = {}
          BY <1>0, <3>u, <5>1 DEF Placed
        <5>3. u \in rows' => u \in twice' \/ Live(u)' = {}
          BY <1>1, <5>1, <5>2 DEF Fading
        <5> QED BY <3>6, <4>2, <5>3
      <4>3. CASE (LeaveSave(t) \/ KickSave(t)) /\ \A v \in Users \ {u} : d.members[v] = s.members[v]
        <5>1. task[t].pc \in Left
          BY <4>3 DEF LeaveSave, KickSave, Save, At, Left
        <5>2. u \notin rows'
          BY <1>0, <1>1, <3>u, <5>1 DEF Sent, Fading
        <5> QED BY <3>6, <4>3, <5>2
      <4> QED BY <3>2, <3>5, <3>u, <4>1, <4>2, <4>3 DEF Changed
    <3> QED BY <3>1, <3>7 DEF Knows, Listing
  <2> QED BY <1>4, <2>1, <2>2, StepEffects
<1>5. Placed(task[t])'
  <2>1. CASE Stops(t)
    BY <2>1, IdleFields DEF Stops, Placed, Holding
  <2>2. ASSUME ~Stops(t), task'[t].pc \in Holding PROVE Knows(task[t].seen)'
    <3>1. ~ContractSave(t)
      BY KindSteps
    <3>2. \E pc \in Holding : Takes(t, pc)
      BY <2>2, <3>1, StepLeads DEF Leads, Goes, Holding
    <3>3. PICK c : c = cache
      OBVIOUS
    <3>4. Knows(c)' /\ task'[t].seen = c
      BY <1>3, <3>2, <3>3 DEF Takes
    <3> QED BY <3>4 DEF Knows, Listing
  <2>3. ASSUME ~Stops(t), task'[t].pc \in {"drop_read", "drop_save"}, NEW u, u = task'[t].who
        PROVE  u \in rows' => u \in twice' \/ Live(u)' = {}
    <3>1. task[t].kind = "drop" /\ task'[t].kind = "drop"
      BY <1>0, <2>3 DEF Onward, Course, Joining, Connecting, Cleaning, Beginning, Kicking
    <3>2. task'[t].who = task[t].who /\ task'[t].sock = task[t].sock
      BY <2>3, <3>1, KindSteps, DropMoves
    <3>3. u = task[t].who
      BY <2>3, <3>2
    <3>4. DropCheck(t) \/ DropRead(t)
      <4>1. ~DropSave(t)
        BY <2>3, SeenFields, SMTT(30) DEF DropSave, Save, Goes
      <4>2. ~DropCount(t)
        BY <2>3, ReturnFields DEF DropCount
      <4> QED BY <3>1, <4>1, <4>2, KindSteps
    <3>5. u \in Users
      BY <3>3, <3>4, TaskFacts DEF DropCheck, DropRead, Read, At, TaskOK, Serving
    <3>6. u \in rows => u \in twice \/ Live(u) = {}
      <4>1. CASE DropRead(t)
        <5>1. task[t].pc = "drop_read"
          BY <4>1 DEF DropRead, Read, At
        <5> QED BY <1>0, <3>3, <5>1 DEF Placed
      <4>2. CASE DropCheck(t)
        <5>1. cache # NoOne /\ cache.members[u].sock = task[t].sock
          BY <2>3, <3>3, <4>2, ReturnFields DEF DropCheck, Read
        <5>2. \A o \in Tasks : task[o].kind \notin {"join", "connect"}
          <6>1. ASSUME NEW o \in Tasks, task[o].kind \in {"join", "connect"} PROVE FALSE
            <7>1. o # t
              BY <3>1, <6>1
            <7> QED BY <3>1, <6>1, <7>1, ArriveFacts
          <6> QED BY <6>1
        <5>3. u \notin Coming
          BY <5>2 DEF Coming, Ordered, Course, Connecting, Dropping, Cleaning, Beginning, Kicking
        <5>4. \A s : ~Arriving(u, s)
          BY <5>2 DEF Arriving
        <5>5. u \in rows => u \in twice \/ Listing(cache, u)
          BY <1>0, <3>5, <5>1, <5>3 DEF Knows
        <5>6. socks[task[t].sock] # "joined"
          BY <1>0, <3>1 DEF Sent
        <5> QED BY <5>1, <5>4, <5>5, <5>6 DEF Listing, Live, Joined
      <4> QED BY <3>4, <4>1, <4>2
    <3> QED BY <1>1, <3>5, <3>6 DEF Fading
  <2>4. ASSUME ~Stops(t) PROVE task'[t].pc \notin {"conn_read", "conn_save"}
    BY <1>0, <2>4 DEF Onward, Course, Joining, Dropping, Cleaning, Beginning, Kicking
  <2>5. PICK u : u = task'[t].who
    OBVIOUS
  <2> QED BY <2>1, <2>2, <2>3, <2>4, <2>5 DEF Placed
<1> QED BY <1>2, <1>4, <1>5

\* Only the one who joins or connects is on the way.
LEMMA ArriveOne ==
  ASSUME IInv, Ordered, Opened, mix \notin SocketLost, MayOpen, NEW t \in Tasks,
         task[t].kind \in {"join", "connect"}, Others(t), Onward(t)
  PROVE  /\ \A o \in Tasks \ {t} : Placed(task[o])'
         /\ Coming = IF task[t].pc \in {"join_read", "join_save"} THEN {task[t].who} ELSE {}
         /\ Coming' = IF task'[t].pc \in {"join_read", "join_save"} THEN {task'[t].who} ELSE {}
         /\ \A u, s : Arriving(u, s) => /\ task[t].pc \in {"conn_read", "conn_save"}
                                        /\ task[t].who = u /\ task[t].sock = s
         /\ \A u, s : /\ task'[t].pc \in {"conn_read", "conn_save"} /\ task'[t].kind = "connect"
                      /\ task'[t].who = u /\ task'[t].sock = s
                      => Arriving(u, s)'
<1>1. \A o \in Tasks \ {t} :
        /\ task'[o] = task[o] /\ task[o].kind \notin {"join", "connect", "drop"}
        /\ task[o].pc \notin Holding \cup {"drop_read", "drop_save", "conn_read", "conn_save", "join_read", "join_save"}
  BY ArriveAlone DEF Others
<1>2. \A o \in Tasks \ {t} : Placed(task[o])'
  BY <1>1 DEF Placed
<1>3. /\ Coming = IF task[t].pc \in {"join_read", "join_save"} THEN {task[t].who} ELSE {}
      /\ Coming' = IF task'[t].pc \in {"join_read", "join_save"} THEN {task'[t].who} ELSE {}
  BY <1>1 DEF Coming
<1>4. \A u, s : Arriving(u, s) => /\ task[t].pc \in {"conn_read", "conn_save"}
                                  /\ task[t].who = u /\ task[t].sock = s
  BY <1>1 DEF Arriving
<1>5. \A u, s : /\ task'[t].pc \in {"conn_read", "conn_save"} /\ task'[t].kind = "connect"
                /\ task'[t].who = u /\ task'[t].sock = s
                => Arriving(u, s)'
  BY DEF Arriving
<1> QED BY <1>2, <1>3, <1>4, <1>5

LEMMA JoinKnown ==
  ASSUME IInv, Ordered, Opened, Known, mix \notin SocketLost, [Next]_vars, MayOpen', NEW t \in Tasks, Steps(t),
         task[t].kind = "join"
  PROVE  (cache' # NoOne => Knows(cache)') /\ \A o \in Tasks : Placed(task[o])'
<1>0. /\ MayOpen /\ (cache # NoOne => Knows(cache)) /\ Placed(task[t])
      /\ Others(t) /\ Onward(t) /\ task[t].pc \in Joining
  BY ClosedStays, StepFlow DEF Known, Onward, Stops, Ordered, Course
<1>1. /\ \A o \in Tasks \ {t} : Placed(task[o])'
      /\ Coming = IF task[t].pc \in {"join_read", "join_save"} THEN {task[t].who} ELSE {}
      /\ Coming' = IF task'[t].pc \in {"join_read", "join_save"} THEN {task'[t].who} ELSE {}
      /\ \A u, s : ~Arriving(u, s)
  BY <1>0, ArriveOne DEF Joining
<1>2. PICK u : u = task[t].who /\ u \in Users
  BY <1>0, TaskFacts DEF TaskOK, Serving
<1>3. ~ConnMember(t) /\ \A v : Live(v)' \subseteq Live(v)
  BY KindSteps, StepEffects
<1>4. ASSUME Coming \subseteq Coming', rows' \subseteq rows, twice \subseteq twice' PROVE Fading
  BY <1>1, <1>3, <1>4 DEF Fading
<1>5. PICK c : c = cache
  OBVIOUS
<1>6. CASE JoinBan(t) \/ JoinMember(t)
  <2>1. /\ task[t].pc \in {"join_ban", "join_member"} /\ UNCHANGED <<rows, cache, twice>>
        /\ task'[t].pc \in {"idle", "join_member", "join_row"}
    <3>1. CASE JoinBan(t)
      BY <3>1, GotoFields, ReturnFields, IdleFields DEF JoinBan, At, stores, history, Goes, Stops
    <3>2. CASE JoinMember(t)
      <4>1. CASE Return(t)
        BY <3>2, <4>1, ReturnFields, IdleFields DEF JoinMember, At, stores, history, Stops
      <4>2. CASE ~Return(t)
        BY <3>2, <4>2, TaskFacts DEF JoinMember, At, stores, history, TaskStates
      <4> QED BY <4>1, <4>2
    <3> QED BY <1>6, <3>1, <3>2
  <2>2. Fading
    BY <1>1, <1>4, <2>1
  <2>3. c # NoOne => Knows(c)'
    BY <1>0, <1>5, <2>2, KnowsOn, SameState
  <2>4. cache' = c
    BY <1>5, <2>1
  <2>5. cache' # NoOne => Knows(cache)'
    BY <2>3, <2>4 DEF Knows, Listing
  <2>6. Placed(task[t])'
    BY <2>1 DEF Placed, Holding
  <2> QED BY <1>1, <2>5, <2>6
<1>7. CASE JoinRow(t)
  <2>1. /\ task[t].pc = "join_row" /\ UNCHANGED <<cache, twice>> /\ rows' \subseteq rows \cup {u}
        /\ task'[t].pc = "join_read" /\ task'[t].who = u
    BY <1>2, <1>7, GotoFields DEF JoinRow, At, history, Goes, Same
  <2>2. Coming' = {u} /\ Coming = {}
    BY <1>1, <2>1
  <2>3. ASSUME c # NoOne PROVE Knows(c)'
    <3> SUFFICES ASSUME NEW v \in Users, v \in rows', v \notin twice', v \notin Coming' PROVE Listing(c, v)'
      BY DEF Knows
    <3>1. Listing(c, v)
      BY <1>0, <1>5, <2>1, <2>2, <2>3 DEF Knows
    <3> QED BY <1>1, <1>3, <3>1 DEF Listing
  <2>4. cache' = c
    BY <1>5, <2>1
  <2>5. cache' # NoOne => Knows(cache)'
    BY <2>3, <2>4 DEF Knows, Listing
  <2>6. Placed(task[t])'
    BY <2>1 DEF Placed, Holding
  <2> QED BY <1>1, <2>5, <2>6
<1>8. CASE JoinRead(t)
  <2>1. /\ task[t].pc = "join_read" /\ UNCHANGED <<rows, cache, twice>>
        /\ \/ cache = NoOne /\ Stops(t)
           \/ Goes(t, "join_save") /\ task'[t].who = u /\ task'[t].seen = c /\ c # NoOne
    BY <1>2, <1>5, <1>8, ReturnFields, SeenFields DEF JoinRead, Read, At, stores, history, Same, Anyway
  <2>2. CASE cache = NoOne /\ Stops(t)
    BY <1>1, <2>1, <2>2, IdleFields DEF Stops, Placed, Holding
  <2>3. CASE Goes(t, "join_save") /\ task'[t].who = u /\ task'[t].seen = c /\ c # NoOne
    <3>1. Fading
      BY <1>1, <1>2, <1>4, <2>1, <2>3 DEF Goes
    <3>2. Knows(c)'
      BY <1>0, <1>5, <2>3, <3>1, KnowsOn, SameState
    <3>3. cache' = c
      BY <1>5, <2>1
    <3>4. Knows(cache)' /\ Knows(task[t].seen)'
      BY <2>3, <3>2, <3>3 DEF Knows, Listing
    <3> QED BY <1>1, <2>3, <3>4 DEF Goes, Placed
  <2> QED BY <2>1, <2>2, <2>3
<1>9. CASE JoinSave(t)
  <2>1. /\ task[t].pc = "join_save" /\ Stops(t) /\ twice' = IF Online(u) THEN twice \cup {u} ELSE twice
    BY <1>2, <1>9, ReturnFields DEF JoinSave, Save, At
  <2>2. PICK s, d : s = task[t].seen /\ d = cache'
    OBVIOUS
  <2>3. UNCHANGED <<rows, socks, dying>> /\ Changed(t, s, d)
    BY <1>9, <2>2, WrittenFacts DEF Writes
  <2>4. Coming = {u} /\ Knows(s)
    BY <1>0, <1>1, <1>2, <2>1, <2>2 DEF Placed, Holding
  <2>5. d.members[u] = Fresh /\ \A v \in Users \ {u} : d.members[v] = s.members[v]
    <3>1. /\ ~ConnSave(t) /\ ~DropSave(t) /\ ~LeaveSave(t) /\ ~KickSave(t)
      BY <2>1 DEF ConnSave, DropSave, LeaveSave, KickSave, Save, At
    <3>2. d = [s EXCEPT !.members[u] = Fresh] /\ s \in States
      <4>1. s \in States
        BY <1>9, <2>2, WrittenFacts DEF Writes
      <4> QED BY <1>2, <1>9, <2>2, <4>1 DEF JoinSave, Save
    <3> QED BY <1>2, <3>2, ChangedFacts DEF States
  <2>6. Knows(d)'
    <3> SUFFICES ASSUME NEW v \in Users, v \in rows', v \notin twice' PROVE Listing(d, v)'
      BY DEF Knows
    <3>1. CASE v = u
      <4>1. ~Online(u) /\ Fresh # NoOne
        BY <2>1, <3>1, FreshFacts
      <4>2. Live(v)' = {}
        BY <1>3, <3>1, <4>1 DEF Live, Online
      <4> QED BY <2>5, <3>1, <4>1, <4>2 DEF Listing
    <3>2. CASE v # u
      <4>1. Listing(s, v)
        BY <2>1, <2>3, <2>4, <3>2 DEF Knows
      <4>2. d.members[v] = s.members[v]
        BY <2>5, <3>2
      <4> QED BY <1>1, <1>3, <4>1, <4>2 DEF Listing
    <3> QED BY <3>1, <3>2
  <2>7. Knows(cache)'
    BY <2>2, <2>6 DEF Knows, Listing
  <2> QED BY <1>1, <2>1, <2>7, IdleFields DEF Stops, Placed, Holding
<1> QED BY <1>6, <1>7, <1>8, <1>9, KindSteps

LEMMA ConnectKnown ==
  ASSUME IInv, Ordered, Opened, Known, mix \notin SocketLost, [Next]_vars, MayOpen', NEW t \in Tasks, Steps(t),
         task[t].kind = "connect"
  PROVE  (cache' # NoOne => Knows(cache)') /\ \A o \in Tasks : Placed(task[o])'
<1>0. /\ MayOpen /\ (cache # NoOne => Knows(cache)) /\ Placed(task[t]) /\ Sent(task[t])
      /\ Others(t) /\ Onward(t) /\ task[t].pc \in Connecting
  BY ClosedStays, StepFlow DEF Known, Onward, Stops, Ordered, Course
<1>1. /\ \A o \in Tasks \ {t} : Placed(task[o])'
      /\ Coming = {} /\ \A u, s : Arriving(u, s) => /\ task[t].pc \in {"conn_read", "conn_save"}
                                                     /\ task[t].who = u /\ task[t].sock = s
      /\ \A u, s : /\ task'[t].pc \in {"conn_read", "conn_save"} /\ task'[t].kind = "connect"
                   /\ task'[t].who = u /\ task'[t].sock = s
                   => Arriving(u, s)'
  BY <1>0, ArriveOne DEF Connecting
<1>2. PICK u, x : u = task[t].who /\ x = task[t].sock /\ x \in Sockets /\ x[1] = u /\ u \in Users
  BY <1>0, PresenceAssumption, SMTT(30) DEF Sent
<1>3. UNCHANGED <<rows, twice>>
  <2>1. ~JoinRow(t) /\ ~JoinSave(t)
    BY KindSteps
  <2> QED BY KindSteps DEF ConnCheck, ConnMember, ConnRead, ConnSave, ContractRead, ContractSave, ContractDB, Read, Save,
          stores, history
<1>4. /\ Stops(t) \/ (task'[t].kind = "connect" /\ task'[t].who = u /\ task'[t].sock = x)
      /\ task[t].pc \in {"conn_read", "conn_save"} /\ task'[t].pc \in {"conn_read", "conn_save"}
         => \A v, s : Arriving(v, s) => Arriving(v, s)'
  <2>1. Stops(t) \/ (task'[t].kind = "connect" /\ task'[t].who = u /\ task'[t].sock = x)
    BY <1>0, <1>2, KindSteps, ConnectMoves DEF Onward
  <2>2. ASSUME task'[t].pc \in {"conn_read", "conn_save"} PROVE ~Stops(t)
    BY <2>2, IdleFields DEF Stops
  <2> QED BY <1>1, <1>2, <2>1, <2>2
<1>5. ASSUME \A v : Live(v)' \subseteq Live(v), \A v, s : Arriving(v, s) => Arriving(v, s)' PROVE Fading
  BY <1>1, <1>3, <1>5 DEF Fading
<1>6. PICK c : c = cache
  OBVIOUS
<1>7. ASSUME Fading, cache' = c, task'[t].pc \in Holding => task'[t].seen = c /\ c # NoOne,
             task'[t].pc \in {"conn_read", "conn_save"} /\ u \in rows' => u \in twice' \/ Live(u)' \subseteq {x}
      PROVE  (cache' # NoOne => Knows(cache)') /\ \A o \in Tasks : Placed(task[o])'
  <2>1. c # NoOne => Knows(c)'
    BY <1>0, <1>6, <1>7, KnowsOn, SameState
  <2>2. (cache' # NoOne => Knows(cache)') /\ (task'[t].pc \in Holding => Knows(task[t].seen)')
    BY <1>7, <2>1 DEF Knows, Listing
  <2>3. CASE Stops(t)
    BY <1>1, <2>2, <2>3, IdleFields DEF Stops, Placed, Holding
  <2>4. CASE task'[t].kind = "connect" /\ task'[t].who = u /\ task'[t].sock = x
    <3>1. ~Stops(t) /\ task'[t].pc \in Connecting
      BY <1>0, <2>4, IdleFields DEF Onward, Stops, Course
    <3>2. Placed(task[t])'
      BY <1>7, <2>2, <2>4, <3>1 DEF Placed, Connecting
    <3> QED BY <1>1, <2>2, <3>2
  <2> QED BY <1>4, <2>3, <2>4
<1>8. CASE ConnCheck(t)
  <2>1. /\ task[t].pc = "conn_check" /\ UNCHANGED cache
        /\ Stops(t) \/ (Goes(t, "conn_member") /\ task'[t].seen = c /\ c # NoOne)
    BY <1>6, <1>8, ReturnFields, SeenFields DEF ConnCheck, At, stores
  <2>2. Fading
    <3>1. ~ConnMember(t)
      BY <2>1 DEF ConnMember, At
    <3> QED BY <1>1, <1>5, <2>1, <3>1, StepEffects
  <2> QED BY <1>6, <1>7, <2>1, <2>2, IdleFields DEF Goes, Stops, Holding
<1>9. CASE ConnMember(t)
  <2>1. task[t].pc = "conn_member" /\ UNCHANGED cache
    BY <1>9 DEF ConnMember, At, stores
  <2>2. \A v, s : ~Arriving(v, s)
    BY <1>1, <2>1
  <2>3. CASE u \notin rows
    <3>1. Stops(t) /\ socks' = [socks EXCEPT ![x] = "closed"] /\ UNCHANGED dying
      BY <1>2, <1>9, <2>3, ReturnFields DEF ConnMember
    <3>2. \A v : Live(v)' \subseteq Live(v)
      BY <3>1 DEF Live, Joined, IInv, Typed
    <3> QED BY <1>5, <1>6, <1>7, <2>1, <2>2, <3>1, <3>2, IdleFields DEF Stops, Holding
  <2>4. CASE u \in rows
    <3> DEFINE old == task[t].seen.members[u]
    <3>1. /\ Goes(t, "conn_read")
          /\ socks' = IF socks[x] = "opening" THEN [socks EXCEPT ![x] = "joined"] ELSE socks
          /\ dying' = IF old = NoOne THEN dying
                      ELSE dying \cup {d \in {old.sock} : d # NoOne /\ socks[d] = "joined"}
      BY <1>2, <1>9, <2>4, SeenFields DEF ConnMember
    <3>2. /\ \A v : Live(v)' \subseteq Live(v) \cup {x}
          /\ \A v : v # u => Live(v)' \subseteq Live(v)
      <4>1. dying \subseteq dying'
        BY <3>1
      <4>2. \A s \in Sockets : s # x => socks'[s] = socks[s]
        BY <3>1 DEF IInv, Typed
      <4> HIDE DEF old
      <4> QED BY <1>2, <4>1, <4>2 DEF Live, Joined
    <3>3. Arriving(u, x)'
      BY <1>1, <1>4, <3>1, IdleFields DEF Goes, Stops
    <3>4. ASSUME c # NoOne PROVE Knows(c)'
      <4> SUFFICES ASSUME NEW v \in Users, v \in rows', v \notin twice' PROVE Listing(c, v)'
        BY DEF Knows
      <4>1. Listing(c, v)
        BY <1>0, <1>1, <1>3, <1>6, <3>4 DEF Knows
      <4>2. \A s \in Live(v) : c.members[v].sock = s
        BY <2>2, <4>1 DEF Listing
      <4>3. ASSUME NEW s \in Live(v)' PROVE Arriving(v, s)' \/ c.members[v].sock = s
        <5>1. CASE s \in Live(v)
          BY <4>2, <5>1
        <5>2. CASE s \notin Live(v)
          BY <3>2, <3>3, <4>3, <5>2
        <5> QED BY <5>1, <5>2
      <4> QED BY <4>1, <4>3 DEF Listing
    <3>5. u \in rows' => u \in twice' \/ Live(u)' \subseteq {x}
      <4> SUFFICES ASSUME u \notin twice, NEW s \in Live(u)', s # x PROVE FALSE
        BY <1>3
      <4>1. PICK e : e = task[t].seen
        OBVIOUS
      <4>2. Listing(e, u)
        BY <1>0, <1>1, <1>2, <2>1, <2>4, <4>1 DEF Placed, Holding, Knows
      <4>3. s \in Live(u)
        BY <3>2
      <4>4. old # NoOne /\ old.sock = s
        BY <2>2, <4>1, <4>2, <4>3 DEF Listing
      <4>5. s # NoOne /\ socks[s] = "joined"
        BY <4>3, PresenceAssumption DEF Live, Joined
      <4>6. s \in dying'
        BY <3>1, <4>4, <4>5
      <4> QED BY <4>6 DEF Live
    <3>6. (cache' # NoOne => Knows(cache)')
      BY <1>6, <2>1, <3>4 DEF Knows, Listing
    <3>7. Placed(task[t])'
      <4>1. task'[t].pc = "conn_read" /\ task'[t].who = u /\ task'[t].sock = x
        BY <1>4, <3>1, IdleFields DEF Goes, Stops
      <4> QED BY <3>5, <4>1 DEF Placed, Holding
    <3> QED BY <1>1, <3>6, <3>7
  <2> QED BY <2>3, <2>4
<1>10. CASE ConnRead(t)
  <2>1. task[t].pc = "conn_read" /\ UNCHANGED cache /\ ~ConnMember(t)
    BY <1>10 DEF ConnRead, ConnMember, Read, At, stores
  <2>2. \A v : Live(v)' \subseteq Live(v)
    BY <2>1, StepEffects
  <2>3. CASE cache # NoOne /\ cache.members[u] # NoOne
    <3>1. Goes(t, "conn_save") /\ task'[t].seen = c
      BY <1>2, <1>6, <1>10, <2>3, SeenFields DEF ConnRead, Read, HasEntry
    <3>2. u \in rows' => u \in twice' \/ Live(u)' \subseteq {x}
      BY <1>0, <1>2, <1>3, <2>1, <2>2 DEF Placed
    <3>3. Fading
      BY <1>4, <1>5, <2>1, <2>2, <3>1 DEF Goes
    <3> QED BY <1>6, <1>7, <2>1, <2>3, <3>1, <3>2, <3>3
  <2>4. CASE ~(cache # NoOne /\ cache.members[u] # NoOne)
    <3>1. Goes(t, "contract_read")
      BY <1>2, <1>10, <2>4, GotoFields DEF ConnRead, Read, HasEntry
    <3>2. ASSUME c # NoOne PROVE Knows(c)'
      <4> SUFFICES ASSUME NEW v \in Users, v \in rows', v \notin twice' PROVE Listing(c, v)'
        BY DEF Knows
      <4>1. Listing(c, v)
        BY <1>0, <1>1, <1>3, <1>6, <3>2 DEF Knows
      <4>2. v # u
        BY <1>6, <2>4, <3>2, <4>1 DEF Listing
      <4>3. \A s : ~Arriving(v, s)
        BY <1>1, <1>2, <4>2
      <4> QED BY <2>2, <4>1, <4>3 DEF Listing
    <3>3. cache' # NoOne => Knows(cache)'
      BY <1>6, <2>1, <3>2 DEF Knows, Listing
    <3>4. Placed(task[t])'
      BY <3>1 DEF Goes, Placed, Holding
    <3> QED BY <1>1, <3>3, <3>4
  <2> QED BY <2>3, <2>4
<1>11. CASE ConnSave(t)
  <2>1. task[t].pc = "conn_save" /\ Goes(t, "contract_read") /\ ~ConnMember(t)
    BY <1>11, SeenFields DEF ConnSave, ConnMember, Save, At
  <2>2. \A v : Live(v)' \subseteq Live(v)
    BY <2>1, StepEffects
  <2>3. PICK s, d : s = task[t].seen /\ d = cache'
    OBVIOUS
  <2>4. Knows(s)
    BY <1>0, <2>1, <2>3 DEF Placed, Holding
  <2>5. d.members[u] # NoOne /\ d.members[u].sock = x /\ \A v \in Users \ {u} : d.members[v] = s.members[v]
    <3>1. s \in States /\ s.members[u] # NoOne
      BY <1>2, <2>1, <2>3, TaskFacts DEF TaskOK, Holding
    <3>2. d = [s EXCEPT !.members[u].sock = x]
      BY <1>2, <1>11, <2>3 DEF ConnSave, Save
    <3> DEFINE e == [s.members[u] EXCEPT !.sock = x]
    <3>3. s.members[u] \in Entry
      BY <1>2, <3>1, MemberType
    <3>4. e \in Entry /\ e.sock = x
      BY <1>2, <3>3 DEF Entry
    <3>5. d = [s EXCEPT !.members[u] = e]
      BY <3>1, <3>2 DEF States
    <3>6. e # NoOne
      BY <3>4, NullAssumption
    <3> HIDE DEF e
    <3>7. d.members[u] = e /\ \A v \in Users \ {u} : d.members[v] = s.members[v]
      <4>1. s \in States /\ u \in Users
        BY <1>2, <3>1
      <4>2. /\ [s EXCEPT !.members[u] = e].members[u] = e
            /\ \A v \in Users \ {u} : [s EXCEPT !.members[u] = e].members[v] = s.members[v]
        BY <4>1, ChangedFacts DEF States
      <4> QED BY <3>5, <4>2
    <3> QED BY <3>4, <3>6, <3>7
  <2>6. Knows(d)'
    <3> SUFFICES ASSUME NEW v \in Users, v \in rows', v \notin twice' PROVE Listing(d, v)'
      BY DEF Knows
    <3>1. CASE v = u
      <4>1. Live(v) \subseteq {x}
        BY <1>0, <1>2, <1>3, <2>1, <3>1 DEF Placed
      <4> QED BY <2>2, <2>5, <3>1, <4>1 DEF Listing
    <3>2. CASE v # u
      <4>1. Listing(s, v) /\ d.members[v] = s.members[v]
        BY <1>1, <1>3, <2>4, <2>5, <3>2 DEF Knows
      <4>2. \A y : ~Arriving(v, y)
        BY <1>1, <1>2, <3>2
      <4> QED BY <2>2, <4>1, <4>2 DEF Listing
    <3> QED BY <3>1, <3>2
  <2>7. Knows(cache)'
    BY <2>3, <2>6 DEF Knows, Listing
  <2> QED BY <1>1, <2>1, <2>7 DEF Goes, Placed, Holding
<1>12. CASE ContractRead(t) \/ ContractDB(t)
  <2>1. /\ task[t].pc \in {"contract_read", "contract_db"} /\ UNCHANGED cache /\ ~ConnMember(t)
        /\ Stops(t) \/ (Goes(t, "contract_save") /\ task'[t].seen = c /\ c # NoOne)
    <3>1. CASE ContractRead(t)
      BY <1>6, <3>1, ReturnFields, SeenFields DEF ContractRead, ConnMember, Read, At, stores
    <3>2. CASE ContractDB(t)
      BY <3>2, ReturnFields DEF ContractDB, ConnMember, At
    <3> QED BY <1>12, <3>1, <3>2
  <2>2. Fading
    BY <1>1, <1>5, <2>1, StepEffects
  <2> QED BY <1>6, <1>7, <2>1, <2>2, IdleFields DEF Goes, Stops, Holding
<1>13. CASE ContractSave(t)
  <2>1. task[t].pc = "contract_save" /\ Goes(t, "contract_db") /\ ~ConnMember(t)
    BY <1>13, SeenFields DEF ContractSave, ConnMember, Save, At
  <2>2. Fading
    BY <1>1, <1>5, <2>1, StepEffects
  <2>3. PICK s, d : s = task[t].seen /\ d = cache'
    OBVIOUS
  <2>4. Knows(s) /\ s \in States
    BY <1>0, <2>1, <2>3, TaskFacts DEF Placed, Holding, TaskOK
  <2>5. d = [s EXCEPT !.phase = "contract"]
    BY <1>13, <2>3 DEF ContractSave, Save
  <2>6. d.members = s.members
    BY <2>4, <2>5 DEF States
  <2>7. Knows(d)'
    BY <2>2, <2>4, <2>6, KnowsOn DEF SameSocks
  <2>8. Knows(cache)'
    BY <2>3, <2>7 DEF Knows, Listing
  <2> QED BY <1>1, <2>1, <2>8 DEF Goes, Placed, Holding
<1> QED BY <1>8, <1>9, <1>10, <1>11, <1>12, <1>13, KindSteps

LEMMA RequestSocks ==
  ASSUME IInv, NEW t \in Tasks, Requests(t)
  PROVE  \A s \in Sockets : socks'[s] = "joined" => socks[s] = "joined"
<1>1. UNCHANGED socks \/ (\E s : socks' = [socks EXCEPT ![s] = "opening"]) \/ (\E s : socks' = [socks EXCEPT ![s] = "closed"])
  BY DEF Requests, Join, Leave, Kick, Edited, Sign, Connect, Drop, Cleanup, LeaveHost, Permit, Start, network
<1> QED BY <1>1 DEF IInv, Typed

LEMMA RequestKnown ==
  ASSUME IInv, Ordered, Opened, Known, mix \notin SocketLost, [Next]_vars, NEW t \in Tasks, Requests(t)
  PROVE  Known'
<1>0. /\ \A o \in Tasks : Sent(task[o])
      /\ MayOpen' => MayOpen
      /\ MayOpen => (cache # NoOne => Knows(cache)) /\ \A o \in Tasks : Placed(task[o])
  BY ClosedStays DEF Known
<1>1. /\ UNCHANGED <<rows, cache, twice>> /\ \A u : Live(u)' \subseteq Live(u)
  BY RequestEffects
<1>2. CASE task' = task
  <2>1. Fading
    BY <1>1, <1>2 DEF Fading, Coming, Arriving
  <2>2. ASSUME NEW o \in Tasks PROVE Sent(task[o])' /\ (Placed(task[o]) => Placed(task[o])')
    <3>1. PICK k : k = task[o]
      OBVIOUS
    <3>2. Placed(k) => Placed(k)'
      BY <2>1, BystanderPlaced
    <3>3. Placed(task[o]) => Placed(task[o])'
      BY <1>2, <3>1, <3>2 DEF Placed
    <3> QED BY <1>0, <1>1, <1>2, <3>3, RequestSocks DEF Sent
  <2>3. PICK c : c = cache
    OBVIOUS
  <2>4. Knows(c) => Knows(c)'
    BY <2>1, KnowsOn, SameState
  <2>5. Knows(cache) => Knows(cache)'
    BY <1>1, <2>3, <2>4 DEF Knows, Listing
  <2> QED BY <1>0, <1>1, <2>2, <2>5 DEF Known
<1>3. ASSUME NEW p \in Starting, NEW u \in Users \cup {NoOne}, Launches(t, p[1], p[2], u) PROVE Known'
  <2>0. /\ Others(t) /\ task[t].kind = "none" /\ task[t].pc = "idle"
        /\ task'[t].kind = p[1] /\ task'[t].pc = p[2] /\ task'[t].who = u
    BY <1>3 DEF Launches, Begins, Ordered, Course
  <2>1. Fading
    BY <1>1, <2>0 DEF Fading, Coming, Arriving, Others
  <2>2. ASSUME NEW o \in Tasks \ {t} PROVE Sent(task[o])' /\ (Placed(task[o]) => Placed(task[o])')
    <3>1. PICK k : k = task[o] /\ k = task'[o]
      BY <2>0 DEF Others
    <3>2. Placed(k) => Placed(k)'
      BY <2>1, BystanderPlaced
    <3>3. Placed(task[o]) => Placed(task[o])'
      BY <3>1, <3>2 DEF Placed
    <3> QED BY <1>0, <1>1, <3>1, <3>3, RequestSocks DEF Sent
  <2>3. PICK c : c = cache
    OBVIOUS
  <2>4. Knows(c) => Knows(c)'
    BY <2>1, KnowsOn, SameState
  <2>5. Knows(cache) => Knows(cache)'
    BY <1>1, <2>3, <2>4 DEF Knows, Listing
  <2>6. p[2] \notin Left \cup {"drop_read", "drop_save", "conn_read", "conn_save"} /\ (p[2] \in Holding => p[2] = "entry_save")
    BY DEF Starting, Left, Holding
  <2>7. Sent(task[t])'
    <3>1. /\ task'[t].kind = "drop" => task'[t].sock \in Sockets /\ socks'[task'[t].sock] = "closed"
          /\ task'[t].kind = "connect" => task'[t].sock \in Sockets /\ task'[t].sock[1] = task'[t].who
      BY <1>3, <2>0 DEF Launches
    <3> QED BY <2>0, <2>6, <3>1 DEF Sent
  <2>8. ASSUME MayOpen PROVE Placed(task[t])'
    <3>1. ASSUME p[2] = "entry_save" PROVE Knows(task[t].seen)'
      <4>1. PICK d : d = task'[t].seen
        OBVIOUS
      <4>2. c # NoOne /\ SameSocks(d, c)
        BY <1>3, <2>3, <3>1, <4>1 DEF Launches
      <4>3. Knows(d)'
        BY <1>0, <2>1, <2>3, <2>8, <4>2, KnowsOn
      <4> QED BY <4>1, <4>3 DEF Knows, Listing
    <3> QED BY <2>0, <2>6, <3>1 DEF Placed
  <2> QED BY <1>0, <1>1, <2>2, <2>5, <2>7, <2>8 DEF Known
<1>m. UNCHANGED mix
  BY MixKept
<1> QED BY <1>2, <1>3, RequestLaunches

LEMMA KnownKeeps ==
  ASSUME IInv, Ordered, Opened, Known, [Next]_vars
  PROVE  Known'
<1>m. UNCHANGED mix
  BY MixKept
<1> SUFFICES ASSUME mix \notin SocketLost PROVE Known'
  BY <1>m DEF Known
<1>1. CASE UNCHANGED vars
  <2>1. /\ UNCHANGED <<phase, rows, cache, socks, dying, twice, task, mix>>
    BY <1>1 DEF vars, stores, network, history, trial
  <2>2. /\ MayOpen' <=> MayOpen
        /\ Coming' = Coming /\ (\A u, s : Arriving(u, s)' <=> Arriving(u, s)) /\ \A u : Live(u)' = Live(u)
    BY <2>1 DEF MayOpen, NoLobby, Coming, Arriving, Live, Joined
  <2>3. \A o \in Tasks : (Sent(task[o])' <=> Sent(task[o])) /\ (Placed(task[o])' <=> Placed(task[o]))
    BY <2>1, <2>2 DEF Sent, Placed, Knows, Listing
  <2>4. Knows(cache)' <=> Knows(cache)
    BY <2>1, <2>2 DEF Knows, Listing
  <2> QED BY <2>1, <2>2, <2>3, <2>4 DEF Known
<1>2. ASSUME NEW t \in Tasks, Steps(t) PROVE Known'
  <2>1. \A o \in Tasks : Sent(task[o])'
    BY <1>2, StepSent DEF Known
  <2>2. MayOpen' => (cache' # NoOne => Knows(cache)') /\ \A o \in Tasks : Placed(task[o])'
    BY <1>2, PlainKnown, JoinKnown, ConnectKnown
  <2> QED BY <2>1, <2>2 DEF Known
<1>3. ASSUME NEW t \in Tasks, Requests(t) PROVE Known'
  BY <1>3, RequestKnown
<1>4. ASSUME NEW s \in Sockets, DropEarly(s) PROVE Known'
  BY <1>4 DEF DropEarly, SocketLost, Kinds
<1> QED BY <1>1, <1>2, <1>3, <1>4 DEF Next

LEMMA KnownInit == Init => Known
<1> SUFFICES ASSUME Init PROVE Known
  OBVIOUS
<1>1. rows = {} /\ \A t \in Tasks : task[t] = Idle
  BY DEF Init
<1>2. (\A c : Knows(c)) /\ \A t \in Tasks : Sent(task[t]) /\ Placed(task[t])
  BY <1>1, IdleFields DEF Knows, Sent, Placed, Holding, Left
<1> QED BY <1>2 DEF Known

-----------------------------------------------------------------------------
(* When a timer runs *)

\* The state is deleted and nobody has a copy to bring it back with.
Gone == cache = NoOne /\ \A t \in Tasks : task[t].pc \notin Saves

\* No member has a live connection, but for those who joined again or are about
\* to have their entry written.
Spared == \A u \in rows : u \in twice \/ Live(u) = {} \/ u \in Coming

Lingers == {"cleanup", "drop"}
Closing == {"drop", "leave"}

Timed ==
  mix \notin SocketLost =>
    /\ mix # Lingers => "loose" \notin timer /\ \A t \in Tasks : task[t].kind = "cleanup" => "held" \notin timer
    /\ \A t \in Tasks : task[t].pc \in Connecting \ {"conn_check", "conn_member"} => "held" \notin timer
    /\ phase \in Open /\ "held" \in timer /\ ~(mix = Closing /\ Gone) => Spared
    /\ \A t \in Tasks : /\ task[t].kind = "cleanup" /\ phase \in Open
                        /\ task[t].pc = "delete" \/ mix # Lingers
                        => Spared

LEMMA GoneKept ==
  ASSUME IInv, Ordered, Gone, [Next]_vars
  PROVE  Gone'
<1>1. ASSUME NEW t \in Tasks, Steps(t) PROVE Gone'
  <2>1. task[t].pc \notin Saves /\ Others(t)
    BY <1>1, StepFlow DEF Gone, Onward, Stops, Ordered
  <2>2. cache' = NoOne
    BY <1>1, <2>1, StepEffects, WrittenFacts DEF Gone
  <2>3. task'[t].pc \notin Saves
    <3>1. ~ContractSave(t)
      BY <2>1 DEF ContractSave, Save, At, Saves, Holding
    <3> QED BY <1>1, <3>1, StepLeads, IdleFields DEF Gone, Leads, Stops, Goes, Takes, Saves, Holding
  <2> QED BY <2>1, <2>2, <2>3 DEF Gone, Others
<1>2. ASSUME NEW t \in Tasks, Requests(t) PROVE Gone'
  <2>1. UNCHANGED cache
    BY <1>2, RequestEffects
  <2>2. ASSUME NEW p \in Starting, NEW u, Launches(t, p[1], p[2], u) PROVE Gone'
    <3>1. Others(t) /\ task'[t].pc = p[2] /\ (p[2] = "entry_save" => cache # NoOne)
      BY <2>2 DEF Launches, Begins
    <3>2. p[2] \in Saves => p[2] = "entry_save"
      BY DEF Starting, Saves, Holding
    <3> QED BY <2>1, <3>1, <3>2 DEF Gone, Others
  <2> QED BY <1>2, <2>1, <2>2, RequestLaunches DEF Gone
<1> QED BY <1>1, <1>2 DEF Next, vars, stores, DropEarly, Gone

\* Without a state, an open room is being closed by a handler.
LEMMA ClosingBy ==
  ASSUME IInv, Ordered, Opened, mix \notin SocketLost, cache = NoOne, phase \in Open
  PROVE  \E o \in Tasks : task[o].pc = "delete" /\ task[o].kind \in {"cleanup", "leave"}
<1>1. PICK o \in Tasks : task[o].pc = "delete"
  BY DEF Opened
<1>2. Course(task[o])
  BY DEF Ordered
<1> QED BY <1>1, <1>2 DEF Course, Joining, Connecting, Dropping, Kicking, Beginning

\* Nobody is counted, so nobody is there.
LEMMA CountedSpared ==
  ASSUME IInv, Ordered, Known, mix \notin SocketLost, NEW t \in Tasks, task[t].kind \in {"drop", "cleanup"},
         phase \in Open, cache # NoOne, Connected(cache) = {}
  PROVE  Spared
<1>1. \A o \in Tasks : task[o].kind \notin {"join", "connect"}
  <2>1. ASSUME NEW o \in Tasks, task[o].kind \in {"join", "connect"} PROVE FALSE
    <3>1. o # t
      BY <2>1
    <3> QED BY <2>1, <3>1, ArriveFacts
  <2> QED BY <2>1
<1>2. Knows(cache)
  BY DEF Known, MayOpen
<1>3. ASSUME NEW u \in rows, u \notin twice, u \notin Coming, NEW s \in Live(u) PROVE FALSE
  <2>1. u \in Users /\ s \in Sockets
    BY <1>3 DEF IInv, Typed, Live, Joined
  <2>2. cache.members[u] # NoOne /\ cache.members[u].sock = s
    BY <1>1, <1>2, <1>3, <2>1 DEF Knows, Listing, Arriving
  <2>3. s # NoOne
    BY <2>1, PresenceAssumption
  <2> QED BY <2>1, <2>2, <2>3 DEF Connected
<1> QED BY <1>3 DEF Spared

LEMMA StepSpared ==
  ASSUME IInv, Ordered, Opened, mix \notin SocketLost, NEW t \in Tasks, Steps(t), phase \in Open, Spared,
         \A v : Live(v)' \subseteq Live(v)
  PROVE  Spared'
<1>1. Others(t) /\ Onward(t) /\ Course(task[t])
  BY StepFlow DEF Onward, Stops, Ordered
<1>2. twice \subseteq twice' /\ \A v : Live(v)' \subseteq Live(v)
  BY StepEffects
<1>3. CASE task[t].pc \notin {"join_row", "join_read", "join_save"}
  <2>1. rows' \subseteq rows
    BY <1>3, StepEffects DEF JoinRow, At
  <2>2. Coming \subseteq Coming'
    BY <1>1, <1>3 DEF Coming, Others
  <2> QED BY <1>2, <2>1, <2>2 DEF Spared
<1>4. CASE task[t].pc \in {"join_row", "join_read", "join_save"}
  <2>0. task[t].kind = "join" /\ MayOpen
    BY <1>1, <1>4 DEF Course, Connecting, Dropping, Cleaning, Kicking, Beginning, MayOpen
  <2>1. PICK u : u = task[t].who
    OBVIOUS
  <2>2. /\ Coming = IF task[t].pc \in {"join_read", "join_save"} THEN {u} ELSE {}
        /\ Coming' = IF task'[t].pc \in {"join_read", "join_save"} THEN {task'[t].who} ELSE {}
    BY <1>1, <2>0, <2>1, ArriveOne
  <2>3. CASE JoinRow(t)
    <3>1. rows' \subseteq rows \cup {u} /\ task'[t].pc = "join_read" /\ task'[t].who = u /\ task[t].pc = "join_row"
      BY <2>1, <2>3, GotoFields DEF JoinRow, Goes, Same, At
    <3> QED BY <1>2, <2>2, <3>1 DEF Spared
  <2>4. CASE JoinRead(t)
    <3>1. cache # NoOne
      <4>1. ASSUME cache = NoOne PROVE FALSE
        <5>1. PICK o \in Tasks : task[o].pc = "delete" /\ task[o].kind \in {"cleanup", "leave"}
          BY <4>1, ClosingBy
        <5>2. o # t
          BY <2>0, <5>1
        <5> QED BY <2>0, <5>1, <5>2, ArriveFacts
      <4> QED BY <4>1
    <3>2. UNCHANGED rows /\ task[t].pc = "join_read" /\ task' = [task EXCEPT ![t].pc = "join_save", ![t].seen = cache]
      BY <2>4, <3>1 DEF JoinRead, Read, At, Anyway, stores
    <3>3. task'[t].pc = "join_save" /\ task'[t].who = u
      BY <2>1, <3>2, SeenFields DEF Goes, Same
    <3> QED BY <1>2, <2>2, <3>2, <3>3 DEF Spared
  <2>5. CASE JoinSave(t)
    <3>1. UNCHANGED rows /\ task[t].pc = "join_save" /\ twice' = IF Online(u) THEN twice \cup {u} ELSE twice
      BY <2>1, <2>5 DEF JoinSave, Save, At
    <3>2. u \in twice' \/ Live(u) = {}
      BY <3>1 DEF Online, Live
    <3> QED BY <1>2, <2>2, <3>1, <3>2 DEF Spared
  <2>6. ~JoinBan(t) /\ ~JoinMember(t)
    BY <1>4 DEF JoinBan, JoinMember, At
  <2> QED BY <2>0, <2>3, <2>4, <2>5, <2>6, KindSteps
<1> QED BY <1>3, <1>4

LEMMA RequestSpared ==
  ASSUME IInv, Ordered, NEW t \in Tasks, Requests(t), Spared
  PROVE  Spared'
<1>1. /\ UNCHANGED <<rows, twice>> /\ \A u : Live(u)' \subseteq Live(u)
  BY RequestEffects
<1>2. Coming \subseteq Coming'
  <2>1. CASE task' = task
    BY <2>1 DEF Coming
  <2>2. ASSUME NEW p \in Starting, NEW u, Launches(t, p[1], p[2], u) PROVE Coming \subseteq Coming'
    <3>1. Others(t) /\ task[t].pc = "idle"
      BY <2>2 DEF Launches, Begins, Ordered, Course
    <3> QED BY <3>1 DEF Coming, Others
  <2> QED BY <2>1, <2>2, RequestLaunches
<1> QED BY <1>1, <1>2 DEF Spared

LEMMA TimerSteps ==
  ASSUME IInv, Ordered, NEW t \in Tasks, Steps(t)
  PROVE  \/ timer' = timer
         \/ ConnMember(t) /\ timer' = timer \ {"held"}
         \/ DropCount(t) /\ (timer' = timer \ {"held"} \/ (Connected(cache) = {} /\ timer' = timer \cup {"held"}))
         \/ task[t].kind = "cleanup" /\ CleanupDone(t)
<1>1. CASE ConnMember(t)
  BY <1>1 DEF ConnMember
<1>2. CASE DropCount(t)
  BY <1>2 DEF DropCount
<1>3. CASE CleanupActive(t) \/ CleanupCount(t) \/ Delete(t)
  <2>1. TaskOK(task[t])
    BY TaskFacts
  <2>2. CASE CleanupActive(t) \/ CleanupCount(t)
    BY <2>1, <2>2 DEF CleanupActive, CleanupCount, At, TaskOK
  <2>3. CASE Delete(t)
    BY <2>3, SMTT(30) DEF Delete
  <2> QED BY <1>3, <2>2, <2>3
<1>4. CASE ~ConnMember(t) /\ ~DropCount(t) /\ ~CleanupActive(t) /\ ~CleanupCount(t) /\ ~Delete(t)
  BY <1>4, Zenon DEF Steps, JoinBan, JoinMember, JoinRow, JoinRead, JoinSave, ConnCheck, ConnRead, ConnSave,
     ContractRead, ContractSave, ContractDB, DropCheck, DropRead, DropSave,
     LeaveRow, LeaveRead, LeaveSave, KickHost, KickRow, KickRead, KickSave, KickBan,
     KickFault, KickSocket, EntrySave, StartSign, StartDB, StartRead, StartSave, ForceSign, ForceNext,
     ForceCheck, Read, Save, network
<1> QED BY <1>1, <1>2, <1>3, <1>4

LEMMA TimedSteps ==
  ASSUME IInv, Ordered, Opened, Known, Timed, mix \notin SocketLost, [Next]_vars, NEW t \in Tasks, Steps(t)
  PROVE  Timed'
<1>0. /\ mix # Lingers => "loose" \notin timer /\ \A o \in Tasks : task[o].kind = "cleanup" => "held" \notin timer
      /\ \A o \in Tasks : task[o].pc \in Connecting \ {"conn_check", "conn_member"} => "held" \notin timer
      /\ phase \in Open /\ "held" \in timer /\ ~(mix = Closing /\ Gone) => Spared
      /\ \A o \in Tasks : /\ task[o].kind = "cleanup" /\ phase \in Open
                          /\ task[o].pc = "delete" \/ mix # Lingers
                          => Spared
      /\ UNCHANGED mix /\ Others(t) /\ Onward(t) /\ Course(task[t])
  BY MixKept, StepFlow DEF Timed, Onward, Stops, Ordered
<1>1. /\ DropCount(t) => task[t].kind = "drop"
      /\ ConnMember(t) => task[t].kind = "connect"
      /\ CleanupCount(t) => task[t].kind = "cleanup"
  BY <1>0 DEF DropCount, ConnMember, CleanupCount, At, Course, Joining, Connecting, Dropping, Cleaning, Kicking, Beginning
<1>2. \A o \in Tasks : task'[o].kind = "cleanup" => task[o].kind = "cleanup"
  BY <1>0, IdleFields DEF Others, Onward, Stops
<1>3. /\ DropCount(t) => \A o \in Tasks : task[o].kind = "cleanup" => mix = Lingers
      /\ task[t].kind = "cleanup" => \A o \in Tasks : task[o].kind = "drop" => mix = Lingers
  <2>1. ASSUME NEW a \in Tasks, NEW b \in Tasks, task[a].kind = "cleanup", task[b].kind = "drop" PROVE mix = Lingers
    BY <2>1 DEF Ordered, Overlap, Lingers
  <2> QED BY <1>1, <2>1
<1>4. ASSUME mix # Lingers
      PROVE  "loose" \notin timer' /\ \A o \in Tasks : task'[o].kind = "cleanup" => "held" \notin timer'
  <2>1. task[t].kind = "cleanup" => timer' = timer
    <3>1. ASSUME task[t].kind = "cleanup" PROVE timer' = timer
      BY <1>0, <1>1, <1>4, <3>1, TimerSteps DEF CleanupDone
    <3> QED BY <3>1
  <2> QED BY <1>0, <1>1, <1>2, <1>3, <1>4, <2>1, TimerSteps
<1>r. ASSUME ConnMember(t), "held" \in timer' PROVE Stops(t) /\ \A v : Live(v)' \subseteq Live(v)
  <2>1. Stops(t) /\ socks' = [socks EXCEPT ![task[t].sock] = "closed"] /\ UNCHANGED dying
    BY <1>r, ReturnFields DEF ConnMember
  <2> QED BY <2>1 DEF Live, Joined, IInv, Typed
<1>5. \A o \in Tasks : task'[o].pc \in Connecting \ {"conn_check", "conn_member"} => "held" \notin timer'
  <2> SUFFICES ASSUME NEW o \in Tasks, task'[o].pc \in Connecting \ {"conn_check", "conn_member"}, "held" \in timer'
               PROVE  FALSE
    OBVIOUS
  <2>2. task'[o].kind = "connect" /\ task[o].kind = "connect"
    <3>1. Course(task'[o])
      BY OrderKept DEF Ordered, Course
    <3>2. task'[o].kind = "connect"
      BY <3>1 DEF Course, Joining, Connecting, Dropping, Cleaning, Kicking, Beginning
    <3> QED BY <1>0, <3>2, IdleFields DEF Others, Onward, Stops
  <2>a. ~ConnMember(t)
    <3>1. o # t => task[t].kind # "connect"
      BY <2>2, ArriveFacts
    <3>2. ASSUME o = t, ConnMember(t) PROVE FALSE
      BY <1>r, <2>2, <3>2, IdleFields DEF Stops
    <3> QED BY <1>1, <3>1, <3>2
  <2>1. ~(task[t].kind = "cleanup" /\ CleanupDone(t))
    BY DEF CleanupDone
  <2>3. ~DropCount(t)
    <3>1. o # t => task[t].kind # "drop"
      BY <2>2, ArriveFacts
    <3> QED BY <1>1, <2>2, <3>1
  <2>4. "held" \in timer
    BY <2>1, <2>3, <2>a, TimerSteps
  <2>5. task[o].pc \notin Connecting \ {"conn_check", "conn_member"}
    BY <1>0, <2>4
  <2>6. o = t
    BY <1>0, <2>5 DEF Others
  <2>7. task[t].pc \in {"conn_check", "conn_member"}
    BY <1>0, <2>2, <2>5, <2>6 DEF Course
  <2>8. ConnCheck(t)
    BY <2>a, <2>2, <2>6, <2>7, KindSteps DEF ConnRead, ConnSave, ContractRead, ContractSave, ContractDB, Read, Save, At
  <2>9. task'[t].pc \in {"idle", "conn_member"}
    BY <2>8, ReturnFields, SeenFields, IdleFields, SMTT(30) DEF ConnCheck, Stops, Goes
  <2> QED BY <2>6, <2>9 DEF Connecting
<1>6. ASSUME phase \in Open, Spared, "held" \in timer' \/ ~ConnMember(t) PROVE Spared'
  <2>1. \A v : Live(v)' \subseteq Live(v)
    BY <1>6, <1>r, StepEffects
  <2> QED BY <1>6, <2>1, StepSpared
<1>7. ASSUME phase' \in Open, phase \notin Open PROVE ContractDB(t)
  BY <1>7, StepEffects DEF StartDB, Open
<1>8. ASSUME ContractDB(t)
      PROVE  "held" \notin timer' /\ \A o \in Tasks : task'[o].kind # "cleanup"
  <2>1. task[t].pc = "contract_db" /\ task[t].kind = "connect" /\ UNCHANGED timer
    BY <1>8, KindSteps DEF ContractDB, At, network
  <2>2. \A o \in Tasks : task[o].kind # "cleanup"
    BY <2>1, ArriveFacts
  <2> QED BY <1>0, <1>2, <2>1, <2>2 DEF Connecting
<1>9. ASSUME phase' \in Open, "held" \in timer', ~(mix' = Closing /\ Gone') PROVE Spared'
  <2>1. phase \in Open
    BY <1>7, <1>8, <1>9
  <2>2. ~(mix = Closing /\ Gone)
    BY <1>0, <1>9, GoneKept
  <2>3. CASE "held" \in timer
    BY <1>0, <1>6, <1>9, <2>1, <2>2, <2>3
  <2>4. CASE "held" \notin timer
    <3>1. DropCount(t) /\ Connected(cache) = {} /\ task[t].kind = "drop"
      BY <1>1, <1>9, <2>4, TimerSteps DEF CleanupDone
    <3>2. CASE cache # NoOne
      BY <1>6, <1>9, <2>1, <3>1, <3>2, CountedSpared
    <3>3. CASE cache = NoOne
      <4>1. PICK o \in Tasks : task[o].pc = "delete" /\ task[o].kind \in {"cleanup", "leave"}
        BY <2>1, <3>3, ClosingBy
      <4>2. CASE task[o].kind = "cleanup"
        BY <1>0, <1>6, <1>9, <2>1, <4>1, <4>2
      <4>3. CASE task[o].kind = "leave"
        <5>1. mix = Closing
          BY <3>1, <4>3 DEF Ordered, Overlap, Closing
        <5>2. ASSUME NEW a \in Tasks PROVE task[a].pc \notin Saves
          <6>1. CASE a = t
            BY <3>1, <6>1 DEF DropCount, At, Saves, Holding
          <6>2. CASE a = o
            BY <4>1, <6>2 DEF Saves, Holding
          <6>3. CASE a # t /\ a # o
            <7>1. task[a].kind # "none" => {task[a].kind, "drop"} = Closing /\ {task[a].kind, "leave"} = Closing
              BY <3>1, <4>3, <5>1, <6>3 DEF Ordered, Overlap
            <7>2. task[a].kind = "none"
              BY <7>1 DEF Closing
            <7>3. task[a].pc = "idle"
              BY <7>2 DEF Ordered, Course
            <7> QED BY <7>3 DEF Saves, Holding
          <6> QED BY <6>1, <6>2, <6>3
        <5> QED BY <2>2, <3>3, <5>1, <5>2 DEF Gone
      <4> QED BY <4>1, <4>2, <4>3
    <3> QED BY <3>2, <3>3
  <2> QED BY <2>3, <2>4
<1>10. ASSUME NEW o \in Tasks, task'[o].kind = "cleanup", phase' \in Open, task'[o].pc = "delete" \/ mix' # Lingers
       PROVE  Spared'
  <2>1. phase \in Open /\ task[o].kind = "cleanup" /\ ~ContractDB(t)
    BY <1>2, <1>7, <1>8, <1>10
  <2>2. ~ConnMember(t)
    <3>1. o # t => task[t].kind # "connect"
      BY <2>1, ArriveFacts
    <3> QED BY <1>1, <2>1, <3>1
  <2>3. CASE task[o].pc = "delete" \/ mix # Lingers
    BY <1>0, <1>6, <2>1, <2>2, <2>3
  <2>4. CASE task[o].pc # "delete" /\ mix = Lingers
    <3>1. o = t
      BY <1>0, <1>10, <2>4 DEF Others
    <3>2. CleanupCount(t)
      <4>1. ~Delete(t)
        BY <2>4, <3>1 DEF Delete, At
      <4>2. ~CleanupActive(t)
        <5>1. ASSUME CleanupActive(t) PROVE task'[t].pc \in {"idle", "cleanup_count"}
          BY <5>1, GotoFields, ReturnFields, IdleFields DEF CleanupActive, CleanupDone, Stops, Goes
        <5> QED BY <1>0, <1>10, <2>4, <3>1, <5>1
      <4> QED BY <2>1, <3>1, <4>1, <4>2, KindSteps
    <3>3. Connected(cache) = {} /\ task[t].pc = "cleanup_count"
      <4>1. ~Stops(t)
        BY <1>10, <3>1, IdleFields DEF Stops
      <4> QED BY <3>2, <4>1, ReturnFields DEF CleanupCount, CleanupDone, At
    <3>4. CASE cache # NoOne
      BY <1>6, <2>1, <2>2, <3>1, <3>3, <3>4, CountedSpared
    <3>5. CASE cache = NoOne
      <4>1. PICK a \in Tasks : task[a].pc = "delete" /\ task[a].kind \in {"cleanup", "leave"}
        BY <2>1, <3>5, ClosingBy
      <4>2. a # t
        BY <3>3, <4>1
      <4>3. {task[t].kind, task[a].kind} = Lingers
        BY <2>1, <2>4, <3>1, <4>1, <4>2 DEF Ordered, Overlap
      <4> QED BY <2>1, <3>1, <4>1, <4>3 DEF Lingers
    <3> QED BY <3>4, <3>5
  <2> QED BY <2>3, <2>4
<1> QED BY <1>0, <1>4, <1>5, <1>9, <1>10 DEF Timed

LEMMA TimedRequests ==
  ASSUME IInv, Ordered, Opened, Known, Timed, mix \notin SocketLost, [Next]_vars, NEW t \in Tasks, Requests(t)
  PROVE  Timed'
<1>0. /\ mix # Lingers => "loose" \notin timer /\ \A o \in Tasks : task[o].kind = "cleanup" => "held" \notin timer
      /\ \A o \in Tasks : task[o].pc \in Connecting \ {"conn_check", "conn_member"} => "held" \notin timer
      /\ phase \in Open /\ "held" \in timer /\ ~(mix = Closing /\ Gone) => Spared
      /\ \A o \in Tasks : /\ task[o].kind = "cleanup" /\ phase \in Open
                          /\ task[o].pc = "delete" \/ mix # Lingers
                          => Spared
      /\ UNCHANGED <<mix, phase, cache>> /\ timer' \subseteq timer /\ timer \subseteq {"held", "loose"}
      /\ Spared => Spared'
  BY MixKept, RequestEffects, RequestSpared DEF Timed, IInv, Typed
<1>1. ASSUME phase \in Open, "held" \in timer', ~(mix = Closing /\ Gone') PROVE Spared'
  BY <1>0, <1>1, GoneKept
<1>2. CASE task' = task
  <2>1. \A o \in Tasks : /\ task'[o].kind = "cleanup" /\ phase' \in Open
                         /\ task'[o].pc = "delete" \/ mix' # Lingers
                         => Spared'
    BY <1>0, <1>2
  <2> QED BY <1>0, <1>1, <1>2, <2>1 DEF Timed
<1>3. ASSUME NEW p \in Starting, NEW u, Launches(t, p[1], p[2], u) PROVE Timed'
  <2>0. /\ Others(t) /\ MayStart(t, p[1]) /\ task'[t].kind = p[1] /\ task'[t].pc = p[2]
        /\ p[1] = "cleanup" => Cleanup(t) /\ p[2] = "cleanup_active"
        /\ p[2] \notin Connecting \ {"conn_check", "conn_member"}
    BY <1>3 DEF Launches, Begins, Starting, Connecting
  <2>1. ASSUME p[1] = "cleanup", mix # Lingers PROVE "held" \in timer /\ "held" \notin timer'
    BY <1>0, <2>0, <2>1 DEF Cleanup
  <2>2. ASSUME mix # Lingers
        PROVE  "loose" \notin timer' /\ \A o \in Tasks : task'[o].kind = "cleanup" => "held" \notin timer'
    BY <1>0, <2>0, <2>1, <2>2 DEF Others
  <2>3. \A o \in Tasks : task'[o].pc \in Connecting \ {"conn_check", "conn_member"} => "held" \notin timer'
    BY <1>0, <2>0 DEF Others
  <2>4. ASSUME NEW o \in Tasks, task'[o].kind = "cleanup", phase \in Open, task'[o].pc = "delete" \/ mix # Lingers
        PROVE  Spared'
    <3>1. CASE o # t
      BY <1>0, <2>0, <2>4, <3>1 DEF Others
    <3>2. CASE o = t
      <4>1. p[1] = "cleanup" /\ mix # Lingers
        BY <2>0, <2>4, <3>2
      <4>2. ASSUME mix = Closing, Gone PROVE FALSE
        <5>1. PICK a \in Tasks : task[a].pc = "delete" /\ task[a].kind \in {"cleanup", "leave"}
          BY <2>4, <4>2, ClosingBy DEF Gone
        <5>2. {"cleanup", task[a].kind} = Closing
          BY <2>0, <4>1, <4>2, <5>1 DEF MayStart
        <5> QED BY <5>2 DEF Closing
      <4> QED BY <1>0, <2>1, <2>4, <4>1, <4>2
    <3> QED BY <3>1, <3>2
  <2> QED BY <1>0, <1>1, <2>2, <2>3, <2>4 DEF Timed
<1> QED BY <1>2, <1>3, RequestLaunches

LEMMA TimedKeeps ==
  ASSUME IInv, Ordered, Opened, Known, Timed, [Next]_vars
  PROVE  Timed'
<1>m. UNCHANGED mix
  BY MixKept
<1> SUFFICES ASSUME mix \notin SocketLost PROVE Timed'
  BY <1>m DEF Timed
<1>1. CASE UNCHANGED vars
  <2>1. UNCHANGED <<phase, rows, cache, socks, dying, timer, twice, task, mix>>
    BY <1>1 DEF vars, stores, network, history, trial
  <2>2. (Gone' <=> Gone) /\ (Spared' <=> Spared)
    BY <2>1 DEF Gone, Spared, Coming, Live, Joined
  <2> QED BY <2>1, <2>2 DEF Timed
<1>2. ASSUME NEW s \in Sockets, DropEarly(s) PROVE Timed'
  BY <1>2 DEF DropEarly, SocketLost, Kinds
<1> QED BY <1>1, <1>2, TimedSteps, TimedRequests DEF Next

LEMMA TimedInit == Init => Timed
<1> SUFFICES ASSUME Init PROVE Timed
  OBVIOUS
<1>1. timer = {} /\ \A t \in Tasks : task[t].kind = "none"
  BY IdleFields DEF Init
<1> QED BY <1>1 DEF Timed

\* A cleanup never deletes an open room while a member is connected, under every
\* overlap but those that SocketLost names (handleRoomCleanup).
THEOREM ConnectedAreSpared == Spec => []CleanupSpares
<1>1. IInv /\ Ordered /\ Timed => CleanupSpares
  <2> SUFFICES ASSUME IInv, Ordered, Timed, NEW t \in Tasks, task[t].kind = "cleanup", task[t].pc = "delete",
                      phase \in Open, mix \notin SocketLost, NEW u \in rows, u \notin twice
               PROVE  Joined(u) \subseteq dying
    BY DEF CleanupSpares
  <2>1. Live(u) = {} \/ u \in Coming
    BY DEF Timed, Spared
  <2>2. \A o \in Tasks : task[o].pc \notin {"join_read", "join_save"}
    <3> SUFFICES ASSUME NEW o \in Tasks, task[o].pc \in {"join_read", "join_save"} PROVE FALSE
      OBVIOUS
    <3>1. task[o].kind = "join"
      BY DEF Ordered, Course, Connecting, Dropping, Cleaning, Kicking, Beginning
    <3>2. o # t
      BY <3>1
    <3> QED BY <3>1, <3>2, ArriveFacts
  <2>3. u \notin Coming
    BY <2>2 DEF Coming
  <2> QED BY <2>1, <2>3 DEF Live
<1>2. Init => IInv /\ Ordered /\ Opened /\ Known /\ Timed
  BY InitKeeps, OrderedInit, OpenedInit, KnownInit, TimedInit
<1>3. IInv /\ Ordered /\ Opened /\ Known /\ Timed /\ [Next]_vars => (IInv /\ Ordered /\ Opened /\ Known /\ Timed)'
  BY StepKeeps, OrderKept, OpenedKeeps, KnownKeeps, TimedKeeps
<1> QED BY <1>1, <1>2, <1>3, PTL DEF Spec
=============================================================================
