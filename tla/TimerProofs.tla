------------------------------ MODULE TimerProofs ------------------------------
(***************************************************************************)
(* Of a session's timer, for every set of members, slots, sockets and logs, *)
(* and every number of restarts.  The settlement: penalties are drawn once *)
(* and stay public, whoever gave up in time is drawn the most, and the     *)
(* result page waits for everybody's results.  The escapes that they are   *)
(* drawn for: the types, whatever handlers overlap, and, for a member whose *)
(* handlers run one after the other, that the cached entry names the page's *)
(* socket (EInv), that no time is charged twice (LInv), and that the member *)
(* is charged exactly while away (FInv, which builds on both).             *)
(***************************************************************************)
EXTENDS PenaltySettlement, MCEscapes, FiniteSetTheorems, SequenceTheorems, TLAPS

-----------------------------------------------------------------------------
(* The settlement *)

Forfeit(r) == r.basis = "forfeit" /\ r.time

\* The awaits of a settlement, and those behind its load.
Loaded   == {"processed", "find", "write", "commit"}
Settling == {"load"} \cup Loaded

\* The awaits of a spin or an exit.
Revealing == {"spin_reveal", "exit_find", "exit_reveal", "announce"}

All(k) == k.kind \in {"end", "result"}

\* What the handler run k may rely on.
Locks(k) ==
  /\ \A m \in Members : k.ins[m] # NoOne => row[m] = NoOne
  /\ \A m \in Members : k.ins[m] # NoOne /\ (m \in inTime \/ ~over) => Forfeit(k.ins[m])
  /\ \A m \in k.upd : row[m] # NoOne

Scope(k) ==
  /\ k.pc \in Settling /\ All(k) => over
  /\ k.pc \in Loaded /\ All(k) => inTime \subseteq k.snap
  /\ k.pc = "giveup_tx" => k.who \in Members /\ ~ All(k)
  /\ k.pc = "end_db" => k.kind = "end"
  /\ k.pc = "load" /\ ~ All(k) => k.who \in gaveUp
  /\ k.pc \in Loaded /\ ~ All(k) => k.who \in k.snap /\ k.todo \subseteq {k.who}
  /\ k.pc = "processed" => All(k)
  /\ k.pc \in Revealing => k.who \in Members

Progress(k) ==
  /\ k.pc = "processed" => k.todo = Members
  /\ k.pc \in Loaded /\ All(k) => \A m \in Members \ k.todo : row[m] # NoOne \/ k.ins[m] # NoOne
  /\ k.pc = "write" => k.at \in k.todo /\ (k.found => row[k.at] # NoOne)
  /\ k.pc = "commit" => k.todo = {}
  /\ k.pc \in {"reload", "expire"} => \A m \in Members : row[m] # NoOne

TaskOK(k) == Locks(k) /\ Scope(k) /\ Progress(k)

\* Two transactions never hold the same new row (the primary key).
Alone(t, k) == \A u \in Slots \ {t}, m \in Members : k.ins[m] # NoOne => task[u].ins[m] = NoOne

RoomOK == inTime \subseteq gaveUp /\ (~over => inTime = {})

RowsOK == \A m \in Members : row[m] # NoOne /\ (m \in inTime \/ ~over) => Forfeit(row[m])

\* The inductive invariant.
IInv == TypeOK /\ RoomOK /\ RowsOK /\ \A t \in Slots : TaskOK(task[t]) /\ Alone(t, task[t])

-----------------------------------------------------------------------------
(* Types *)

LEMMA IdleType == IdleTask \in Tasks
BY DEF IdleTask, Tasks, PCs

LEMMA TaskType ==
  ASSUME TypeOK, NEW t \in Slots
  PROVE  task[t] \in Tasks
BY DEF TypeOK

\* A step of one handler that leaves the rows alone.
LEMMA LocalType ==
  ASSUME TypeOK, NEW t \in Slots, NEW k \in Tasks, task' = [task EXCEPT ![t] = k],
         row' \in [Members -> Rows \cup {NoOne}], announced' \subseteq Members,
         UNCHANGED <<room, used>>
  PROVE  TypeOK'
BY DEF TypeOK, room, used

-----------------------------------------------------------------------------
(* One handler takes a step; no row appears or disappears. *)

LEMMA LocalStep ==
  ASSUME IInv, NEW t \in Slots, NEW k \in Tasks, task' = [task EXCEPT ![t] = k],
         TaskOK(k), Alone(t, k),
         row' \in [Members -> Rows \cup {NoOne}],
         \A m \in Members : row'[m] = NoOne <=> row[m] = NoOne,
         \A m \in Members : row[m] # NoOne => Forfeit(row'[m]) = Forfeit(row[m]),
         announced' \subseteq Members,
         UNCHANGED <<room, used>>
  PROVE  IInv'
<1> USE DEF IInv
<1>1. TypeOK'
  BY LocalType
<1>2. UNCHANGED <<gaveUp, inTime, over>>
  BY DEF room
<1>3. RoomOK'
  BY <1>2 DEF RoomOK
<1>4. RowsOK'
  BY <1>2 DEF RowsOK
<1>5. ASSUME NEW u \in Slots
      PROVE  TaskOK(task[u])' /\ Alone(u, task[u])'
  <2>1. task'[u] = IF u = t THEN k ELSE task[u]
    BY DEF TypeOK
  <2>2. TaskOK(task'[u])
    BY <2>1
  <2>3. task'[u] \in Tasks
    BY <2>1 DEF TypeOK
  <2>4. Locks(task[u])'
    BY <1>2, <2>2, <2>3 DEF TaskOK, Locks, Tasks
  <2>5. Scope(task[u])'
    BY <1>2, <2>2 DEF TaskOK, Scope, All, Revealing
  <2>6. Progress(task[u])'
    BY <1>2, <2>2, <2>3 DEF TaskOK, Progress, All, Tasks
  <2>7. Alone(u, task[u])'
    BY <2>1 DEF Alone, TypeOK
  <2> QED BY <2>4, <2>5, <2>6, <2>7 DEF TaskOK
<1> QED BY <1>1, <1>3, <1>4, <1>5

LEMMA IdleOK ==
  ASSUME NEW t \in Slots
  PROVE  TaskOK(IdleTask) /\ Alone(t, IdleTask)
BY DEF TaskOK, Locks, Scope, Progress, Alone, IdleTask, Settling, Loaded, Revealing

\* A handler returns, is refused, or is rolled back.
LEMMA ReturnStep ==
  ASSUME IInv, NEW t \in Slots, Return(t), UNCHANGED <<room, row, used>>,
         announced' \subseteq Members
  PROVE  IInv'
<1>1. row' \in [Members -> Rows \cup {NoOne}]
  BY DEF IInv, TypeOK
<1> QED BY <1>1, IdleType, IdleOK, LocalStep DEF Return

\* A handler starts.
LEMMA IssueStep ==
  ASSUME IInv, NEW t \in Slots, NEW kind \in RequestKinds, NEW pc \in PCs,
         NEW who \in Members \cup {NoOne}, NEW seen \in SUBSET Members,
         Issue(t, kind, pc, who, seen),
         pc \notin Loaded \cup {"reload"},
         pc = "load" => IF kind \in {"end", "result"} THEN over ELSE who \in gaveUp,
         pc = "giveup_tx" => kind = "giveup" /\ who \in Members,
         pc = "end_db" => kind = "end",
         pc \in Revealing => who \in Members,
         pc = "expire" => \A m \in Members : row[m] # NoOne
  PROVE  IInv'
<1> DEFINE k == [IdleTask EXCEPT !.pc = pc, !.kind = kind, !.who = who, !.seen = seen]
<1>1. k \in Tasks
  BY IdleType DEF Tasks, IdleTask
<1>2. /\ k.pc = pc /\ k.kind = kind /\ k.who = who /\ k.upd = {}
      /\ k.ins = [m \in Members |-> NoOne]
  BY DEF IdleTask
<1>3. task' = [task EXCEPT ![t] = k] /\ UNCHANGED <<room, row, announced, used>>
  BY DEF Issue
<1> HIDE DEF k
<1>4. Locks(k) /\ Alone(t, k)
  BY <1>2 DEF Locks, Alone
<1>5. Scope(k)
  BY <1>2 DEF Scope, All, Settling, Loaded, Revealing
<1>6. Progress(k)
  BY <1>2 DEF Progress, Loaded
<1>7. row' \in [Members -> Rows \cup {NoOne}] /\ announced' \subseteq Members
  BY <1>3 DEF IInv, TypeOK
<1> QED BY <1>1, <1>3, <1>4, <1>5, <1>6, <1>7, LocalStep DEF TaskOK

LEMMA PCsFacts ==
  /\ "giveup_tx" \in PCs /\ "end_db" \in PCs /\ "load" \in PCs /\ "processed" \in PCs
  /\ "find" \in PCs /\ "write" \in PCs /\ "commit" \in PCs /\ "reload" \in PCs
  /\ "expire" \in PCs /\ "spin_reveal" \in PCs /\ "exit_find" \in PCs
  /\ "exit_reveal" \in PCs /\ "job_reveal" \in PCs /\ "announce" \in PCs
BY DEF PCs

LEMMA ArriveStep ==
  ASSUME IInv, NEW t \in Slots, Arrive(t)
  PROVE  IInv'
<1> USE PCsFacts DEF RequestKinds, Loaded, Revealing, Settled
<1>0. Hidden \in SUBSET Members
  BY DEF Hidden
<1>1. CASE End(t)
  BY <1>1, IssueStep DEF End
<1>2. CASE Result(t)
  <2>1. CASE Settled = Members
    <3>1. Issue(t, "result", "expire", NoOne, Hidden)
      BY <1>2, <2>1 DEF Result
    <3> QED BY <1>0, <2>1, <3>1, IssueStep
  <2>2. CASE Settled # Members
    <3>1. over /\ Issue(t, "result", "load", NoOne, Hidden)
      BY <1>2, <2>2 DEF Result
    <3> QED BY <1>0, <3>1, IssueStep
  <2> QED BY <2>1, <2>2
<1>3. ASSUME NEW m \in Members, GiveUp(t, m) PROVE IInv'
  BY <1>3, IssueStep DEF GiveUp
<1>4. ASSUME NEW m \in Members, GiveUpResult(t, m) PROVE IInv'
  BY <1>4, IssueStep DEF GiveUpResult
<1>5. ASSUME NEW m \in Members, Spin(t, m) PROVE IInv'
  BY <1>5, IssueStep DEF Spin
<1>6. ASSUME NEW m \in Members, Exit(t, m) PROVE IInv'
  BY <1>6, IssueStep DEF Exit
<1>7. ASSUME NEW m \in Members, Job(t, m) PROVE IInv'
  BY <1>7, IssueStep DEF Job
<1> QED BY <1>1, <1>2, <1>3, <1>4, <1>5, <1>6, <1>7 DEF Arrive

-----------------------------------------------------------------------------
(* The settlement *)

\* What the handler of t relies on before its step.
LEMMA Before ==
  ASSUME IInv, NEW t \in Slots
  PROVE  /\ task[t] \in Tasks /\ Locks(task[t]) /\ Scope(task[t]) /\ Progress(task[t])
         /\ Alone(t, task[t])
BY DEF IInv, TypeOK, TaskOK

\* Records of tasks, field by field.
LEMMA LoadedType ==
  ASSUME NEW k \in Tasks, NEW pc \in PCs, NEW ms \in SUBSET Members, NEW ns \in SUBSET Members
  PROVE  [k EXCEPT !.pc = pc, !.snap = ms, !.todo = ns] \in Tasks
BY DEF Tasks

LEMMA FoundType ==
  ASSUME NEW k \in Tasks, NEW pc \in PCs, NEW m \in Members, NEW b \in BOOLEAN
  PROVE  [k EXCEPT !.pc = pc, !.at = m, !.found = b] \in Tasks
<1>1. [k EXCEPT !.pc = pc, !.at = m] \in Tasks
  BY DEF Tasks
<1> QED BY <1>1 DEF Tasks

LEMMA VisitedType ==
  ASSUME NEW k \in Tasks, NEW pc \in PCs, NEW ms \in SUBSET Members
  PROVE  [k EXCEPT !.pc = pc, !.todo = ms, !.at = NoOne, !.found = FALSE] \in Tasks
<1>1. [k EXCEPT !.pc = pc, !.todo = ms, !.at = NoOne] \in Tasks
  BY DEF Tasks
<1> QED BY <1>1 DEF Tasks

\* A step that changes only the task t.
LEMMA OnlyTask ==
  ASSUME IInv, NEW t \in Slots, NEW k \in Tasks, task' = [task EXCEPT ![t] = k],
         Locks(k), Scope(k), Progress(k), Alone(t, k),
         UNCHANGED <<room, row, announced, used>>
  PROVE  IInv'
<1>1. row' \in [Members -> Rows \cup {NoOne}] /\ announced' \subseteq Members
  BY DEF IInv, TypeOK
<1> QED BY <1>1, LocalStep DEF TaskOK

LEMMA LoadStep ==
  ASSUME IInv, NEW t \in Slots, Load(t)
  PROVE  IInv'
<1> USE DEF ForAll, All
<1> DEFINE pc   == IF ForAll(t) THEN "processed" ELSE "find"
           todo == IF ForAll(t) THEN Members ELSE {task[t].who}
           k    == [task[t] EXCEPT !.pc = pc, !.snap = gaveUp, !.todo = todo]
<1>0. task[t].pc = "load"
  BY DEF Load
<1>1. inTime \subseteq gaveUp /\ gaveUp \subseteq Members
  BY DEF IInv, RoomOK, TypeOK
<1>2. ~ ForAll(t) => task[t].who \in gaveUp
  BY <1>0, Before DEF Scope, Revealing
<1>3. k \in Tasks
  <2>1. pc \in PCs
    BY PCsFacts
  <2>2. todo \in SUBSET Members
    <3>1. CASE ForAll(t)
      BY <3>1
    <3>2. CASE ~ ForAll(t)
      BY <1>1, <1>2, <3>2
    <3> QED BY <3>1, <3>2
  <2>3. gaveUp \in SUBSET Members
    BY <1>1
  <2> HIDE DEF pc, todo
  <2> QED BY <2>1, <2>2, <2>3, Before, LoadedType
<1>4. task' = [task EXCEPT ![t] = k] /\ UNCHANGED <<room, row, announced, used>>
  BY DEF Load, IInv, TypeOK
<1>5. /\ k.pc = pc /\ k.snap = gaveUp /\ k.todo = todo /\ k.kind = task[t].kind
      /\ k.who = task[t].who /\ k.ins = task[t].ins /\ k.upd = task[t].upd
  BY Before DEF Tasks
<1> HIDE DEF k
<1>6. Locks(k) /\ Alone(t, k)
  BY <1>5, Before DEF Locks, Alone
<1>7. Scope(k)
  BY <1>0, <1>1, <1>2, <1>5, Before DEF Scope, Settling, Loaded, Revealing
<1>8. Progress(k)
  BY <1>5 DEF Progress, Loaded
<1> QED BY <1>3, <1>4, <1>6, <1>7, <1>8, OnlyTask

LEMMA ProcessedStep ==
  ASSUME IInv, NEW t \in Slots, Processed(t)
  PROVE  IInv'
<1> DEFINE todo == {m \in task[t].todo : m \notin Settled \/ m \in task[t].snap}
           k    == [task[t] EXCEPT !.pc = "find", !.todo = todo]
<1>0. task[t].pc = "processed"
  BY DEF Processed
<1>1. k \in Tasks
  BY Before, PCsFacts DEF Tasks
<1>2. task' = [task EXCEPT ![t] = k] /\ UNCHANGED <<room, row, announced, used>>
  BY DEF Processed, IInv, TypeOK
<1>3. /\ k.pc = "find" /\ k.snap = task[t].snap /\ k.todo = todo /\ k.kind = task[t].kind
      /\ k.who = task[t].who /\ k.ins = task[t].ins /\ k.upd = task[t].upd
  BY Before DEF Tasks
<1> HIDE DEF k
<1>4. Locks(k) /\ Alone(t, k)
  BY <1>3, Before DEF Locks, Alone
<1>5. Scope(k)
  BY <1>0, <1>3, Before DEF Scope, Settling, Loaded, All, Revealing
<1>6. Progress(k)
  BY <1>0, <1>3, Before DEF Progress, Loaded, Scope, Settled, Revealing
<1> QED BY <1>1, <1>2, <1>4, <1>5, <1>6, OnlyTask

LEMMA FindStep ==
  ASSUME IInv, NEW t \in Slots, Find(t)
  PROVE  IInv'
<1>0. task[t].pc = "find" /\ UNCHANGED <<room, row, announced, used>>
  BY DEF Find
<1>1. ASSUME NEW m \in task[t].todo,
             task' = [task EXCEPT ![t].pc = "write", ![t].at = m, ![t].found = m \in Settled]
      PROVE  IInv'
  <2> DEFINE k == [task[t] EXCEPT !.pc = "write", !.at = m, !.found = m \in Settled]
  <2>1. m \in Members
    BY Before DEF Tasks
  <2>2. k \in Tasks
    <3>1. (m \in Settled) \in BOOLEAN
      OBVIOUS
    <3> QED BY <2>1, <3>1, Before, PCsFacts, FoundType
  <2>3. task' = [task EXCEPT ![t] = k]
    BY <1>1 DEF IInv, TypeOK
  <2>4. /\ k.pc = "write" /\ k.snap = task[t].snap /\ k.todo = task[t].todo
        /\ k.kind = task[t].kind /\ k.who = task[t].who /\ k.ins = task[t].ins
        /\ k.upd = task[t].upd /\ k.at = m /\ k.found = (m \in Settled)
    BY Before DEF Tasks
  <2> HIDE DEF k
  <2>5. Locks(k) /\ Alone(t, k)
    BY <2>4, Before DEF Locks, Alone
  <2>6. Scope(k)
    BY <1>0, <2>4, Before DEF Scope, Settling, Loaded, All, Revealing
  <2>7. Progress(k)
    BY <1>0, <1>1, <2>4, Before DEF Progress, Loaded, Settled, All
  <2> QED BY <1>0, <2>2, <2>3, <2>5, <2>6, <2>7, OnlyTask
<1>2. CASE task[t].todo = {} /\ task' = [task EXCEPT ![t].pc = "commit"]
  <2> DEFINE k == [task[t] EXCEPT !.pc = "commit"]
  <2>1. k \in Tasks
    BY Before, PCsFacts DEF Tasks
  <2>2. task' = [task EXCEPT ![t] = k]
    BY <1>2 DEF IInv, TypeOK
  <2>3. /\ k.pc = "commit" /\ k.snap = task[t].snap /\ k.todo = task[t].todo
        /\ k.kind = task[t].kind /\ k.who = task[t].who /\ k.ins = task[t].ins
        /\ k.upd = task[t].upd
    BY Before DEF Tasks
  <2> HIDE DEF k
  <2>4. Locks(k) /\ Alone(t, k)
    BY <2>3, Before DEF Locks, Alone
  <2>5. Scope(k)
    BY <1>0, <2>3, Before DEF Scope, Settling, Loaded, All, Revealing
  <2>6. Progress(k)
    BY <1>0, <1>2, <2>3, Before DEF Progress, Loaded, All
  <2> QED BY <1>0, <2>1, <2>2, <2>4, <2>5, <2>6, OnlyTask
<1> QED BY <1>1, <1>2 DEF Find

LEMMA VisitedFacts ==
  ASSUME IInv, NEW t \in Slots, task[t].pc = "write"
  PROVE  /\ task[t].at \in Members /\ Visited(t) \in Tasks
         /\ Visited(t).pc = "find" /\ Visited(t).todo = task[t].todo \ {task[t].at}
         /\ Visited(t).kind = task[t].kind /\ Visited(t).who = task[t].who
         /\ Visited(t).snap = task[t].snap
         /\ Visited(t).ins = task[t].ins /\ Visited(t).upd = task[t].upd
<1>1. task[t].at \in Members
  BY Before DEF Progress, Tasks
<1>2. (task[t].todo \ {task[t].at}) \in SUBSET Members
  BY Before DEF Tasks
<1>3. Visited(t) \in Tasks
  BY <1>2, Before, PCsFacts, VisitedType DEF Visited
<1>4. /\ Visited(t).pc = "find" /\ Visited(t).todo = task[t].todo \ {task[t].at}
      /\ Visited(t).kind = task[t].kind /\ Visited(t).who = task[t].who
      /\ Visited(t).snap = task[t].snap
      /\ Visited(t).ins = task[t].ins /\ Visited(t).upd = task[t].upd
  BY Before DEF Visited, Tasks
<1> QED BY <1>1, <1>3, <1>4

\* A visit that leaves k as the member's handler, with what it found or wrote.
LEMMA VisitStep ==
  ASSUME IInv, NEW t \in Slots, task[t].pc = "write", NEW k \in Tasks,
         task' = [task EXCEPT ![t] = k], UNCHANGED <<room, row, announced, used>>,
         k.pc = "find", k.todo = task[t].todo \ {task[t].at},
         k.kind = task[t].kind, k.who = task[t].who, k.snap = task[t].snap,
         \A m \in Members \ {task[t].at} : k.ins[m] = task[t].ins[m],
         row[task[t].at] # NoOne \/ k.ins[task[t].at] # NoOne,
         Locks(k), Alone(t, k)
  PROVE  IInv'
<1>1. Scope(k)
  BY Before DEF Scope, Settling, Loaded, All, Revealing
<1>2. Progress(k)
  BY Before DEF Progress, Loaded, All
<1> QED BY <1>1, <1>2, OnlyTask

LEMMA NewRowsFacts ==
  ASSUME IInv, NEW t \in Slots, task[t].pc = "write", NEW r \in NewRows(t)
  PROVE  /\ r \in Rows
         /\ task[t].at \in inTime \/ ~over => Forfeit(r)
<1>1. task[t].at \in task[t].snap => Forfeit(r)
  BY DEF NewRows, Forfeit
<1>2. CASE ForAll(t)
  <2>1. over /\ inTime \subseteq task[t].snap
    BY <1>2, Before DEF Scope, Settling, Loaded, ForAll, All, Revealing
  <2>2. r \in Rows
    BY <1>2 DEF NewRows, Rows
  <2> QED BY <1>1, <2>1, <2>2
<1>3. CASE ~ ForAll(t)
  <2>1. task[t].at = task[t].who /\ task[t].who \in task[t].snap
    BY <1>3, Before DEF Scope, Progress, Loaded, ForAll, All, Revealing
  <2>2. r \in Rows
    BY <1>3 DEF NewRows, Rows
  <2> QED BY <1>1, <2>1, <2>2
<1> QED BY <1>2, <1>3

LEMMA InsertStep ==
  ASSUME IInv, NEW t \in Slots, Insert(t)
  PROVE  IInv'
<1>0. /\ task[t].pc = "write" /\ ~ Locked(t, task[t].at) /\ row[task[t].at] = NoOne
      /\ UNCHANGED <<room, row, announced, used>>
  BY DEF Insert
<1>1. PICK r \in NewRows(t) :
        task' = [task EXCEPT ![t] = [Visited(t) EXCEPT !.ins[task[t].at] = r]]
  BY DEF Insert
<1>2. r \in Rows /\ (task[t].at \in inTime \/ ~over => Forfeit(r)) /\ r # NoOne
  BY <1>0, NewRowsFacts, NullAssumption
<1> DEFINE v == Visited(t)
           m == task[t].at
           k == [v EXCEPT !.ins[m] = r]
<1>3. /\ m \in Members /\ v \in Tasks /\ v.pc = "find" /\ v.todo = task[t].todo \ {m}
      /\ v.kind = task[t].kind /\ v.who = task[t].who /\ v.snap = task[t].snap
      /\ v.ins = task[t].ins /\ v.upd = task[t].upd
  BY <1>0, VisitedFacts
<1> HIDE DEF v
<1>4. /\ k \in Tasks /\ k.pc = "find" /\ k.todo = task[t].todo \ {m}
      /\ k.kind = task[t].kind /\ k.who = task[t].who /\ k.snap = task[t].snap
      /\ k.upd = task[t].upd
      /\ k.ins = [task[t].ins EXCEPT ![m] = r]
  BY <1>2, <1>3 DEF Tasks
<1>5. task' = [task EXCEPT ![t] = k]
  BY <1>1 DEF v
<1> HIDE DEF k
<1>6. task[t].ins \in [Members -> Rows \cup {NoOne}]
  BY Before DEF Tasks
<1>7. Locks(k)
  BY <1>0, <1>2, <1>3, <1>4, <1>6, Before DEF Locks
<1>8. Alone(t, k)
  BY <1>0, <1>4, <1>6, Before DEF Alone, Locked
<1> QED BY <1>0, <1>2, <1>3, <1>4, <1>5, <1>6, <1>7, <1>8, VisitStep

LEMMA UpdateStep ==
  ASSUME IInv, NEW t \in Slots, Update(t)
  PROVE  IInv'
<1>0. /\ task[t].pc = "write" /\ task[t].found
      /\ UNCHANGED <<room, row, announced, used>>
      /\ task' = [task EXCEPT ![t] = [Visited(t) EXCEPT !.upd = @ \cup {task[t].at}]]
  BY DEF Update
<1>1. row[task[t].at] # NoOne
  BY <1>0, Before DEF Progress
<1> DEFINE v == Visited(t)
           m == task[t].at
           k == [v EXCEPT !.upd = @ \cup {m}]
<1>2. /\ m \in Members /\ v \in Tasks /\ v.pc = "find" /\ v.todo = task[t].todo \ {m}
      /\ v.kind = task[t].kind /\ v.who = task[t].who /\ v.snap = task[t].snap
      /\ v.ins = task[t].ins /\ v.upd = task[t].upd
  BY <1>0, VisitedFacts
<1> HIDE DEF v
<1>3. /\ k \in Tasks /\ k.pc = "find" /\ k.todo = task[t].todo \ {m}
      /\ k.kind = task[t].kind /\ k.who = task[t].who /\ k.snap = task[t].snap
      /\ k.ins = task[t].ins /\ k.upd = task[t].upd \cup {m}
  BY <1>2 DEF Tasks
<1>4. task' = [task EXCEPT ![t] = k]
  BY <1>0 DEF v
<1> HIDE DEF k
<1>5. Locks(k)
  BY <1>1, <1>3, Before DEF Locks
<1>6. Alone(t, k)
  BY <1>3, Before DEF Alone
<1> QED BY <1>0, <1>1, <1>2, <1>3, <1>4, <1>5, <1>6, VisitStep

LEMMA KeepFoundStep ==
  ASSUME IInv, NEW t \in Slots, KeepFound(t)
  PROVE  IInv'
<1>0. /\ task[t].pc = "write" /\ task[t].found
      /\ UNCHANGED <<room, row, announced, used>>
      /\ task' = [task EXCEPT ![t] = Visited(t)]
  BY DEF KeepFound
<1>1. row[task[t].at] # NoOne
  BY <1>0, Before DEF Progress
<1> DEFINE v == Visited(t)
<1>2. /\ v \in Tasks /\ v.pc = "find" /\ v.todo = task[t].todo \ {task[t].at}
      /\ v.kind = task[t].kind /\ v.who = task[t].who /\ v.snap = task[t].snap
      /\ v.ins = task[t].ins /\ v.upd = task[t].upd
  BY <1>0, VisitedFacts
<1>3. task' = [task EXCEPT ![t] = v]
  BY <1>0
<1> HIDE DEF v
<1>4. Locks(v) /\ Alone(t, v)
  BY <1>2, Before DEF Locks, Alone
<1> QED BY <1>0, <1>1, <1>2, <1>3, <1>4, VisitStep

\* The handler of t goes on elsewhere, with the same fields.
LEMMA PcFacts ==
  ASSUME IInv, NEW t \in Slots, NEW pc \in PCs
  PROVE  LET k == [task[t] EXCEPT !.pc = pc] IN
         /\ k \in Tasks /\ k.pc = pc /\ k.kind = task[t].kind /\ k.who = task[t].who
         /\ k.snap = task[t].snap /\ k.todo = task[t].todo /\ k.at = task[t].at
         /\ k.found = task[t].found /\ k.ins = task[t].ins /\ k.upd = task[t].upd
BY Before DEF Tasks

LEMMA GiveUpTxStep ==
  ASSUME IInv, NEW t \in Slots, GiveUpTx(t)
  PROVE  IInv'
<1> DEFINE k == [task[t] EXCEPT !.pc = "load"]
<1>0. /\ task[t].pc = "giveup_tx" /\ task' = [task EXCEPT ![t] = k]
      /\ gaveUp' = gaveUp \cup {task[t].who}
      /\ UNCHANGED <<inTime, over, late, row, announced, used>>
  BY DEF GiveUpTx, Goto, IInv, TypeOK
<1>1. task[t].who \in Members /\ ~ All(task[t])
  BY <1>0, Before DEF Scope, Revealing
<1>2. /\ k \in Tasks /\ k.pc = "load" /\ k.kind = task[t].kind /\ k.who = task[t].who
      /\ k.ins = task[t].ins /\ k.upd = task[t].upd
  BY PcFacts, PCsFacts
<1> HIDE DEF k
<1>3. TypeOK' /\ RoomOK'
  BY <1>0, <1>1, <1>2 DEF IInv, TypeOK, RoomOK, used
<1>4. RowsOK'
  BY <1>0 DEF IInv, RowsOK
<1>5. ASSUME NEW u \in Slots
      PROVE  TaskOK(task[u])' /\ Alone(u, task[u])'
  <2>0. \A v \in Slots : task'[v].ins = task[v].ins
    BY <1>0, <1>2 DEF IInv, TypeOK
  <2>1. task'[u].ins = task[u].ins /\ task'[u].upd = task[u].upd
    BY <1>0, <1>2 DEF IInv, TypeOK
  <2>2. Locks(task[u])'
    BY <1>0, <2>1, Before DEF Locks
  <2>3. Alone(u, task[u])'
    BY <2>0, Before DEF Alone
  <2>4. CASE u = t
    <3>1. task'[u] = k
      BY <1>0, <2>4 DEF IInv, TypeOK
    <3>2. Scope(task[u])' /\ Progress(task[u])'
      BY <1>0, <1>1, <1>2, <3>1 DEF Scope, Progress, All, Settling, Loaded, Revealing
    <3> QED BY <2>2, <2>3, <3>2 DEF TaskOK
  <2>5. CASE u # t
    <3>1. task'[u] = task[u]
      BY <1>0, <2>5 DEF IInv, TypeOK
    <3>2. Progress(task[u])' /\ Scope(task[u])'
      BY <1>0, <3>1, Before DEF Progress, Scope, All, Revealing
    <3> QED BY <2>2, <2>3, <3>2 DEF TaskOK
  <2> QED BY <2>4, <2>5
<1> QED BY <1>3, <1>4, <1>5 DEF IInv

LEMMA EndDBStep ==
  ASSUME IInv, NEW t \in Slots, EndDB(t)
  PROVE  IInv'
<1> DEFINE k == [task[t] EXCEPT !.pc = "load"]
<1>0. /\ task[t].pc = "end_db" /\ task' = [task EXCEPT ![t] = k]
      /\ over' = TRUE /\ inTime' = IF over THEN inTime ELSE gaveUp
      /\ UNCHANGED <<gaveUp, late, row, announced, used>>
  BY DEF EndDB, Goto, IInv, TypeOK
<1>1. task[t].kind = "end"
  BY <1>0, Before DEF Scope, Revealing
<1>2. /\ k \in Tasks /\ k.pc = "load" /\ k.kind = task[t].kind /\ k.who = task[t].who
      /\ k.ins = task[t].ins /\ k.upd = task[t].upd
  BY PcFacts, PCsFacts
<1> HIDE DEF k
<1>3. TypeOK' /\ RoomOK'
  BY <1>0, <1>2 DEF IInv, TypeOK, RoomOK, used
<1>4. RowsOK'
  BY <1>0 DEF IInv, RowsOK
<1>5. ASSUME NEW u \in Slots
      PROVE  TaskOK(task[u])' /\ Alone(u, task[u])'
  <2>0. \A v \in Slots : task'[v].ins = task[v].ins
    BY <1>0, <1>2 DEF IInv, TypeOK
  <2>1. task'[u].ins = task[u].ins /\ task'[u].upd = task[u].upd
    BY <1>0, <1>2 DEF IInv, TypeOK
  <2>2. Locks(task[u])'
    BY <1>0, <2>1, Before DEF Locks
  <2>3. Alone(u, task[u])'
    BY <2>0, Before DEF Alone
  <2>4. CASE u = t
    <3>1. task'[u] = k
      BY <1>0, <2>4 DEF IInv, TypeOK
    <3>2. Scope(task[u])' /\ Progress(task[u])'
      BY <1>0, <1>1, <1>2, <3>1 DEF Scope, Progress, All, Settling, Loaded, Revealing
    <3> QED BY <2>2, <2>3, <3>2 DEF TaskOK
  <2>5. CASE u # t
    <3>1. task'[u] = task[u]
      BY <1>0, <2>5 DEF IInv, TypeOK
    <3>2. Progress(task[u])'
      BY <1>0, <3>1, Before DEF Progress, All
    <3>3. Scope(task[u])'
      BY <1>0, <3>1, Before DEF Scope, All, Settling, Loaded, Revealing
    <3> QED BY <2>2, <2>3, <3>2, <3>3 DEF TaskOK
  <2> QED BY <2>4, <2>5
<1> QED BY <1>3, <1>4, <1>5 DEF IInv

LEMMA CommitRows ==
  ASSUME IInv, NEW t \in Slots, Commit(t)
  PROVE  /\ row' \in [Members -> Rows \cup {NoOne}]
         /\ \A m \in Members : row[m] # NoOne =>
              /\ row'[m] # NoOne /\ row'[m].basis = row[m].basis
              /\ row'[m].items = row[m].items /\ (row[m].time => row'[m].time)
         /\ \A m \in Members : task[t].ins[m] # NoOne => row'[m] = task[t].ins[m]
         /\ \A m \in Members : row[m] = NoOne /\ task[t].ins[m] = NoOne => row'[m] = NoOne
<1> DEFINE k == task[t]
<1>0. row' = [m \in Members |-> IF k.ins[m] # NoOne THEN k.ins[m]
                               ELSE IF m \in k.upd THEN [row[m] EXCEPT !.time = TRUE]
                               ELSE row[m]]
  BY DEF Commit
<1>1. k.ins \in [Members -> Rows \cup {NoOne}] /\ row \in [Members -> Rows \cup {NoOne}]
  BY Before DEF Tasks, IInv, TypeOK
<1>2. /\ \A m \in Members : k.ins[m] # NoOne => row[m] = NoOne
      /\ \A m \in k.upd : row[m] # NoOne
  BY Before DEF Locks
<1> HIDE DEF k
<1>3. ASSUME NEW m \in Members, row[m] # NoOne
      PROVE  /\ row'[m] \in Rows /\ row'[m].basis = row[m].basis
             /\ row'[m].items = row[m].items /\ (row[m].time => row'[m].time)
  <2>1. row[m] \in Rows /\ k.ins[m] = NoOne
    BY <1>1, <1>2, <1>3
  <2>2. row'[m] = row[m] \/ row'[m] = [row[m] EXCEPT !.time = TRUE]
    BY <1>0, <2>1
  <2> QED BY <2>1, <2>2 DEF Rows
<1>4. ASSUME NEW m \in Members, row[m] = NoOne
      PROVE  row'[m] = k.ins[m]
  BY <1>0, <1>2, <1>4
<1>5. row' \in [Members -> Rows \cup {NoOne}]
  BY <1>0, <1>1, <1>3, <1>4
<1> QED BY <1>1, <1>2, <1>3, <1>4, <1>5, NullAssumption DEF k

LEMMA CommitStep ==
  ASSUME IInv, NEW t \in Slots, Commit(t)
  PROVE  IInv'
<1> DEFINE k == AfterSettlement(t)
<1>0. /\ task[t].pc = "commit" /\ task' = [task EXCEPT ![t] = k]
      /\ UNCHANGED <<gaveUp, inTime, over, late, announced, faults, crashes>>
  BY DEF Commit, room, used
<1>1. /\ k \in Tasks /\ k.pc \in {"idle", "reload"}
      /\ k.pc = "reload" => task[t].kind = "result"
      /\ k.upd = {} /\ k.ins = [m \in Members |-> NoOne]
  BY IdleType, PCsFacts DEF AfterSettlement, Tasks, IdleTask, RequestKinds
<1> HIDE DEF k
<1>2. TypeOK'
  BY <1>0, <1>1, CommitRows DEF IInv, TypeOK
<1>3. RoomOK'
  BY <1>0 DEF IInv, RoomOK
<1>4. RowsOK'
  <2> SUFFICES ASSUME NEW m \in Members, row'[m] # NoOne, m \in inTime \/ ~over
               PROVE  Forfeit(row'[m])
    BY <1>0 DEF RowsOK
  <2>1. CASE row[m] # NoOne
    BY <2>1, CommitRows DEF IInv, RowsOK, Forfeit
  <2>2. CASE row[m] = NoOne
    BY <2>2, CommitRows, Before DEF Locks
  <2> QED BY <2>1, <2>2
<1>5. ASSUME NEW u \in Slots
      PROVE  TaskOK(task[u])' /\ Alone(u, task[u])'
  <2>1. CASE u = t
    <3>1. task'[u] = k
      BY <1>0, <2>1 DEF IInv, TypeOK
    <3>2. Locks(task[u])' /\ Scope(task[u])' /\ Alone(u, task[u])'
      BY <1>1, <3>1 DEF Locks, Scope, Alone, Settling, Loaded, Revealing
    <3>3. k.pc = "reload" => \A m \in Members : row'[m] # NoOne
      BY <1>0, <1>1, CommitRows, Before DEF Progress, Loaded, All
    <3>4. Progress(task[u])'
      BY <1>1, <3>1, <3>3 DEF Progress, Loaded
    <3> QED BY <3>2, <3>4 DEF TaskOK
  <2>2. CASE u # t
    <3>1. task'[u] = task[u]
      BY <1>0, <2>2 DEF IInv, TypeOK
    <3>2. Scope(task[u])'
      BY <1>0, <3>1, Before DEF Scope, All, Revealing
    <3>3. \A m \in Members : task[u].ins[m] # NoOne => task[t].ins[m] = NoOne
      BY <2>2, Before DEF Alone
    <3>4. task[u].upd \subseteq Members /\ task[u].at \in Members \cup {NoOne}
          /\ task[u].todo \subseteq Members
      BY Before DEF Tasks
    <3>5. Locks(task[u])'
      BY <1>0, <3>1, <3>3, <3>4, CommitRows, Before DEF Locks
    <3>6. Progress(task[u])'
      BY <1>0, <3>1, <3>4, CommitRows, Before DEF Progress, All
    <3>7. Alone(u, task[u])'
      BY <1>0, <1>1, <3>1, Before DEF Alone, IInv, TypeOK
    <3> QED BY <3>2, <3>5, <3>6, <3>7 DEF TaskOK
  <2> QED BY <2>1, <2>2
<1> QED BY <1>2, <1>3, <1>4, <1>5 DEF IInv

-----------------------------------------------------------------------------
(* What makes penalties public *)

LEMMA RevealRows ==
  ASSUME IInv, NEW ms, Reveal(ms)
  PROVE  /\ row' \in [Members -> Rows \cup {NoOne}]
         /\ \A m \in Members : row[m] = NoOne => row'[m] = NoOne
         /\ \A m \in Members : row[m] # NoOne =>
              /\ row'[m] # NoOne /\ row'[m].basis = row[m].basis /\ row'[m].time = row[m].time
              /\ (row'[m].items = row[m].items \/ (row[m].items = "hidden" /\ row'[m].items = "public"))
<1>1. row \in [Members -> Rows \cup {NoOne}]
  BY DEF IInv, TypeOK
<1>2. ASSUME NEW m \in Members, row[m] = NoOne
      PROVE  row'[m] = NoOne
  BY <1>2 DEF Reveal, Hidden, Settled
<1>3. ASSUME NEW m \in Members, row[m] # NoOne
      PROVE  /\ row'[m] \in Rows
             /\ row'[m].basis = row[m].basis /\ row'[m].time = row[m].time
             /\ (row'[m].items = row[m].items \/ (row[m].items = "hidden" /\ row'[m].items = "public"))
  <2>1. row[m] \in Rows
    BY <1>1, <1>3
  <2>2. CASE m \in Hidden \cap ms
    <3>1. row'[m] = [row[m] EXCEPT !.items = "public"] /\ row[m].items = "hidden"
      BY <2>2 DEF Reveal, Hidden
    <3> QED BY <2>1, <3>1 DEF Rows
  <2>3. CASE m \notin Hidden \cap ms
    BY <2>1, <2>3 DEF Reveal
  <2> QED BY <2>2, <2>3
<1>4. row' \in [Members -> Rows \cup {NoOne}]
  <2>1. \A m \in Members : row'[m] \in Rows \cup {NoOne}
    BY <1>2, <1>3
  <2>2. DOMAIN row' = Members /\ row' = [m \in DOMAIN row' |-> row'[m]]
    BY DEF Reveal
  <2> HIDE DEF Reveal
  <2> QED BY <2>1, <2>2
<1> QED BY <1>2, <1>3, <1>4, NullAssumption

LEMMA RevealStep ==
  ASSUME IInv, NEW t \in Slots, NEW ms, Reveal(ms), NEW k \in Tasks,
         task' = [task EXCEPT ![t] = k], TaskOK(k), Alone(t, k),
         UNCHANGED <<room, announced, used>>
  PROVE  IInv'
<1>1. announced' \subseteq Members
  BY DEF IInv, TypeOK
<1>2. /\ row' \in [Members -> Rows \cup {NoOne}]
      /\ \A m \in Members : row'[m] = NoOne <=> row[m] = NoOne
      /\ \A m \in Members : row[m] # NoOne => Forfeit(row'[m]) = Forfeit(row[m])
  BY RevealRows DEF Forfeit
<1> QED BY <1>1, <1>2, LocalStep

LEMMA RevealOwnStep ==
  ASSUME IInv, NEW t \in Slots, NEW from \in {"spin_reveal", "exit_reveal"}, RevealOwn(t, from)
  PROVE  IInv'
<1>0. task[t].pc = from /\ Reveal({task[t].who}) /\ UNCHANGED <<room, announced, used>>
  BY DEF RevealOwn
<1>1. CASE task[t].who \in Hidden
  <2> DEFINE k == [task[t] EXCEPT !.pc = "announce"]
  <2>1. task' = [task EXCEPT ![t] = k]
    BY <1>1 DEF RevealOwn, IInv, TypeOK
  <2>2. /\ k \in Tasks /\ k.pc = "announce" /\ k.ins = task[t].ins /\ k.upd = task[t].upd
        /\ k.who = task[t].who
    BY PcFacts, PCsFacts
  <2> HIDE DEF k
  <2>3. TaskOK(k) /\ Alone(t, k)
    BY <1>0, <2>2, Before DEF TaskOK, Locks, Scope, Progress, Alone, Settling, Loaded, Revealing
  <2> QED BY <1>0, <2>1, <2>2, <2>3, RevealStep
<1>2. CASE task[t].who \notin Hidden
  <2>1. task' = [task EXCEPT ![t] = IdleTask]
    BY <1>2 DEF RevealOwn, IInv, TypeOK
  <2> QED BY <1>0, <2>1, IdleType, IdleOK, RevealStep
<1> QED BY <1>1, <1>2

LEMMA AdvanceStep ==
  ASSUME IInv, NEW t \in Slots, Advance(t)
  PROVE  IInv'
<1>0. announced \subseteq Members
  BY DEF IInv, TypeOK
<1>1. CASE Conflict(t)
  BY <1>0, <1>1, ReturnStep DEF Conflict, Rollback
<1>2. CASE TxTimeout(t)
  BY <1>0, <1>2, ReturnStep DEF TxTimeout, Rollback
<1>3. CASE Reload(t)
  <2> DEFINE k == [task[t] EXCEPT !.pc = "expire", !.seen = Hidden]
  <2>0. Hidden \in SUBSET Members
    BY DEF Hidden, Settled
  <2>1. task[t].pc = "reload" /\ task' = [task EXCEPT ![t] = k]
        /\ UNCHANGED <<room, row, announced, used>>
    BY <1>3 DEF Reload, IInv, TypeOK
  <2>2. /\ k \in Tasks /\ k.pc = "expire" /\ k.ins = task[t].ins /\ k.upd = task[t].upd
    BY <2>0, Before, PCsFacts DEF Tasks
  <2> HIDE DEF k
  <2>3. Locks(k) /\ Scope(k) /\ Progress(k) /\ Alone(t, k)
    BY <2>1, <2>2, Before DEF Locks, Scope, Progress, Alone, Settling, Loaded, Revealing
  <2> QED BY <2>1, <2>2, <2>3, OnlyTask
<1>4. CASE Expire(t)
  <2>1. CASE late
    BY <1>4, <2>1, IdleType, IdleOK, RevealStep DEF Expire, Return
  <2>2. CASE ~ late
    BY <1>0, <1>4, <2>2, ReturnStep DEF Expire
  <2> QED BY <2>1, <2>2
<1>5. CASE SpinReveal(t)
  BY <1>5, RevealOwnStep DEF SpinReveal
<1>6. CASE ExitReveal(t)
  BY <1>6, RevealOwnStep DEF ExitReveal
<1>7. CASE ExitFind(t)
  <2>1. CASE task[t].who \in Hidden
    <3> DEFINE k == [task[t] EXCEPT !.pc = "exit_reveal"]
    <3>1. task' = [task EXCEPT ![t] = k] /\ UNCHANGED <<room, row, announced, used>>
      BY <1>7, <2>1 DEF ExitFind, IInv, TypeOK
    <3>2. /\ k \in Tasks /\ k.pc = "exit_reveal" /\ k.ins = task[t].ins /\ k.upd = task[t].upd
          /\ k.who = task[t].who
      BY PcFacts, PCsFacts
    <3> HIDE DEF k
    <3>3. Locks(k) /\ Scope(k) /\ Progress(k) /\ Alone(t, k)
      BY <1>7, <3>2, Before DEF ExitFind, Locks, Scope, Progress, Alone, Settling, Loaded, Revealing
    <3> QED BY <3>1, <3>2, <3>3, OnlyTask
  <2>2. CASE task[t].who \notin Hidden
    BY <1>0, <1>7, <2>2, ReturnStep DEF ExitFind
  <2> QED BY <2>1, <2>2
<1>8. CASE Announce(t)
  <2>1. announced' \subseteq Members
    BY <1>0, <1>8, Before DEF Announce, Scope, Revealing
  <2> QED BY <1>8, <2>1, ReturnStep DEF Announce
<1>9. CASE JobReveal(t)
  BY <1>9, IdleType, IdleOK, RevealStep DEF JobReveal, Return
<1> QED
  BY <1>1, <1>2, <1>3, <1>4, <1>5, <1>6, <1>7, <1>8, <1>9, GiveUpTxStep, EndDBStep, LoadStep,
     ProcessedStep, FindStep, InsertStep, UpdateStep, KeepFoundStep, CommitStep DEF Advance

-----------------------------------------------------------------------------
(* The invariant holds in every state. *)

LEMMA InitIInv == Init => IInv
<1> SUFFICES ASSUME Init PROVE IInv
  OBVIOUS
<1>1. TypeOK
  BY IdleType DEF Init, TypeOK
<1>2. RoomOK /\ RowsOK
  BY DEF Init, RoomOK, RowsOK
<1>3. ASSUME NEW t \in Slots
      PROVE  TaskOK(task[t]) /\ Alone(t, task[t])
  <2>1. task[t] = IdleTask
    BY DEF Init
  <2> QED BY <2>1, IdleOK
<1> QED BY <1>1, <1>2, <1>3 DEF IInv

LEMMA SameFields ==
  ASSUME IInv, TypeOK', UNCHANGED <<gaveUp, inTime, over, row, task>>
  PROVE  IInv'
<1>1. RoomOK' /\ RowsOK'
  BY DEF IInv, RoomOK, RowsOK
<1>2. ASSUME NEW t \in Slots
      PROVE  TaskOK(task[t])' /\ Alone(t, task[t])'
  BY Before DEF TaskOK, Locks, Scope, Progress, Alone, All
<1> QED BY <1>1, <1>2 DEF IInv

LEMMA NextIInv == IInv /\ [Next]_vars => IInv'
<1> SUFFICES ASSUME IInv, [Next]_vars PROVE IInv'
  OBVIOUS
<1>0. TypeOK
  BY DEF IInv
<1>1. ASSUME NEW t \in Slots, Fail(t) PROVE IInv'
  <2>1. /\ Return(t) /\ UNCHANGED <<room, row, announced, crashes>>
        /\ faults' = faults + 1
    BY <1>1 DEF Fail, Rollback
  <2>2. TypeOK'
    BY <1>0, <2>1, IdleType DEF TypeOK, room, Return
  <2>3. RoomOK' /\ RowsOK'
    BY <2>1 DEF room, IInv, RoomOK, RowsOK
  <2>4. ASSUME NEW u \in Slots
        PROVE  TaskOK(task[u])' /\ Alone(u, task[u])'
    <3>1. task'[u] = IF u = t THEN IdleTask ELSE task[u]
      BY <1>0, <2>1 DEF TypeOK, Return
    <3>2. TaskOK(task'[u]) /\ UNCHANGED <<gaveUp, inTime, over, row>>
      BY <2>1, <3>1, IdleOK, Before DEF TaskOK, room
    <3>3. TaskOK(task[u])'
      BY <3>2 DEF TaskOK, Locks, Scope, Progress, All
    <3>4. \A v \in Slots, m \in Members : task'[v].ins[m] # NoOne => task[v].ins[m] # NoOne
      BY <1>0, <2>1 DEF TypeOK, Return, IdleTask
    <3>5. Alone(u, task[u])'
      BY <3>4, Before DEF Alone
    <3> QED BY <3>3, <3>5
  <2> QED BY <2>2, <2>3, <2>4 DEF IInv
<1>2. CASE TimeUp
  <2>1. TypeOK'
    BY <1>0, <1>2 DEF TypeOK, TimeUp, used
  <2> QED BY <1>2, <2>1, SameFields DEF TimeUp
<1>3. CASE Crash
  <2>1. TypeOK'
    BY <1>0, <1>3, IdleType DEF TypeOK, Crash, room
  <2>2. RoomOK' /\ RowsOK'
    BY <1>3 DEF Crash, room, IInv, RoomOK, RowsOK
  <2>3. ASSUME NEW u \in Slots
        PROVE  TaskOK(task[u])' /\ Alone(u, task[u])'
    <3>1. task'[u] = IdleTask
      BY <1>3 DEF Crash
    <3> QED BY <3>1 DEF TaskOK, Locks, Scope, Progress, Alone, IdleTask, Settling, Loaded, Revealing
  <2> QED BY <2>1, <2>2, <2>3 DEF IInv
<1>4. CASE UNCHANGED vars
  <2>1. TypeOK'
    BY <1>0, <1>4 DEF vars, room, used, TypeOK
  <2> QED BY <1>4, <2>1, SameFields DEF vars, room
<1> QED BY <1>1, <1>2, <1>3, <1>4, ArriveStep, AdvanceStep DEF Next

\* Every reachable state satisfies the inductive invariant, whatever handlers of
\* penalty.service.ts, roulette.service.ts and result.service.ts interleave.
THEOREM InvariantHolds == Spec => []IInv
BY InitIInv, NextIInv, PTL DEF Spec

\* Types, for any number of members and handlers.
THEOREM TypeCorrect == Spec => []TypeOK
<1>1. IInv => TypeOK
  BY DEF IInv
<1> QED BY <1>1, InvariantHolds, PTL

\* Whoever has given up when endSession records the end is drawn the most and
\* pays with the rest of the session, whichever of the four settlements reaches
\* them first and whichever fail (calculateAndSave, calculateAndSaveForGiveUp).
THEOREM ForfeitsInTime == Spec => []ForfeitInTime
<1>1. IInv => ForfeitInTime
  BY DEF IInv, RowsOK, Forfeit, ForfeitInTime, Settled
<1> QED BY <1>1, InvariantHolds, PTL

\* getResult never builds a page of a room in which somebody is not settled.
THEOREM ResultsComplete == Spec => []ResultComplete
<1>1. IInv => ResultComplete
  BY DEF IInv, TaskOK, Progress, ResultComplete, Settled
<1> QED BY <1>1, InvariantHolds, PTL

-----------------------------------------------------------------------------
(* The refinement *)

Basis == [m \in Members |-> IF row[m] = NoOne THEN "open" ELSE row[m].basis]
Drawn == [m \in Members |-> IF row[m] = NoOne THEN "none" ELSE row[m].items]

LEMMA LedgerTypes ==
  ASSUME NEW r \in [Members -> Rows \cup {NoOne}]
  PROVE  /\ [m \in Members |-> IF r[m] = NoOne THEN "open" ELSE r[m].basis]
              \in [Members -> Ledger!Bases]
         /\ [m \in Members |-> IF r[m] = NoOne THEN "none" ELSE r[m].items]
              \in [Members -> Ledger!Items]
BY DEF Ledger!Bases, Ledger!Items, Rows

\* A step that leaves the rows alone is a stutter of the ledger.
LEMMA LedgerStutter ==
  ASSUME UNCHANGED row
  PROVE  UNCHANGED Ledger!vars
BY DEF Ledger!vars

LEMMA LedgerCommit ==
  ASSUME IInv, IInv', NEW t \in Slots, Commit(t)
  PROVE  Ledger!Draw
<1>1. Basis' \in [Members -> Ledger!Bases] /\ Drawn' \in [Members -> Ledger!Items]
  <2>1. row' \in [Members -> Rows \cup {NoOne}]
    BY DEF IInv, TypeOK
  <2> QED BY <2>1, LedgerTypes DEF Basis, Drawn
<1>2. ASSUME NEW m \in Members
      PROVE  \/ Basis'[m] = Basis[m] /\ Drawn'[m] = Drawn[m]
             \/ Basis[m] = "open" /\ Basis'[m] # "open"
  <2>1. CASE row[m] # NoOne
    BY <2>1, CommitRows DEF Basis, Drawn
  <2>2. CASE row[m] = NoOne /\ row'[m] = NoOne
    BY <2>2 DEF Basis, Drawn
  <2>3. CASE row[m] = NoOne /\ row'[m] # NoOne
    <3>1. row'[m] \in Rows
      BY <2>3 DEF IInv, TypeOK
    <3> QED BY <2>3, <3>1 DEF Basis, Rows
  <2> QED BY <2>1, <2>2, <2>3
<1> QED BY <1>1, <1>2 DEF Ledger!Draw, Basis, Drawn

LEMMA LedgerReveal ==
  ASSUME IInv, IInv', NEW ms, Reveal(ms)
  PROVE  Ledger!Publish
<1>1. Drawn' \in [Members -> Ledger!Items]
  <2>1. row' \in [Members -> Rows \cup {NoOne}]
    BY DEF IInv, TypeOK
  <2> QED BY <2>1, LedgerTypes DEF Basis, Drawn
<1>2. ASSUME NEW m \in Members
      PROVE  /\ Drawn'[m] # Drawn[m] => Drawn[m] = "hidden" /\ Drawn'[m] = "public"
             /\ Basis'[m] = Basis[m]
  BY RevealRows DEF Basis, Drawn
<1>3. Basis' = Basis
  BY <1>2 DEF Basis
<1> QED BY <1>1, <1>2, <1>3 DEF Ledger!Publish, Basis, Drawn

LEMMA LedgerStep == IInv /\ IInv' /\ [Next]_vars => [Ledger!Next]_(Ledger!vars)
<1> SUFFICES ASSUME IInv, IInv', [Next]_vars, row' # row PROVE Ledger!Next
  BY LedgerStutter
<1>1. ASSUME NEW t \in Slots, Arrive(t) PROVE FALSE
  BY <1>1 DEF Arrive, End, Result, GiveUp, GiveUpResult, Spin, Exit, Job, Issue
<1>2. ASSUME NEW t \in Slots, Fail(t) PROVE FALSE
  BY <1>2 DEF Fail, Rollback
<1>3. ASSUME NEW t \in Slots, Advance(t) PROVE Ledger!Next
  <2>1. CASE Commit(t)
    BY <2>1, LedgerCommit DEF Ledger!Next
  <2>2. CASE Expire(t)
    <3>1. Reveal(Members)
      BY <2>2 DEF Expire
    <3> QED BY <3>1, LedgerReveal DEF Ledger!Next
  <2>3. CASE SpinReveal(t) \/ ExitReveal(t) \/ JobReveal(t)
    <3>1. Reveal({task[t].who})
      BY <2>3 DEF SpinReveal, ExitReveal, JobReveal, RevealOwn
    <3> QED BY <3>1, LedgerReveal DEF Ledger!Next
  <2> QED
    BY <1>3, <2>1, <2>2, <2>3 DEF Advance, GiveUpTx, EndDB, Load, Processed, Find, Insert, Update,
       KeepFound, Conflict, TxTimeout, Rollback, Reload, ExitFind, Announce
<1> QED BY <1>1, <1>2, <1>3 DEF Next, TimeUp, Crash, vars

\* A member's penalties are drawn once, never drawn again, and once public stay
\* public, whatever settlements and reveals interleave, fail or are cut short by
\* a restart: PenaltySettlement implements PenaltyLedger.
THEOREM ImplementsLedger == Spec => KeepsLedger
<1>1. Init => Ledger!Init
  BY DEF Init, Ledger!Init
<1> QED BY <1>1, InvariantHolds, LedgerStep, PTL DEF Spec, KeepsLedger, Ledger!Spec

-----------------------------------------------------------------------------
(* Who tells the room: of the spins and exits of one member, one gets as far *)
(* as the message, and a page that reveals by the clock knows whom.          *)

IsPublic(m) == row[m] # NoOne /\ row[m].items = "public"
Telling(t)  == task[t].pc = "announce"

Heard ==
  /\ \A t \in Slots : Telling(t) => IsPublic(task[t].who) /\ task[t].who \notin announced
  /\ \A t, u \in Slots : t # u /\ Telling(t) /\ Telling(u) => task[t].who # task[u].who
  /\ \A m \in announced : IsPublic(m)
  /\ \A t \in Slots : task[t].pc = "expire" => Hidden \subseteq task[t].seen

LEMMA RowsKept ==
  ASSUME IInv, [Next]_vars
  PROVE  \A m \in Members : row[m] # NoOne =>
           /\ row'[m] # NoOne
           /\ row'[m].items = row[m].items \/ (row[m].items = "hidden" /\ row'[m].items = "public")
<1> SUFFICES ASSUME row' # row
             PROVE  \A m \in Members : row[m] # NoOne =>
                      /\ row'[m] # NoOne
                      /\ row'[m].items = row[m].items
                           \/ (row[m].items = "hidden" /\ row'[m].items = "public")
  OBVIOUS
<1>1. ASSUME NEW t \in Slots, Arrive(t) PROVE FALSE
  BY <1>1 DEF Arrive, End, Result, GiveUp, GiveUpResult, Spin, Exit, Job, Issue
<1>2. ASSUME NEW t \in Slots, Fail(t) PROVE FALSE
  BY <1>2 DEF Fail, Rollback
<1>3. CASE \E t \in Slots : Commit(t)
  BY <1>3, CommitRows
<1>4. CASE \E ms : Reveal(ms)
  BY <1>4, RevealRows
<1>5. ASSUME NEW t \in Slots, Advance(t) PROVE Commit(t) \/ \E ms : Reveal(ms)
  <2>1. CASE Expire(t)
    BY <2>1 DEF Expire
  <2>2. CASE SpinReveal(t) \/ ExitReveal(t) \/ JobReveal(t)
    BY <2>2 DEF SpinReveal, ExitReveal, JobReveal, RevealOwn
  <2> QED
    BY <1>5, <2>1, <2>2 DEF Advance, GiveUpTx, EndDB, Load, Processed, Find, Insert, Update,
       KeepFound, Conflict, TxTimeout, Rollback, Reload, ExitFind, Announce
<1> QED BY <1>1, <1>2, <1>3, <1>4, <1>5 DEF Next, TimeUp, Crash, vars

\* What a step does to a page that is about to reveal: nothing is hidden anew.
LEMMA HiddenShrinks ==
  ASSUME IInv, [Next]_vars, \A m \in Members : row[m] # NoOne
  PROVE  Hidden' \subseteq Hidden
<1>1. ASSUME NEW m \in Hidden' PROVE m \in Hidden
  <2>1. m \in Members /\ row'[m].items = "hidden"
    BY <1>1 DEF Hidden, Settled
  <2>2. row[m] # NoOne /\ row[m].items = "hidden"
    BY <2>1, RowsKept
  <2> QED BY <2>1, <2>2 DEF Hidden, Settled
<1> QED BY <1>1

\* A step after which nobody new announces and no new page is about to reveal.
LEMMA QuietStep ==
  ASSUME IInv, Heard, [Next]_vars, announced' = announced,
         \A u \in Slots : task'[u] = task[u] \/ task'[u].pc \notin {"announce", "expire"}
  PROVE  Heard'
<1>1. \A m \in Members : IsPublic(m) => IsPublic(m)'
  BY RowsKept DEF IsPublic
<1>2. ASSUME NEW u \in Slots, Telling(u)' PROVE Telling(u) /\ task'[u] = task[u] /\ task[u].who \in Members
  BY <1>2, Before DEF Telling, Scope, Revealing
<1>3. ASSUME NEW u \in Slots, task'[u].pc = "expire" PROVE Hidden' \subseteq task'[u].seen
  <2>1. task'[u] = task[u]
    BY <1>3
  <2>2. \A m \in Members : row[m] # NoOne
    BY <1>3, <2>1, Before DEF Progress
  <2> QED BY <1>3, <2>1, <2>2, HiddenShrinks DEF Heard
<1>4. announced \subseteq Members
  BY DEF IInv, TypeOK
<1>5. \A u \in Slots : Telling(u)' => IsPublic(task[u].who)' /\ task'[u].who \notin announced'
  <2>1. ASSUME NEW u \in Slots, Telling(u)'
        PROVE  (row'[task'[u].who] # NoOne /\ row'[task'[u].who].items = "public") /\ task'[u].who \notin announced'
    BY <1>1, <1>2, <2>1 DEF Heard, IsPublic
  <2> QED BY <2>1 DEF IsPublic
<1>6. \A t, u \in Slots : t # u /\ Telling(t)' /\ Telling(u)' => task'[t].who # task'[u].who
  BY <1>2 DEF Heard
<1>7. \A m \in announced' : IsPublic(m)'
  BY <1>1, <1>4 DEF Heard
<1> QED BY <1>3, <1>5, <1>6, <1>7 DEF Heard

\* updateMany with a count above zero: nobody else was as fast.
LEMMA WinStep ==
  ASSUME IInv, Heard, NEW t \in Slots, NEW from \in {"spin_reveal", "exit_reveal"},
         RevealOwn(t, from), [Next]_vars
  PROVE  Heard'
<1>0. task[t].pc = from /\ announced' = announced /\ task[t].who \in Members
  BY Before DEF RevealOwn, Scope, Revealing
<1>1. CASE task[t].who \notin Hidden
  <2>1. \A u \in Slots : task'[u] = task[u] \/ task'[u].pc = "idle"
    BY <1>1 DEF RevealOwn, IdleTask, IInv, TypeOK
  <2> QED BY <1>0, <2>1, QuietStep
<1>2. CASE task[t].who \in Hidden
  <2> DEFINE w == task[t].who
  <2>1. /\ \A u \in Slots \ {t} : task'[u] = task[u]
        /\ task'[t].pc = "announce" /\ task'[t].who = w
    BY <1>2, Before, PcFacts DEF RevealOwn, IInv, TypeOK, Tasks
  <2>2. ~ IsPublic(w) /\ row[w] # NoOne
    BY <1>2 DEF Hidden, Settled, IsPublic
  <2>3. row'[w] # NoOne /\ row'[w].items = "public"
    <3>1. row'[w] = [row[w] EXCEPT !.items = "public"] /\ row[w] \in Rows
      BY <1>0, <1>2, <2>2 DEF RevealOwn, Reveal, IInv, TypeOK
    <3> QED BY <3>1, <2>2, RowsKept, <1>0 DEF Rows
  <2>4. w \notin announced /\ \A u \in Slots : Telling(u) => task[u].who # w
    BY <2>2 DEF Heard
  <2>5. \A m \in Members : IsPublic(m) => row'[m] # NoOne /\ row'[m].items = "public"
    BY RowsKept DEF IsPublic
  <2>6. \A u \in Slots \ {t} : Telling(u)' => Telling(u) /\ task[u].who \in Members
    BY <2>1, Before DEF Telling, Scope, Revealing
  <2>7. ASSUME NEW u \in Slots, Telling(u)'
        PROVE  (row'[task'[u].who] # NoOne /\ row'[task'[u].who].items = "public") /\ task'[u].who \notin announced'
    <3>1. CASE u = t
      BY <1>0, <2>1, <2>3, <2>4, <3>1
    <3>2. CASE u # t
      BY <1>0, <2>1, <2>5, <2>6, <2>7, <3>2 DEF Heard
    <3> QED BY <3>1, <3>2
  <2>8. \A u, v \in Slots : u # v /\ Telling(u)' /\ Telling(v)' => task'[u].who # task'[v].who
    BY <2>1, <2>4, <2>6 DEF Heard
  <2>9. \A m \in announced' : IsPublic(m)'
    <3>1. announced \subseteq Members
      BY DEF IInv, TypeOK
    <3> QED BY <1>0, <2>5, <3>1 DEF Heard, IsPublic
  <2>10. ASSUME NEW u \in Slots, task'[u].pc = "expire" PROVE Hidden' \subseteq task'[u].seen
    <3>1. u # t /\ task'[u] = task[u]
      BY <2>1, <2>10
    <3>2. \A m \in Members : row[m] # NoOne
      BY <2>10, <3>1, Before DEF Progress
    <3> QED BY <2>10, <3>1, <3>2, HiddenShrinks DEF Heard
  <2>11. \A u \in Slots : Telling(u)' => IsPublic(task[u].who)' /\ task'[u].who \notin announced'
    BY <2>7 DEF IsPublic
  <2> QED BY <2>8, <2>9, <2>10, <2>11 DEF Heard
<1> QED BY <1>1, <1>2

LEMMA TellStep ==
  ASSUME IInv, Heard, NEW t \in Slots, Announce(t)
  PROVE  Heard'
<1>1. /\ \A u \in Slots : task'[u] = IF u = t THEN IdleTask ELSE task[u]
      /\ announced' = announced \cup {task[t].who} /\ row' = row /\ Telling(t)
  BY DEF Announce, Return, Telling, IInv, TypeOK
<1>2. ASSUME NEW u \in Slots, task'[u].pc \in {"announce", "expire"}
      PROVE  u # t /\ task'[u] = task[u]
  BY <1>1, <1>2 DEF IdleTask
<1>3. \A u \in Slots : Telling(u)' => IsPublic(task[u].who)' /\ task'[u].who \notin announced'
  BY <1>1, <1>2 DEF Heard, IsPublic, Telling
<1>4. \A u, v \in Slots : u # v /\ Telling(u)' /\ Telling(v)' => task'[u].who # task'[v].who
  BY <1>2 DEF Heard, Telling
<1>5. \A m \in announced' : IsPublic(m)'
  BY <1>1 DEF Heard, IsPublic
<1>6. \A u \in Slots : task'[u].pc = "expire" => Hidden' \subseteq task'[u].seen
  BY <1>1, <1>2 DEF Heard, Hidden, Settled
<1> QED BY <1>3, <1>4, <1>5, <1>6 DEF Heard

\* A page that is about to reveal has just loaded the room.
LEMMA LookStep ==
  ASSUME IInv, Heard, NEW t \in Slots, NEW k, task' = [task EXCEPT ![t] = k],
         k.pc = "expire" => k.seen = Hidden, k.pc # "announce", UNCHANGED <<row, announced>>
  PROVE  Heard'
<1>1. \A u \in Slots : task'[u] = IF u = t THEN k ELSE task[u]
  BY DEF IInv, TypeOK
<1>2. \A u \in Slots : Telling(u)' => u # t /\ task'[u] = task[u] /\ Telling(u)
  BY <1>1 DEF Telling
<1>3. \A u \in Slots : Telling(u)' => IsPublic(task[u].who)' /\ task'[u].who \notin announced'
  BY <1>2 DEF Heard, IsPublic
<1>4. \A u, v \in Slots : u # v /\ Telling(u)' /\ Telling(v)' => task'[u].who # task'[v].who
  BY <1>2 DEF Heard
<1>5. \A m \in announced' : IsPublic(m)'
  BY DEF Heard, IsPublic
<1>6. \A u \in Slots : task'[u].pc = "expire" => Hidden' \subseteq task'[u].seen
  BY <1>1 DEF Heard, Hidden, Settled
<1> QED BY <1>3, <1>4, <1>5, <1>6 DEF Heard

LEMMA OtherTasks ==
  ASSUME IInv, NEW u \in Slots, Arrive(u) \/ Advance(u) \/ Fail(u)
  PROVE  \A t \in Slots \ {u} : task'[t] = task[t]
<1>0. task \in [Slots -> Tasks]
  BY DEF IInv, TypeOK
<1>1. CASE Arrive(u) \/ Fail(u)
  BY <1>0, <1>1 DEF Arrive, End, Result, GiveUp, GiveUpResult, Spin, Exit, Job, Issue, Fail, Rollback,
     Return
<1>2. CASE Advance(u)
  BY <1>0, <1>2 DEF Advance, GiveUpTx, EndDB, Goto, Load, Processed, Find, Insert, Update, KeepFound,
     Commit, Conflict, TxTimeout, Rollback, Return, Reload, Expire, SpinReveal, ExitFind, ExitReveal,
     RevealOwn, Announce, JobReveal
<1> QED BY <1>1, <1>2

LEMMA HeardStep == IInv /\ Heard /\ [Next]_vars => Heard'
<1> SUFFICES ASSUME IInv, Heard, [Next]_vars PROVE Heard'
  OBVIOUS
<1>0. task \in [Slots -> Tasks]
  BY DEF IInv, TypeOK
<1>1. ASSUME NEW t \in Slots, Arrive(t) PROVE Heard'
  <2>1. ASSUME NEW kind, NEW pc, NEW who, NEW seen, Issue(t, kind, pc, who, seen),
               pc = "expire" => seen = Hidden, pc # "announce"
        PROVE  Heard'
    <3> DEFINE k == [IdleTask EXCEPT !.pc = pc, !.kind = kind, !.who = who, !.seen = seen]
    <3>1. task' = [task EXCEPT ![t] = k] /\ UNCHANGED <<row, announced>>
      BY <2>1 DEF Issue
    <3>2. k.pc = pc /\ k.seen = seen
      BY DEF IdleTask
    <3> HIDE DEF k
    <3> QED BY <2>1, <3>1, <3>2, LookStep
  <2>2. CASE End(t)
    BY <2>1, <2>2 DEF End
  <2>3. CASE Result(t)
    BY <2>1, <2>3 DEF Result
  <2>4. ASSUME NEW m \in Members,
               GiveUp(t, m) \/ GiveUpResult(t, m) \/ Spin(t, m) \/ Exit(t, m) \/ Job(t, m)
        PROVE  Heard'
    BY <2>1, <2>4 DEF GiveUp, GiveUpResult, Spin, Exit, Job
  <2> QED BY <1>1, <2>2, <2>3, <2>4 DEF Arrive
<1>2. ASSUME NEW t \in Slots, Advance(t) PROVE Heard'
  <2>1. CASE SpinReveal(t)
    BY <2>1, WinStep DEF SpinReveal
  <2>2. CASE ExitReveal(t)
    BY <2>2, WinStep DEF ExitReveal
  <2>3. CASE Announce(t)
    BY <2>3, TellStep
  <2>4. CASE Reload(t)
    <3> DEFINE k == [task[t] EXCEPT !.pc = "expire", !.seen = Hidden]
    <3>1. task' = [task EXCEPT ![t] = k] /\ UNCHANGED <<row, announced>>
      BY <1>0, <2>4 DEF Reload, room
    <3>2. k.pc = "expire" /\ k.seen = Hidden
      BY <1>0 DEF Tasks
    <3> HIDE DEF k
    <3> QED BY <3>1, <3>2, LookStep
  <2>5. CASE Conflict(t) \/ TxTimeout(t) \/ Expire(t) \/ JobReveal(t)
    <3>1. announced' = announced /\ \A u \in Slots : task'[u] = task[u] \/ task'[u].pc = "idle"
      BY <1>0, <2>5 DEF Conflict, TxTimeout, Rollback, Expire, JobReveal, Return, IdleTask
    <3> QED BY <3>1, QuietStep
  <2>6. CASE GiveUpTx(t) \/ EndDB(t) \/ Load(t) \/ Processed(t)
    <3>1. announced' = announced
          /\ \A u \in Slots : task'[u] = task[u] \/ task'[u].pc \in {"load", "processed", "find"}
      <4> task[t] \in Tasks
        BY <1>0
      <4>1. CASE GiveUpTx(t) \/ EndDB(t)
        BY <1>0, <4>1 DEF GiveUpTx, EndDB, Goto, Tasks
      <4>2. CASE Load(t)
        <5>1. task'[t].pc = IF ForAll(t) THEN "processed" ELSE "find"
          BY <1>0, <4>2 DEF Load, Tasks
        <5> QED BY <1>0, <4>2, <5>1 DEF Load
      <4>3. CASE Processed(t)
        BY <1>0, <4>3 DEF Processed, Tasks
      <4> QED BY <2>6, <4>1, <4>2, <4>3
    <3> QED BY <3>1, QuietStep
  <2>7. CASE Find(t) \/ ExitFind(t)
    <3>1. announced' = announced
          /\ \A u \in Slots : task'[u] = task[u] \/ task'[u].pc \in {"write", "commit", "exit_reveal", "idle"}
      <4> task[t] \in Tasks
        BY <1>0
      <4>1. CASE Find(t)
        <5>1. announced' = announced /\ \A u \in Slots \ {t} : task'[u] = task[u]
          BY <1>0, <4>1, OtherTasks DEF Find, Advance
        <5>2. CASE \E m \in task[t].todo :
                task' = [task EXCEPT ![t].pc = "write", ![t].at = m, ![t].found = m \in Settled]
          <6>1. task'[t].pc = "write"
            BY <1>0, <5>2
          <6> QED BY <5>1, <6>1
        <5>3. CASE task' = [task EXCEPT ![t].pc = "commit"]
          BY <1>0, <5>1, <5>3
        <5> QED BY <4>1, <5>2, <5>3 DEF Find
      <4>2. CASE ExitFind(t)
        <5>1. task'[t].pc \in {"exit_reveal", "idle"}
          BY <1>0, <4>2 DEF ExitFind, Return, IdleTask, Tasks
        <5> QED BY <1>0, <4>2, <5>1 DEF ExitFind, Return
      <4> QED BY <2>7, <4>1, <4>2
    <3> QED BY <3>1, QuietStep
  <2>8. CASE Insert(t) \/ Update(t) \/ KeepFound(t)
    <3>1. announced' = announced
          /\ \A u \in Slots : task'[u] = task[u] \/ task'[u].pc = "find"
      <4>1. task[t].pc = "write" /\ announced' = announced
            /\ \A u \in Slots \ {t} : task'[u] = task[u]
        BY <1>2, <2>8, OtherTasks DEF Insert, Update, KeepFound
      <4>2. Visited(t) \in Tasks /\ Visited(t).pc = "find"
        BY <4>1, VisitedFacts
      <4>3. CASE Insert(t)
        <5>1. PICK r \in NewRows(t) :
                task' = [task EXCEPT ![t] = [Visited(t) EXCEPT !.ins[task[t].at] = r]]
          BY <4>3 DEF Insert
        <5>2. task'[t] = [Visited(t) EXCEPT !.ins[task[t].at] = r]
          BY <1>0, <5>1
        <5>3. task'[t].pc = "find"
          BY <4>2, <5>2 DEF Tasks
        <5> QED BY <4>1, <5>3
      <4>4. CASE Update(t)
        <5>1. task'[t] = [Visited(t) EXCEPT !.upd = @ \cup {task[t].at}]
          BY <1>0, <4>4 DEF Update
        <5>2. task'[t].pc = "find"
          BY <4>2, <5>1 DEF Tasks
        <5> QED BY <4>1, <5>2
      <4>5. CASE KeepFound(t)
        <5>1. task'[t] = Visited(t)
          BY <1>0, <4>5 DEF KeepFound
        <5> QED BY <4>1, <4>2, <5>1
      <4> QED BY <2>8, <4>3, <4>4, <4>5
    <3> QED BY <3>1, QuietStep
  <2>9. CASE Commit(t)
    <3>1. announced' = announced
          /\ \A u \in Slots : task'[u] = task[u] \/ task'[u].pc \in {"reload", "idle"}
      BY <1>0, <2>9 DEF Commit, AfterSettlement, IdleTask
    <3> QED BY <3>1, QuietStep
  <2> QED BY <1>2, <2>1, <2>2, <2>3, <2>4, <2>5, <2>6, <2>7, <2>8, <2>9 DEF Advance
<1>3. CASE (\E t \in Slots : Fail(t)) \/ TimeUp \/ Crash \/ UNCHANGED vars
  <2>1. announced' = announced /\ \A u \in Slots : task'[u] = task[u] \/ task'[u].pc = "idle"
    BY <1>0, <1>3 DEF Fail, Rollback, Return, TimeUp, Crash, IdleTask, vars
  <2> QED BY <2>1, QuietStep
<1> QED BY <1>1, <1>2, <1>3 DEF Next

LEMMA HeardAlways == Spec => [](IInv /\ Heard)
<1>1. Init => Heard
  BY DEF Init, Heard, Telling, IdleTask
<1> QED BY <1>1, InitIInv, NextIInv, HeardStep, PTL DEF Spec

\* Of all spins, spins repeated by a stale page, and exits of one member, however
\* many run at once, one makes the penalties public and tells the room
\* (spinRoulette, exitRoulette).
THEOREM ToldOnce == Spec => []AnnouncedOnce
<1>1. Heard /\ IInv => OneWinner
  <2> SUFFICES ASSUME Heard, IInv, NEW m \in Members
               PROVE  Cardinality({t \in Slots : task[t].pc = "announce" /\ task[t].who = m})
                        + (IF m \in announced THEN 1 ELSE 0) <= 1
    BY DEF OneWinner
  <2> DEFINE winners == {t \in Slots : task[t].pc = "announce" /\ task[t].who = m}
  <2>1. CASE winners = {}
    <3>1. Cardinality(winners) = 0
      BY <2>1, FS_EmptySet
    <3> QED BY <3>1
  <2>2. ASSUME NEW t \in winners PROVE Cardinality(winners) + (IF m \in announced THEN 1 ELSE 0) <= 1
    <3>1. winners = {t}
      BY <2>2 DEF Heard, Telling
    <3>2. Cardinality(winners) = 1
      BY <3>1, FS_Singleton
    <3>3. m \notin announced
      BY <2>2 DEF Heard, Telling
    <3> QED BY <3>2, <3>3
  <2> QED BY <2>1, <2>2
<1>2. Heard /\ IInv => AnnouncedIsPublic
  BY DEF Heard, IsPublic, AnnouncedIsPublic, Settled, IInv, TypeOK
<1> QED BY <1>1, <1>2, HeardAlways, PTL DEF AnnouncedOnce

\* A result page that reveals because ten minutes have passed announces at least
\* everybody whose penalties it makes public (revealExpiredPenalties).
THEOREM ExpiryTold == Spec => ExpiryAnnounced
<1>1. IInv /\ Heard /\ [Next]_vars =>
        [\A t \in Slots : task[t].pc = "expire" /\ task'[t].pc = "idle"
           => {m \in Members : row'[m] # row[m]} \subseteq task[t].seen]_vars
  <2> SUFFICES ASSUME IInv, Heard, [Next]_vars, NEW t \in Slots, task[t].pc = "expire",
                      task'[t].pc = "idle", NEW m \in Members, row'[m] # row[m]
               PROVE  m \in task[t].seen
    OBVIOUS
  <2>1. row[m] # NoOne /\ Hidden \subseteq task[t].seen
    BY Before DEF Heard, Progress
  <2>2. UNCHANGED row \/ Expire(t)
    <3>1. ASSUME NEW u \in Slots, Arrive(u) \/ Advance(u) \/ Fail(u), u # t PROVE FALSE
      BY <3>1, OtherTasks
    <3>2. CASE Advance(t)
      BY <3>2 DEF Advance, GiveUpTx, EndDB, Goto, Load, Processed, Find, Insert, Update, KeepFound,
         Commit, Conflict, TxTimeout, Reload, SpinReveal, ExitFind, ExitReveal, RevealOwn, Announce,
         JobReveal
    <3>3. CASE Arrive(t)
      BY <3>3 DEF Arrive, End, Result, GiveUp, GiveUpResult, Spin, Exit, Job, Issue
    <3> QED BY <3>1, <3>2, <3>3 DEF Next, Fail, Rollback, TimeUp, Crash, vars
  <2>3. m \in Hidden
    BY <2>2 DEF Expire, Reveal
  <2> QED BY <2>1, <2>3
<1> QED BY <1>1, HeardAlways, PTL DEF ExpiryAnnounced, Spec

-----------------------------------------------------------------------------
(* The escapes of a member: types *)

LEMMA IdleFields ==
  /\ E!IdleTask \in E!Tasks /\ E!NoEntry \in E!Entries
  /\ E!IdleTask.pc = "idle" /\ E!IdleTask.sock = None /\ E!IdleTask.log = None /\ E!IdleTask.counted = FALSE
BY DEF E!IdleTask, E!NoEntry, E!Tasks, E!Entries, E!PCs

LEMMA EscapeTaskType ==
  ASSUME E!TypeOK, NEW t \in Lanes
  PROVE  run[t] \in E!Tasks /\ run \in [Lanes -> E!Tasks]
BY DEF E!TypeOK

\* A handler starts, goes on, is done.
LEMMA RunFields ==
  ASSUME E!TypeOK, NEW t \in Lanes, NEW pc \in E!PCs, NEW s \in Sockets \cup {None}, E!Run(t, pc, s)
  PROVE  /\ run' \in [Lanes -> E!Tasks] /\ \A u \in Lanes \ {t} : run'[u] = run[u]
         /\ run'[t].pc = pc /\ run'[t].sock = s /\ run'[t].log = None
<1> DEFINE k == [E!IdleTask EXCEPT !.pc = pc, !.sock = s]
<1>1. k \in E!Tasks /\ k.pc = pc /\ k.sock = s /\ k.log = None
  BY DEF E!IdleTask, E!NoEntry, E!Tasks, E!Entries
<1>2. run' = [run EXCEPT ![t] = k]
  BY DEF E!Run
<1> HIDE DEF k
<1> QED BY <1>1, <1>2, EscapeTaskType

LEMMA GotoFields ==
  ASSUME E!TypeOK, NEW t \in Lanes, NEW from, NEW pc \in E!PCs, E!Goto(t, from, pc)
  PROVE  /\ run' \in [Lanes -> E!Tasks] /\ \A u \in Lanes \ {t} : run'[u] = run[u]
         /\ run[t].pc = from /\ run'[t].pc = pc /\ run'[t].sock = run[t].sock /\ run'[t].copy = run[t].copy
         /\ run'[t].log = run[t].log
<1>1. run[t] \in E!Tasks /\ run \in [Lanes -> E!Tasks]
  BY EscapeTaskType
<1> QED BY <1>1 DEF E!Goto, E!Tasks

LEMMA ReturnFields ==
  ASSUME E!TypeOK, NEW t \in Lanes, E!Return(t)
  PROVE  /\ run' \in [Lanes -> E!Tasks] /\ \A u \in Lanes \ {t} : run'[u] = run[u]
         /\ run'[t] = E!IdleTask /\ run'[t].pc = "idle" /\ run'[t].log = None
BY IdleFields, EscapeTaskType DEF E!Return

LEMMA CopyFields ==
  ASSUME E!TypeOK, NEW t \in Lanes, NEW from, NEW pc \in E!PCs, E!Copy(t, from, pc)
  PROVE  /\ run' \in [Lanes -> E!Tasks] /\ \A u \in Lanes \ {t} : run'[u] = run[u]
         /\ run[t].pc = from /\ run'[t].pc = pc /\ run'[t].sock = run[t].sock /\ run'[t].copy = entry
<1>1. run[t] \in E!Tasks /\ run \in [Lanes -> E!Tasks] /\ entry \in E!Entries
  BY EscapeTaskType DEF E!TypeOK
<1> QED BY <1>1 DEF E!Copy, E!Tasks

LEMMA CountedFields ==
  ASSUME E!TypeOK, NEW t \in Lanes, E!GoneRead(t), entry.sock = run[t].sock
  PROVE  /\ run' \in [Lanes -> E!Tasks] /\ \A u \in Lanes \ {t} : run'[u] = run[u]
         /\ run'[t].pc = "gone_copy" /\ run'[t].sock = run[t].sock /\ run'[t].log = run[t].log
<1> DEFINE b == ~closed /\ ~entry.gaveUp
<1>1. run[t] \in E!Tasks /\ run \in [Lanes -> E!Tasks] /\ b \in BOOLEAN
  BY EscapeTaskType
<1>2. run' = [run EXCEPT ![t].pc = "gone_copy", ![t].counted = b]
  BY DEF E!GoneRead
<1> HIDE DEF b
<1> QED BY <1>1, <1>2 DEF E!Tasks, E!PCs

LEMMA FoundFields ==
  ASSUME E!TypeOK, NEW t \in Lanes, NEW l \in LogIds, run' = [run EXCEPT ![t].pc = "end_update", ![t].log = l]
  PROVE  /\ run' \in [Lanes -> E!Tasks] /\ \A u \in Lanes \ {t} : run'[u] = run[u]
         /\ run'[t].pc = "end_update" /\ run'[t].sock = run[t].sock /\ run'[t].log = l
<1>1. run[t] \in E!Tasks /\ run \in [Lanes -> E!Tasks]
  BY EscapeTaskType
<1> QED BY <1>1 DEF E!Tasks, E!PCs

\* What a message does to the wire and the buffer.
LEMMA EmitType ==
  ASSUME E!TypeOK, NEW m \in E!Messages, E!Emit(m)
  PROVE  wire' \in Seq(E!Messages) /\ buffer' \in Seq(E!Messages)
<1>1. wire \in Seq(E!Messages) /\ buffer \in Seq(E!Messages)
  BY DEF E!TypeOK
<1>2. Append(wire, m) \in Seq(E!Messages) /\ Append(buffer, m) \in Seq(E!Messages)
  BY <1>1, AppendProperties
<1> QED BY <1>1, <1>2 DEF E!Emit

LEMMA EmitStartType ==
  ASSUME E!TypeOK, E!EmitStart
  PROVE  wire' \in Seq(E!Messages) /\ buffer' \in Seq(E!Messages) /\ escaping' \in BOOLEAN /\ recent' \in BOOLEAN
BY EmitType DEF E!EmitStart, E!Messages, E!TypeOK

LEMMA EmitEndType ==
  ASSUME E!TypeOK, E!EmitEnd
  PROVE  wire' \in Seq(E!Messages) /\ buffer' \in Seq(E!Messages) /\ escaping' \in BOOLEAN /\ recent' \in BOOLEAN
BY EmitType DEF E!EmitEnd, E!Messages, E!TypeOK

\* The page's socket is closed.
LEMMA LostType ==
  ASSUME E!TypeOK, conn' = [s \in Sockets |-> IF s = link /\ conn[s] = "up" THEN "lost" ELSE conn[s]]
  PROVE  conn' \in [Sockets -> {"new", "up", "lost", "gone"}]
BY DEF E!TypeOK

LEMMA PageTyped ==
  ASSUME E!TypeOK, E!Page
  PROVE  E!TypeOK'
<1> DEFINE Sent == wire' \in Seq(E!Messages) /\ buffer' \in Seq(E!Messages) /\ escaping' \in BOOLEAN /\ recent' \in BOOLEAN
<1>0. ASSUME UNCHANGED <<escaping, recent, buffer, wire>> PROVE Sent
  BY <1>0 DEF E!TypeOK
<1>1. CASE E!LookAway
  <2>1. Sent
    BY <1>0, <1>1, EmitStartType DEF E!LookAway
  <2> QED BY <1>1, <2>1 DEF E!LookAway, E!TypeOK, E!room, E!redis
<1>2. CASE E!LookBack
  <2>1. Sent
    BY <1>0, <1>2, EmitEndType DEF E!LookBack
  <2> QED BY <1>2, <2>1 DEF E!LookBack, E!TypeOK, E!room, E!redis
<1>3. CASE E!SlotChanges
  <2>1. Sent
    BY <1>0, <1>3, EmitStartType, EmitEndType DEF E!SlotChanges
  <2> QED BY <1>3, <2>1 DEF E!SlotChanges, E!TypeOK, E!room, E!redis
<1>4. CASE E!DebounceOver
  BY <1>4 DEF E!DebounceOver, E!TypeOK, E!room, E!net, E!redis
<1>5. CASE E!Beat
  BY <1>5 DEF E!Beat, E!TypeOK, E!room, E!client, E!net
<1>6. CASE E!Drop
  BY <1>6 DEF E!Drop, E!TypeOK, E!room, E!client, E!redis
<1>7. CASE E!Close
  <2>1. conn' \in [Sockets -> {"new", "up", "lost", "gone"}]
    BY <1>7, LostType DEF E!Close
  <2>2. wire' = <<>> /\ buffer' = <<>> /\ <<>> \in Seq(E!Messages)
    BY <1>7 DEF E!Close
  <2> QED BY <1>7, <2>1, <2>2 DEF E!Close, E!TypeOK, E!room, E!redis
<1> QED BY <1>1, <1>2, <1>3, <1>4, <1>5, <1>6, <1>7 DEF E!Page

LEMMA ArriveTyped ==
  ASSUME E!TypeOK, NEW t \in Lanes, E!Arrive(t)
  PROVE  E!TypeOK'
<1>0. {"connect_member", "idle", "gone_clear", "start_room", "end_member", "giveup_tx"} \subseteq E!PCs
  BY DEF E!PCs
<1>1. ASSUME NEW s \in Sockets, E!Connect(t, s) PROVE E!TypeOK'
  <2>1. run' \in [Lanes -> E!Tasks]
    BY <1>0, <1>1, RunFields DEF E!Connect
  <2> QED BY <1>1, <2>1 DEF E!Connect, E!TypeOK, E!room, E!redis
<1>2. ASSUME NEW s \in Sockets, E!Gone(t, s) PROVE E!TypeOK'
  <2>1. run' \in [Lanes -> E!Tasks]
    BY <1>0, <1>2, RunFields DEF E!Gone
  <2> QED BY <1>2, <2>1 DEF E!Gone, E!TypeOK, E!room, E!client, E!redis
<1>3. CASE E!Deliver(t)
  <2>1. run' \in [Lanes -> E!Tasks]
    <3>1. PICK pc \in E!Handlers(Head(wire)) : E!Run(t, pc, None)
      BY <1>3 DEF E!Deliver
    <3>2. pc \in E!PCs
      BY <1>0 DEF E!Handlers
    <3> QED BY <3>1, <3>2, RunFields
  <2>2. Tail(wire) \in Seq(E!Messages)
    BY <1>3, HeadTailProperties DEF E!Deliver, E!TypeOK
  <2> QED BY <1>3, <2>1, <2>2 DEF E!Deliver, E!TypeOK, E!room, E!client, E!redis
<1>4. CASE E!Expire(t)
  <2>1. run' \in [Lanes -> E!Tasks]
    BY <1>0, <1>4, RunFields DEF E!Expire
  <2> QED BY <1>4, <2>1 DEF E!Expire, E!TypeOK, E!room, E!client, E!net
<1>5. CASE E!GiveUp(t)
  <2>1. run' \in [Lanes -> E!Tasks]
    BY <1>0, <1>5, RunFields DEF E!GiveUp
  <2> QED BY <1>5, <2>1 DEF E!GiveUp, E!TypeOK, E!client, E!net, E!redis
<1> QED BY <1>1, <1>2, <1>3, <1>4, <1>5 DEF E!Arrive

LEMMA AdvanceTask ==
  ASSUME E!TypeOK, NEW t \in Lanes, E!Advance(t)
  PROVE  run' \in [Lanes -> E!Tasks]
<1>0. E!PCs = {"idle", "connect_member", "connect_read", "connect_save",
        "gone_clear", "gone_read", "gone_copy", "gone_save",
        "start_room", "start_member", "start_find", "start_create",
        "end_member", "end_find", "end_update",
        "giveup_tx", "giveup_read", "giveup_save", "giveup_kick"}
  BY DEF E!PCs
<1>1. CASE E!ConnectMember(t) \/ E!ConnectRead(t) \/ E!ConnectSave(t)
  BY <1>0, <1>1, GotoFields, CopyFields, ReturnFields DEF E!ConnectMember, E!ConnectRead, E!ConnectSave
<1>2. CASE E!GoneClear(t) \/ E!GoneCopy(t) \/ E!GoneSave(t)
  BY <1>0, <1>2, GotoFields, CopyFields, ReturnFields DEF E!GoneClear, E!GoneCopy, E!GoneSave
<1>3. CASE E!GoneRead(t)
  BY <1>3, CountedFields, ReturnFields DEF E!GoneRead
<1>4. CASE E!StartRoom(t) \/ E!StartMember(t) \/ E!StartFind(t) \/ E!StartCreate(t)
  BY <1>0, <1>4, GotoFields, ReturnFields DEF E!StartRoom, E!StartMember, E!StartFind, E!StartCreate
<1>5. CASE E!EndMember(t) \/ E!EndUpdate(t)
  BY <1>0, <1>5, GotoFields, ReturnFields DEF E!EndMember, E!EndUpdate
<1>6. CASE E!EndFind(t)
  BY <1>6, FoundFields, ReturnFields DEF E!EndFind, E!Open
<1>7. CASE E!GiveUpTx(t) \/ E!GiveUpRead(t) \/ E!GiveUpSave(t) \/ E!GiveUpKick(t)
  BY <1>0, <1>7, GotoFields, CopyFields, ReturnFields DEF E!GiveUpTx, E!GiveUpRead, E!GiveUpSave, E!GiveUpKick
<1> QED BY <1>1, <1>2, <1>3, <1>4, <1>5, <1>6, <1>7 DEF E!Advance

LEMMA AdvanceTyped ==
  ASSUME E!TypeOK, NEW t \in Lanes, E!Advance(t)
  PROVE  E!TypeOK'
<1>0. run' \in [Lanes -> E!Tasks] /\ run[t] \in E!Tasks
  BY AdvanceTask, EscapeTaskType
<1>1. CASE E!ConnectSave(t) \/ E!GoneSave(t) \/ E!GiveUpSave(t)
  <2>1. entry' \in E!Entries
    BY <1>0, <1>1 DEF E!ConnectSave, E!GoneSave, E!GiveUpSave, E!Tasks, E!Entries
  <2> QED BY <1>0, <1>1, <2>1 DEF E!ConnectSave, E!GoneSave, E!GiveUpSave, E!TypeOK, E!room, E!client, E!net
<1>2. CASE E!StartCreate(t) \/ E!EndUpdate(t)
  <2>1. logs' \in [LogIds -> E!Logs]
    <3>1. CASE E!StartCreate(t)
      <4>1. PICK l \in LogIds : logs' = [logs EXCEPT ![l] = [state |-> "open", past |-> quitting]]
        BY <3>1 DEF E!StartCreate
      <4>2. [state |-> "open", past |-> quitting] \in E!Logs
        BY DEF E!Logs, E!TypeOK
      <4> QED BY <4>1, <4>2 DEF E!TypeOK
    <3>2. CASE E!EndUpdate(t)
      <4>1. [state |-> "closed", past |-> quitting] \in E!Logs
        BY DEF E!Logs, E!TypeOK
      <4> QED BY <3>2, <4>1 DEF E!EndUpdate, E!TypeOK
    <3> QED BY <1>2, <3>1, <3>2
  <2> QED BY <1>0, <1>2, <2>1 DEF E!StartCreate, E!EndUpdate, E!TypeOK, E!room, E!client, E!net, E!redis
<1>3. CASE E!GiveUpTx(t)
  <2>1. [state |-> "closed", past |-> FALSE] \in E!Logs
    BY DEF E!Logs
  <2> QED BY <1>0, <1>3, <2>1 DEF E!GiveUpTx, E!TypeOK, E!client, E!net, E!redis
<1>4. CASE E!GiveUpKick(t)
  <2>1. conn' \in [Sockets -> {"new", "up", "lost", "gone"}]
    BY <1>4, LostType DEF E!GiveUpKick
  <2>2. wire' = <<>> /\ buffer' = <<>> /\ <<>> \in Seq(E!Messages)
    BY <1>4 DEF E!GiveUpKick
  <2> QED BY <1>0, <1>4, <2>1, <2>2 DEF E!GiveUpKick, E!TypeOK, E!room, E!redis
<1>5. CASE E!GoneClear(t)
  BY <1>0, <1>5 DEF E!GoneClear, E!TypeOK, E!room, E!client, E!net
<1>6. CASE \/ E!ConnectMember(t) \/ E!ConnectRead(t) \/ E!GoneRead(t) \/ E!GoneCopy(t)
           \/ E!StartRoom(t) \/ E!StartMember(t) \/ E!StartFind(t)
           \/ E!EndMember(t) \/ E!EndFind(t) \/ E!GiveUpRead(t)
  BY <1>0, <1>6 DEF E!ConnectMember, E!ConnectRead, E!GoneRead, E!GoneCopy, E!StartRoom, E!StartMember,
     E!StartFind,
     E!EndMember, E!EndFind, E!GiveUpRead, E!TypeOK, E!room, E!client, E!net, E!redis
<1> QED BY <1>1, <1>2, <1>3, <1>4, <1>5, <1>6 DEF E!Advance

LEMMA InitTyped == E!Init => E!TypeOK
<1> SUFFICES ASSUME E!Init PROVE E!TypeOK
  OBVIOUS
<1>1. E!NoLog \in E!Logs /\ [sock |-> First, gaveUp |-> FALSE] \in E!Entries
  BY EscapesGiven DEF E!EscapesAssumption, E!NoLog, E!Logs, E!Entries
<1>2. <<>> \in Seq(E!Messages)
  OBVIOUS
<1> QED BY <1>1, <1>2, IdleFields, EscapesGiven DEF E!EscapesAssumption, E!Init, E!TypeOK

LEMMA StepTyped == E!TypeOK /\ [E!Next]_E!vars => E!TypeOK'
<1> SUFFICES ASSUME E!TypeOK, [E!Next]_E!vars PROVE E!TypeOK'
  OBVIOUS
<1>1. CASE UNCHANGED E!vars
  BY <1>1 DEF E!vars, E!room, E!client, E!net, E!redis, E!TypeOK
<1>2. CASE E!EndSession
  BY <1>2 DEF E!EndSession, E!client, E!net, E!redis, E!TypeOK
<1>3. CASE E!Crash
  <2>1. conn' \in [Sockets -> {"new", "up", "lost", "gone"}]
    BY <1>3 DEF E!Crash, E!TypeOK
  <2>2. wire' = <<>> /\ <<>> \in Seq(E!Messages)
    BY <1>3 DEF E!Crash
  <2>3. restarts' \in Nat /\ run' \in [Lanes -> E!Tasks]
    BY <1>3, IdleFields DEF E!Crash, E!TypeOK
  <2>4. heartbeat' \in BOOLEAN
    BY <1>3, Zenon DEF E!Crash, E!TypeOK
  <2> QED BY <1>3, <2>1, <2>2, <2>3, <2>4 DEF E!Crash, E!room, E!client, E!TypeOK
<1> QED BY <1>1, <1>2, <1>3, PageTyped, ArriveTyped, AdvanceTyped DEF E!Next

\* The types, for every number of sockets, handlers, logs and crashes.
THEOREM EscapeTypes == EscapesSpec => []EscapesTypeOK
BY InitTyped, StepTyped, PTL DEF EscapesSpec, E!Spec, EscapesTypeOK

-----------------------------------------------------------------------------
(* The inductive invariants *)

\* The member's handlers run one after the other.
Serial == \E h : Lanes = {h}

Entering == {"connect_member", "connect_read", "connect_save"}
Leaving  == {"gone_clear", "gone_read", "gone_copy", "gone_save"}
Starting == {"start_room", "start_member", "start_find", "start_create"}
Ending   == {"end_member", "end_find", "end_update"}

\* Nobody is being admitted.
NobodyAdmitted == \A t \in Lanes : run[t].pc \notin Entering

\* The server has the page's socket for connected, and no other.
Linked == \A s \in Sockets : conn[s] = "up" <=> s = link

\* A handler works for a socket in the state it was called for, and saves what
\* the entry still is.
Holding(t) ==
  /\ run[t].pc \in Entering =>
       run[t].sock \in Sockets /\ conn[run[t].sock] \in {"up", "lost"} /\ link \in {None, run[t].sock}
  /\ run[t].pc \in Leaving => run[t].sock \in Sockets /\ conn[run[t].sock] = "gone"
  /\ run[t].pc \in {"gone_copy", "gone_save"} => link = None
  /\ run[t].pc \in {"connect_save", "gone_save", "giveup_save"} => run[t].copy = entry

\* The entry names the page's socket; without one it names nobody, or a socket
\* whose end is not dealt with yet.
Named ==
  /\ link # None /\ NobodyAdmitted => entry.sock = link
  /\ link = None /\ NobodyAdmitted /\ restarts = 0 /\ entry.sock # None =>
       \/ conn[entry.sock] = "lost"
       \/ \E t \in Lanes : run[t].pc \in Leaving /\ run[t].sock = entry.sock

EInv == E!TypeOK /\ Linked /\ Named /\ \A t \in Lanes : Holding(t)

\* What a handler has found of the logs is still so, and it works for a member
\* who has not given up.
Finding(t) ==
  /\ run[t].pc \in {"start_find", "start_create", "end_find", "end_update"} => ~gone
  /\ run[t].pc = "start_create" => E!Open = {}
  /\ run[t].pc = "end_update" => run[t].log \in LogIds /\ E!Open \subseteq {run[t].log}
  /\ run[t].pc = "giveup_tx" => quitting /\ ~gone /\ \A l \in LogIds : ~logs[l].past

\* One log is open, and none runs on behind gaveUpAt.
Charged ==
  /\ \A l, m \in E!Open : l = m
  /\ gone => quitting /\ E!Open = {}
  /\ gone \/ ~quitting => \A l \in LogIds : ~logs[l].past

LInv == E!TypeOK /\ Charged /\ \A t \in Lanes : Finding(t)

\* A page that is escaping has told so last, and one that is not has told that.
Told(q) == q # <<>> => (q[Len(q)] = "escape:start" <=> escaping)

EscapeTelling ==
  /\ escaping <=> page = "away" /\ focus
  /\ link # None => buffer = <<>>
  /\ link = None => wire = <<>>
  /\ Told(buffer) /\ Told(wire)

\* With nothing on its way, a handler works towards what the page told last.
Following(t) ==
  link # None /\ E!Running /\ wire = <<>> =>
    /\ run[t].pc \in Starting => escaping
    /\ run[t].pc \in Entering \cup Ending => ~escaping
    /\ run[t].pc \in {"idle", "gone_clear", "gone_read"} => (E!Open # {} <=> escaping)

FInv == EInv /\ LInv /\ EscapeTelling /\ \A t \in Lanes : Following(t)

-----------------------------------------------------------------------------
(* The entry and the sockets *)

LEMMA OneHandler ==
  ASSUME Serial, NEW t \in Lanes
  PROVE  \A u \in Lanes : u = t
BY DEF Serial

LEMMA EntryTypes ==
  ASSUME E!TypeOK
  PROVE  /\ link \in Sockets \cup {None} /\ conn \in [Sockets -> {"new", "up", "lost", "gone"}]
         /\ entry.sock \in Sockets \cup {None} /\ entry \in E!Entries /\ None \notin Sockets
         /\ \A t \in Lanes : run[t] \in E!Tasks /\ run[t].sock \in Sockets \cup {None} /\ run[t].copy \in E!Entries
BY EscapesGiven DEF E!EscapesAssumption, E!TypeOK, E!Entries, E!Tasks

\* A step that leaves the sockets, the entry and the handlers alone.
LEMMA EntryStays ==
  ASSUME EInv, UNCHANGED <<link, conn, entry, run, restarts>>
  PROVE  Linked' /\ Named' /\ \A u \in Lanes : Holding(u)'
BY DEF EInv, Linked, Named, NobodyAdmitted, Holding, Entering, Leaving

\* A handler that has nothing to do with the sockets.
LEMMA EntryElsewhere ==
  ASSUME EInv, Serial, NEW t \in Lanes, UNCHANGED <<link, conn, entry, restarts>>,
         run[t].pc \notin Entering \cup Leaving,
         run'[t].pc \notin Entering \cup Leaving \cup {"giveup_save"}
  PROVE  Linked' /\ Named' /\ \A u \in Lanes : Holding(u)'
<1>1. \A u \in Lanes : u = t
  BY OneHandler
<1>2. Linked'
  BY DEF EInv, Linked
<1>3. Named'
  BY <1>1 DEF EInv, Named, NobodyAdmitted
<1>4. \A u \in Lanes : Holding(u)'
  BY <1>1 DEF Holding, Entering, Leaving
<1> QED BY <1>2, <1>3, <1>4

\* The page's socket is lost, and at most a handler is done.
LEMMA EntryLost ==
  ASSUME EInv, link' = None, UNCHANGED <<entry, restarts>>,
         conn' = [s \in Sockets |-> IF s = link /\ conn[s] = "up" THEN "lost" ELSE conn[s]],
         \A u \in Lanes : \/ run'[u] = run[u]
                          \/ run[u].pc \notin Entering \cup Leaving /\ run'[u].pc = "idle"
  PROVE  Linked' /\ Named' /\ \A u \in Lanes : Holding(u)'
<1>0. E!TypeOK /\ Linked /\ Named /\ \A u \in Lanes : Holding(u)
  BY DEF EInv
<1>1. Linked'
  BY <1>0, EntryTypes DEF Linked
<1>2. \A s \in Sockets : /\ conn[s] = "gone" => conn'[s] = "gone"
                         /\ conn[s] = "lost" => conn'[s] = "lost"
                         /\ conn[s] = "up" => conn'[s] = "lost"
  BY <1>0, EntryTypes DEF Linked
<1>3. Named'
  <2>1. SUFFICES ASSUME NobodyAdmitted', restarts = 0, entry.sock # None
                 PROVE  \/ conn'[entry.sock] = "lost"
                        \/ \E t \in Lanes : run'[t].pc \in Leaving /\ run'[t].sock = entry.sock
    BY DEF Named
  <2>2. entry.sock \in Sockets
    BY <1>0, <2>1, EntryTypes
  <2>3. NobodyAdmitted
    BY <2>1 DEF NobodyAdmitted
  <2>4. CASE link # None
    <3>1. entry.sock = link /\ conn[link] = "up"
      BY <1>0, <2>2, <2>3, <2>4 DEF Named, Linked
    <3> QED BY <1>2, <2>2, <3>1
  <2>5. CASE link = None
    <3>1. CASE conn[entry.sock] = "lost"
      BY <1>2, <2>2, <3>1
    <3>2. CASE \E t \in Lanes : run[t].pc \in Leaving /\ run[t].sock = entry.sock
      BY <3>2
    <3> QED BY <1>0, <2>1, <2>3, <2>5, <3>1, <3>2 DEF Named
  <2> QED BY <2>4, <2>5
<1>4. \A u \in Lanes : Holding(u)'
  <2> SUFFICES ASSUME NEW u \in Lanes PROVE Holding(u)'
    OBVIOUS
  <2>1. Holding(u)
    BY <1>0
  <2>2. CASE run'[u] = run[u]
    BY <1>2, <2>1, <2>2 DEF Holding
  <2>3. CASE run'[u].pc = "idle"
    BY <2>3 DEF Holding, Entering, Leaving
  <2> QED BY <2>2, <2>3
<1> QED BY <1>1, <1>3, <1>4

LEMMA EntryPage ==
  ASSUME EInv, E!Page
  PROVE  Linked' /\ Named' /\ \A u \in Lanes : Holding(u)'
<1>1. CASE E!LookAway \/ E!LookBack \/ E!SlotChanges \/ E!DebounceOver \/ E!Beat
  <2>1. UNCHANGED <<link, conn, entry, run, restarts>>
    BY <1>1 DEF E!LookAway, E!LookBack, E!SlotChanges, E!DebounceOver, E!Beat, E!redis, E!net
  <2> QED BY <2>1, EntryStays
<1>2. CASE E!Drop \/ E!Close
  <2>1. link' = None /\ UNCHANGED <<entry, run, restarts>>
    BY <1>2 DEF E!Drop, E!Close, E!redis
  <2>2. conn' = [s \in Sockets |-> IF s = link /\ conn[s] = "up" THEN "lost" ELSE conn[s]]
    BY <1>2, EntryTypes DEF EInv, E!Drop, E!Close
  <2> QED BY <2>1, <2>2, EntryLost
<1> QED BY <1>1, <1>2 DEF E!Page

LEMMA EntryConnect ==
  ASSUME EInv, Serial, NEW t \in Lanes, NEW s \in Sockets, E!Connect(t, s)
  PROVE  Linked' /\ Named' /\ \A u \in Lanes : Holding(u)'
<1>0. E!TypeOK /\ Linked
  BY DEF EInv
<1>1. run'[t].pc = "connect_member" /\ run'[t].sock = s
  BY <1>0, RunFields DEF E!Connect, E!PCs
<1>2. link' = s /\ conn' = [conn EXCEPT ![s] = "up"] /\ link = None
  BY DEF E!Connect
<1>3. Linked'
  BY <1>0, <1>2, EntryTypes DEF Linked
<1>4. Named'
  BY <1>1, <1>2, EntryTypes, <1>0 DEF Named, NobodyAdmitted, Entering
<1>5. \A u \in Lanes : Holding(u)'
  BY <1>0, <1>1, <1>2, OneHandler, EntryTypes DEF Holding, Entering, Leaving
<1> QED BY <1>3, <1>4, <1>5

LEMMA EntryGone ==
  ASSUME EInv, Serial, NEW t \in Lanes, NEW s \in Sockets, E!Gone(t, s)
  PROVE  Linked' /\ Named' /\ \A u \in Lanes : Holding(u)'
<1>0. E!TypeOK /\ Linked /\ Named
  BY DEF EInv
<1>1. run'[t].pc = "gone_clear" /\ run'[t].sock = s
  <2>1. ~E!Joining(s)
    BY OneHandler DEF E!Gone, E!Free, E!Joining
  <2> QED BY <1>0, <2>1, RunFields DEF E!Gone, E!PCs
<1>2. conn[s] = "lost" /\ conn' = [conn EXCEPT ![s] = "gone"] /\ UNCHANGED <<link, entry, restarts>> /\ run[t].pc = "idle"
  BY DEF E!Gone, E!redis, E!Free
<1>3. Linked'
  BY <1>0, <1>2, EntryTypes DEF Linked
<1>4. Named'
  <2>1. NobodyAdmitted
    BY <1>2, OneHandler DEF NobodyAdmitted, Entering
  <2>2. link # None => entry.sock = link
    BY <1>0, <2>1 DEF Named
  <2>3. ASSUME link = None, restarts = 0, entry.sock # None
        PROVE  conn[entry.sock] = "lost"
    BY <1>0, <1>2, <2>1, <2>3, OneHandler DEF Named, Leaving
  <2>4. ASSUME link = None, restarts = 0, entry.sock # None
        PROVE  \/ conn'[entry.sock] = "lost"
               \/ run'[t].pc \in Leaving /\ run'[t].sock = entry.sock
    BY <1>0, <1>1, <1>2, <2>3, <2>4, EntryTypes DEF Leaving
  <2> QED BY <1>2, <2>2, <2>4 DEF Named
<1>5. \A u \in Lanes : Holding(u)'
  BY <1>0, <1>1, <1>2, OneHandler, EntryTypes DEF Holding, Entering, Leaving
<1> QED BY <1>3, <1>4, <1>5

LEMMA EntryArrive ==
  ASSUME EInv, Serial, NEW t \in Lanes, E!Arrive(t)
  PROVE  Linked' /\ Named' /\ \A u \in Lanes : Holding(u)'
<1>0. E!TypeOK
  BY DEF EInv
<1>1. ASSUME E!Deliver(t) \/ E!Expire(t) \/ E!GiveUp(t)
      PROVE  Linked' /\ Named' /\ \A u \in Lanes : Holding(u)'
  <2>1. UNCHANGED <<link, conn, entry, restarts>> /\ run[t].pc = "idle"
    BY <1>1 DEF E!Deliver, E!Expire, E!GiveUp, E!net, E!redis, E!Free
  <2>2. PICK pc \in {"idle", "start_room", "end_member", "giveup_tx"} : E!Run(t, pc, None)
    BY <1>1 DEF E!Deliver, E!Expire, E!GiveUp, E!Handlers
  <2>3. run'[t].pc = pc
    BY <1>0, <2>2, RunFields DEF E!PCs
  <2> QED BY <2>1, <2>2, <2>3, EntryElsewhere DEF Entering, Leaving
<1> QED BY <1>1, EntryConnect, EntryGone DEF E!Arrive

LEMMA EntryAdvance ==
  ASSUME EInv, Serial, NEW t \in Lanes, E!Advance(t)
  PROVE  Linked' /\ Named' /\ \A u \in Lanes : Holding(u)'
<1>0. E!TypeOK /\ Linked /\ Named /\ Holding(t) /\ \A u \in Lanes : u = t
  BY OneHandler DEF EInv
<1>1. CASE E!ConnectMember(t) \/ E!ConnectRead(t)
  <2>1. UNCHANGED <<link, conn, entry, restarts>> /\ run[t].pc \in Entering
    BY <1>1 DEF E!ConnectMember, E!ConnectRead, E!Goto, E!Copy, E!net, E!redis, Entering
  <2>2. /\ run'[t].pc \in {"connect_read", "connect_save"} /\ run'[t].sock = run[t].sock
        /\ run'[t].pc = "connect_save" => run'[t].copy = entry
    BY <1>0, <1>1, GotoFields, CopyFields DEF E!ConnectMember, E!ConnectRead, E!PCs
  <2>3. Linked'
    BY <1>0, <2>1 DEF Linked
  <2>4. Named'
    BY <2>1, <2>2 DEF Named, NobodyAdmitted, Entering
  <2>5. Holding(t)'
    BY <1>0, <2>1, <2>2 DEF Holding, Entering, Leaving
  <2> QED BY <1>0, <2>3, <2>4, <2>5
<1>2. CASE E!ConnectSave(t)
  <2>1. UNCHANGED <<link, conn, restarts>> /\ run[t].pc = "connect_save"
    BY <1>2 DEF E!ConnectSave, E!net
  <2>2. run'[t].pc \in {"end_member", "idle"}
    BY <1>0, <1>2, GotoFields, ReturnFields DEF E!ConnectSave, E!PCs
  <2>3. entry'.sock = run[t].sock
    BY <1>0, <1>2, EntryTypes DEF E!ConnectSave, E!Entries
  <2>4. run[t].sock \in Sockets /\ conn[run[t].sock] \in {"up", "lost"} /\ link \in {None, run[t].sock}
    BY <1>0, <2>1 DEF Holding, Entering
  <2>5. Linked'
    BY <1>0, <2>1 DEF Linked
  <2>6. Named'
    BY <1>0, <2>1, <2>2, <2>3, <2>4, EntryTypes DEF Named, Linked
  <2>7. Holding(t)'
    BY <2>2 DEF Holding, Entering, Leaving
  <2> QED BY <1>0, <2>5, <2>6, <2>7
<1>3. CASE E!GoneClear(t)
  <2>1. UNCHANGED <<link, conn, entry, restarts>> /\ run[t].pc \in Leaving /\ run'[t].pc = "gone_read" /\ run'[t].sock = run[t].sock
    BY <1>0, <1>3, GotoFields DEF E!GoneClear, E!net, Leaving, E!PCs
  <2>2. Linked' /\ Named'
    BY <1>0, <2>1 DEF Linked, Named, NobodyAdmitted, Entering, Leaving
  <2>3. Holding(t)'
    BY <1>0, <2>1 DEF Holding, Entering, Leaving
  <2> QED BY <1>0, <2>2, <2>3
<1>4. CASE E!GoneRead(t)
  <2>1. UNCHANGED <<link, conn, entry, restarts>> /\ run[t].pc = "gone_read"
    BY <1>4 DEF E!GoneRead, E!net, E!redis
  <2>2. run[t].sock \in Sockets /\ conn[run[t].sock] = "gone"
    BY <1>0, <2>1 DEF Holding, Leaving
  <2>3. NobodyAdmitted
    BY <1>0, <2>1 DEF NobodyAdmitted, Entering
  <2>4. CASE entry.sock = run[t].sock
    <3>1. run'[t].pc = "gone_copy" /\ run'[t].sock = run[t].sock
      BY <1>0, <1>4, <2>4, CountedFields
    <3>2. link = None
      BY <1>0, <2>2, <2>3, <2>4 DEF Named, Linked
    <3>3. Linked' /\ Named'
      BY <1>0, <2>1, <2>4, <3>1, <3>2 DEF Linked, Named, Leaving
    <3>4. Holding(t)'
      BY <2>1, <2>2, <3>1, <3>2 DEF Holding, Entering, Leaving
    <3> QED BY <1>0, <3>3, <3>4
  <2>5. CASE entry.sock # run[t].sock
    <3>1. run'[t].pc = "idle"
      BY <1>0, <1>4, <2>5, ReturnFields DEF E!GoneRead
    <3>2. Linked' /\ Named'
      BY <1>0, <2>1, <2>3, <2>5 DEF Linked, Named
    <3>3. Holding(t)'
      BY <3>1 DEF Holding, Entering, Leaving
    <3> QED BY <1>0, <3>2, <3>3
  <2> QED BY <2>4, <2>5
<1>5. CASE E!GoneCopy(t)
  <2>1. UNCHANGED <<link, conn, entry, restarts>> /\ run[t].pc = "gone_copy"
    BY <1>5 DEF E!GoneCopy, E!Copy, E!net, E!redis
  <2>2. run'[t].pc = "gone_save" /\ run'[t].sock = run[t].sock /\ run'[t].copy = entry
    BY <1>0, <1>5, CopyFields DEF E!GoneCopy, E!PCs
  <2>3. Linked' /\ Named'
    BY <1>0, <2>1, <2>2 DEF Linked, Named, NobodyAdmitted, Entering, Leaving
  <2>4. Holding(t)'
    BY <1>0, <2>1, <2>2 DEF Holding, Entering, Leaving
  <2> QED BY <1>0, <2>3, <2>4
<1>6. CASE E!GoneSave(t)
  <2>1. UNCHANGED <<link, conn, restarts>> /\ run[t].pc = "gone_save" /\ link = None
    BY <1>0, <1>6 DEF E!GoneSave, E!net, Holding
  <2>2. run'[t].pc \in {"start_room", "idle"}
    BY <1>0, <1>6, GotoFields, ReturnFields DEF E!GoneSave, E!PCs
  <2>3. entry'.sock = None
    BY <1>0, <1>6, EntryTypes DEF E!GoneSave, E!Entries
  <2>4. Linked' /\ Named'
    BY <1>0, <2>1, <2>3 DEF Linked, Named
  <2>5. Holding(t)'
    BY <2>2 DEF Holding, Entering, Leaving
  <2> QED BY <1>0, <2>4, <2>5
<1>7. CASE E!StartRoom(t) \/ E!StartMember(t) \/ E!StartFind(t) \/ E!StartCreate(t) \/ E!EndMember(t) \/ E!EndUpdate(t) \/ E!GiveUpTx(t)
  <2>1. /\ UNCHANGED <<link, conn, entry, restarts>>
        /\ run[t].pc \in {"start_room", "start_member", "start_find", "start_create", "end_member", "end_update", "giveup_tx"}
    BY <1>7 DEF E!StartRoom, E!StartMember, E!StartFind, E!StartCreate, E!EndMember, E!EndUpdate,
       E!GiveUpTx, E!Goto, E!net, E!redis
  <2>2. run'[t].pc \in {"idle", "start_member", "start_find", "start_create", "end_find", "giveup_read"}
    BY <1>0, <1>7, GotoFields, ReturnFields
    DEF E!StartRoom, E!StartMember, E!StartFind, E!StartCreate, E!EndMember, E!EndUpdate, E!GiveUpTx, E!PCs
  <2> QED BY <2>1, <2>2, EntryElsewhere DEF Entering, Leaving
<1>8. CASE E!EndFind(t)
  <2>1. UNCHANGED <<link, conn, entry, restarts>> /\ run[t].pc = "end_find"
    BY <1>8 DEF E!EndFind, E!net, E!redis
  <2>2. run'[t].pc \in {"idle", "end_update"}
    BY <1>0, <1>8, FoundFields, ReturnFields DEF E!EndFind, E!Open
  <2> QED BY <2>1, <2>2, EntryElsewhere DEF Entering, Leaving
<1>9. CASE E!GiveUpRead(t)
  <2>1. UNCHANGED <<link, conn, entry, restarts>> /\ run[t].pc = "giveup_read"
    BY <1>9 DEF E!GiveUpRead, E!Copy, E!net, E!redis
  <2>2. run'[t].pc = "giveup_save" /\ run'[t].copy = entry
    BY <1>0, <1>9, CopyFields DEF E!GiveUpRead, E!PCs
  <2>3. Linked' /\ Named'
    BY <1>0, <2>1, <2>2 DEF Linked, Named, NobodyAdmitted, Entering, Leaving
  <2>4. Holding(t)'
    BY <2>1, <2>2 DEF Holding, Entering, Leaving
  <2> QED BY <1>0, <2>3, <2>4
<1>10. CASE E!GiveUpSave(t)
  <2>1. UNCHANGED <<link, conn, restarts>> /\ run[t].pc = "giveup_save" /\ run'[t].pc = "giveup_kick"
    BY <1>0, <1>10, GotoFields DEF E!GiveUpSave, E!net, E!PCs
  <2>2. entry'.sock = entry.sock
    BY <1>0, <1>10, <2>1, EntryTypes DEF E!GiveUpSave, E!Entries, Holding
  <2>3. Linked' /\ Named'
    BY <1>0, <2>1, <2>2 DEF Linked, Named, NobodyAdmitted, Entering, Leaving
  <2>4. Holding(t)'
    BY <2>1 DEF Holding, Entering, Leaving
  <2> QED BY <1>0, <2>3, <2>4
<1>11. CASE E!GiveUpKick(t)
  <2>1. /\ link' = None /\ UNCHANGED <<entry, restarts>> /\ run[t].pc = "giveup_kick"
        /\ conn' = [s \in Sockets |-> IF s = link /\ conn[s] = "up" THEN "lost" ELSE conn[s]]
    BY <1>11 DEF E!GiveUpKick, E!redis
  <2>2. run'[t].pc = "idle"
    BY <1>0, <1>11, ReturnFields DEF E!GiveUpKick
  <2>3. \A u \in Lanes : run[u].pc \notin Entering \cup Leaving /\ run'[u].pc = "idle"
    BY <1>0, <2>1, <2>2 DEF Entering, Leaving
  <2> QED BY <2>1, <2>3, EntryLost
<1> QED BY <1>1, <1>2, <1>3, <1>4, <1>5, <1>6, <1>7, <1>8, <1>9, <1>10, <1>11 DEF E!Advance

LEMMA EntryInit == E!Init => EInv
<1> SUFFICES ASSUME E!Init PROVE EInv
  OBVIOUS
<1>1. Linked /\ Named
  BY EscapesGiven DEF E!EscapesAssumption, E!Init, Linked, Named
<1>2. \A t \in Lanes : Holding(t)
  BY IdleFields DEF E!Init, Holding, Entering, Leaving
<1> QED BY <1>1, <1>2, InitTyped DEF EInv

LEMMA EntryStep == Serial /\ EInv /\ [E!Next]_E!vars => EInv'
<1> SUFFICES ASSUME Serial, EInv, [E!Next]_E!vars PROVE EInv'
  OBVIOUS
<1>0. E!TypeOK'
  BY StepTyped DEF EInv
<1>1. CASE UNCHANGED E!vars \/ E!EndSession
  <2>1. UNCHANGED <<link, conn, entry, run, restarts>>
    BY <1>1 DEF E!vars, E!EndSession, E!net, E!redis
  <2> QED BY <1>0, <2>1, EntryStays DEF EInv
<1>2. CASE E!Crash
  <2>1. link' = None /\ restarts' = restarts + 1 /\ restarts \in Nat
    BY <1>2 DEF E!Crash, EInv, E!TypeOK
  <2>2. \A s \in Sockets : conn'[s] \in {"new", "gone"}
    BY <1>2 DEF E!Crash
  <2>3. \A t \in Lanes : run'[t].pc = "idle"
    BY <1>2, IdleFields DEF E!Crash
  <2>4. Linked' /\ Named'
    BY <2>1, <2>2, EscapesGiven DEF E!EscapesAssumption, Linked, Named
  <2>5. \A t \in Lanes : Holding(t)'
    BY <2>3 DEF Holding, Entering, Leaving
  <2> QED BY <1>0, <2>4, <2>5 DEF EInv
<1>3. CASE E!Page
  BY <1>0, <1>3, EntryPage DEF EInv
<1>4. CASE \E t \in Lanes : E!Arrive(t) \/ E!Advance(t)
  BY <1>0, <1>4, EntryArrive, EntryAdvance DEF EInv
<1> QED BY <1>1, <1>2, <1>3, <1>4 DEF E!Next

\* Once everything has been dealt with, the entry names the socket the page is
\* connected with, however often it was lost and made again, and in whatever
\* order the server noticed (handleConnection, handleDisconnect).
THEOREM EntryStaysCurrent == ASSUME Serial PROVE EscapesSpec => []EntryCurrent
<1>1. EInv => E!EntryCurrent
  BY EntryTypes DEF EInv, Named, NobodyAdmitted, E!EntryCurrent, E!Quiet, E!Free, E!Up, Entering, Leaving
<1> QED BY <1>1, EntryInit, EntryStep, PTL DEF EscapesSpec, E!Spec, EntryCurrent

-----------------------------------------------------------------------------
(* The logs *)

\* A step that leaves the room, the logs and the handlers alone.
LEMMA LogsStay ==
  ASSUME LInv, UNCHANGED <<gone, quitting, logs, run>>
  PROVE  Charged' /\ \A u \in Lanes : Finding(u)'
BY DEF LInv, Charged, Finding, E!Open

\* A handler that only looks.
LEMMA LogsElsewhere ==
  ASSUME LInv, Serial, NEW t \in Lanes, UNCHANGED <<gone, quitting, logs>>,
         run'[t].pc \notin {"start_find", "start_create", "end_find", "end_update", "giveup_tx"}
  PROVE  Charged' /\ \A u \in Lanes : Finding(u)'
<1>1. Charged'
  BY DEF LInv, Charged, E!Open
<1>2. \A u \in Lanes : Finding(u)'
  BY OneHandler DEF Finding
<1> QED BY <1>1, <1>2

LEMMA LogsArrive ==
  ASSUME LInv, Serial, NEW t \in Lanes, E!Arrive(t)
  PROVE  Charged' /\ \A u \in Lanes : Finding(u)'
<1>0. E!TypeOK /\ Charged
  BY DEF LInv
<1>1. ASSUME NEW s \in Sockets, E!Connect(t, s) \/ E!Gone(t, s)
      PROVE  Charged' /\ \A u \in Lanes : Finding(u)'
  <2>1. UNCHANGED <<gone, quitting, logs>>
    BY <1>1 DEF E!Connect, E!Gone, E!room
  <2>2. PICK pc \in {"connect_member", "gone_clear", "idle"} : E!Run(t, pc, s)
    BY <1>1 DEF E!Connect, E!Gone
  <2>3. run'[t].pc = pc
    BY <1>0, <2>2, RunFields DEF E!PCs
  <2> QED BY <2>1, <2>2, <2>3, LogsElsewhere
<1>2. CASE E!Deliver(t) \/ E!Expire(t)
  <2>1. UNCHANGED <<gone, quitting, logs>>
    BY <1>2 DEF E!Deliver, E!Expire, E!room
  <2>2. PICK pc \in {"idle", "start_room", "end_member"} : E!Run(t, pc, None)
    BY <1>2 DEF E!Deliver, E!Expire, E!Handlers
  <2>3. run'[t].pc = pc
    BY <1>0, <2>2, RunFields DEF E!PCs
  <2> QED BY <2>1, <2>2, <2>3, LogsElsewhere
<1>3. CASE E!GiveUp(t)
  <2>1. run'[t].pc = "giveup_tx"
    BY <1>0, <1>3, RunFields DEF E!GiveUp, E!PCs
  <2>2. ~quitting /\ quitting' = TRUE /\ UNCHANGED <<gone, logs>>
    BY <1>3 DEF E!GiveUp
  <2>3. ~gone /\ \A l \in LogIds : ~logs[l].past
    BY <1>0, <2>2 DEF Charged
  <2>4. Charged'
    BY <1>0, <2>2, <2>3 DEF Charged, E!Open
  <2>5. \A u \in Lanes : Finding(u)'
    BY <2>1, <2>2, <2>3, OneHandler DEF Finding
  <2> QED BY <2>4, <2>5
<1> QED BY <1>1, <1>2, <1>3 DEF E!Arrive

\* A log is opened or closed.
LEMMA LogPut ==
  ASSUME E!TypeOK, NEW l \in LogIds, NEW q \in {"open", "closed"},
         logs' = [logs EXCEPT ![l] = [state |-> q, past |-> quitting]]
  PROVE  /\ logs'[l].past = quitting /\ \A m \in LogIds \ {l} : logs'[m] = logs[m]
         /\ q = "open" => E!Open' = E!Open \cup {l}
         /\ q = "closed" => E!Open' = E!Open \ {l}
<1> DEFINE r == [state |-> q, past |-> quitting]
<1>1. r.state = q /\ r.past = quitting
  OBVIOUS
<1>2. logs' = [logs EXCEPT ![l] = r]
  OBVIOUS
<1> HIDE DEF r
<1>3. logs'[l] = r /\ \A m \in LogIds \ {l} : logs'[m] = logs[m]
  BY <1>2 DEF E!TypeOK
<1> QED BY <1>1, <1>3 DEF E!Open

LEMMA LogsAdvance ==
  ASSUME LInv, Serial, NEW t \in Lanes, E!Advance(t)
  PROVE  Charged' /\ \A u \in Lanes : Finding(u)'
<1>0. E!TypeOK /\ Charged /\ Finding(t) /\ \A u \in Lanes : u = t
  BY OneHandler DEF LInv
<1>1. CASE \/ E!ConnectMember(t) \/ E!ConnectRead(t) \/ E!ConnectSave(t)
           \/ E!GoneClear(t) \/ E!GoneCopy(t) \/ E!GoneSave(t)
           \/ E!StartRoom(t) \/ E!GiveUpRead(t) \/ E!GiveUpSave(t) \/ E!GiveUpKick(t)
  <2>1. UNCHANGED <<gone, quitting, logs>>
    BY <1>1 DEF E!ConnectMember, E!ConnectRead, E!ConnectSave, E!GoneClear, E!GoneCopy, E!GoneSave,
       E!StartRoom,
       E!GiveUpRead, E!GiveUpSave, E!GiveUpKick, E!room
  <2>2. CASE E!ConnectMember(t) \/ E!ConnectRead(t) \/ E!ConnectSave(t)
    <3>1. run'[t].pc \in {"connect_read", "connect_save", "end_member", "idle"}
      BY <1>0, <2>2, GotoFields, CopyFields, ReturnFields DEF E!ConnectMember, E!ConnectRead,
         E!ConnectSave, E!PCs
    <3> QED BY <2>1, <3>1, LogsElsewhere
  <2>3. CASE E!GoneClear(t) \/ E!GoneCopy(t) \/ E!GoneSave(t)
    <3>1. run'[t].pc \in {"gone_read", "gone_save", "start_room", "idle"}
      BY <1>0, <2>3, GotoFields, CopyFields, ReturnFields DEF E!GoneClear, E!GoneCopy, E!GoneSave, E!PCs
    <3> QED BY <2>1, <3>1, LogsElsewhere
  <2>4. CASE E!StartRoom(t) \/ E!GiveUpRead(t) \/ E!GiveUpSave(t) \/ E!GiveUpKick(t)
    <3>1. run'[t].pc \in {"start_member", "giveup_save", "giveup_kick", "idle"}
      BY <1>0, <2>4, GotoFields, CopyFields, ReturnFields DEF E!StartRoom, E!GiveUpRead, E!GiveUpSave,
         E!GiveUpKick, E!PCs
    <3> QED BY <2>1, <3>1, LogsElsewhere
  <2> QED BY <1>1, <2>2, <2>3, <2>4
<1>2. CASE E!GoneRead(t)
  <2>1. UNCHANGED <<gone, quitting, logs>>
    BY <1>2 DEF E!GoneRead, E!room
  <2>2. run'[t].pc \in {"gone_copy", "idle"}
    BY <1>0, <1>2, CountedFields, ReturnFields DEF E!GoneRead
  <2> QED BY <2>1, <2>2, LogsElsewhere
<1>3. CASE E!StartMember(t) \/ E!StartFind(t) \/ E!EndMember(t)
  <2>1. UNCHANGED <<gone, quitting, logs>>
    BY <1>3 DEF E!StartMember, E!StartFind, E!EndMember, E!room
  <2>2. run'[t].pc \in {"idle", "start_find", "start_create", "end_find"}
    BY <1>0, <1>3, GotoFields, ReturnFields DEF E!StartMember, E!StartFind, E!EndMember, E!PCs
  <2>3. run'[t].pc # "idle" => ~gone
    BY <1>0, <1>3, ReturnFields DEF E!StartMember, E!StartFind, E!EndMember, E!Goto, Finding
  <2>4. run'[t].pc = "start_create" => E!Open = {}
    BY <1>0, <1>3, GotoFields, ReturnFields DEF E!StartMember, E!StartFind, E!EndMember, E!PCs
  <2>5. Charged'
    BY <1>0, <2>1 DEF Charged, E!Open
  <2>6. Finding(t)'
    BY <2>1, <2>2, <2>3, <2>4 DEF Finding, E!Open
  <2> QED BY <1>0, <2>5, <2>6
<1>4. CASE E!EndFind(t)
  <2>1. UNCHANGED <<gone, quitting, logs>> /\ ~gone
    BY <1>0, <1>4 DEF E!EndFind, E!room, Finding
  <2>2. Charged'
    BY <1>0, <2>1 DEF Charged, E!Open
  <2>3. ASSUME NEW l \in E!Open, run' = [run EXCEPT ![t].pc = "end_update", ![t].log = l]
        PROVE  Finding(t)'
    <3>1. l \in LogIds
      BY <2>3 DEF E!Open
    <3>2. run'[t].pc = "end_update" /\ run'[t].log = l
      BY <1>0, <2>3, <3>1, FoundFields
    <3>3. E!Open \subseteq {l}
      BY <1>0, <2>3 DEF Charged
    <3> QED BY <2>1, <3>1, <3>2, <3>3 DEF Finding, E!Open
  <2>4. ASSUME E!Return(t) PROVE Finding(t)'
    BY <1>0, <2>4, ReturnFields DEF Finding
  <2> QED BY <1>0, <1>4, <2>2, <2>3, <2>4 DEF E!EndFind
<1>5. CASE E!StartCreate(t)
  <2>1. PICK l \in LogIds : logs' = [logs EXCEPT ![l] = [state |-> "open", past |-> quitting]]
    BY <1>5 DEF E!StartCreate
  <2>3. E!Open = {} /\ ~gone /\ UNCHANGED <<gone, quitting>> /\ run'[t].pc = "idle"
    BY <1>0, <1>5, ReturnFields DEF E!StartCreate, Finding, E!room
  <2>4. E!Open' = {l} /\ logs'[l].past = quitting /\ \A m \in LogIds \ {l} : logs'[m] = logs[m]
    BY <1>0, <2>1, <2>3, LogPut
  <2>5. ~quitting => \A m \in LogIds : ~logs'[m].past
    BY <1>0, <2>4 DEF Charged
  <2>6. Charged'
    BY <2>3, <2>4, <2>5 DEF Charged
  <2>7. Finding(t)'
    BY <2>3 DEF Finding
  <2> QED BY <1>0, <2>6, <2>7
<1>6. CASE E!EndUpdate(t)
  <2>1. /\ run[t].log \in LogIds /\ E!Open \subseteq {run[t].log} /\ ~gone /\ UNCHANGED <<gone, quitting>>
        /\ run'[t].pc = "idle" /\ logs' = [logs EXCEPT ![run[t].log] = [state |-> "closed", past |-> quitting]]
    BY <1>0, <1>6, ReturnFields DEF E!EndUpdate, Finding, E!room
  <2> DEFINE l == run[t].log
  <2>3. E!Open' = {} /\ logs'[l].past = quitting /\ \A m \in LogIds \ {l} : logs'[m] = logs[m]
    BY <1>0, <2>1, LogPut
  <2>4. ~quitting => \A m \in LogIds : ~logs'[m].past
    BY <1>0, <2>3 DEF Charged
  <2>5. Charged'
    BY <2>1, <2>3, <2>4 DEF Charged
  <2>6. Finding(t)'
    BY <2>1 DEF Finding
  <2> QED BY <1>0, <2>5, <2>6
<1>7. CASE E!GiveUpTx(t)
  <2>1. quitting /\ ~gone /\ (\A l \in LogIds : ~logs[l].past) /\ quitting' = quitting /\ run'[t].pc = "giveup_read"
    BY <1>0, <1>7, GotoFields DEF E!GiveUpTx, E!Goto, Finding, E!PCs
  <2>2. \A l \in LogIds : ~logs'[l].past /\ logs'[l].state # "open"
    BY <1>7, <2>1 DEF E!GiveUpTx, E!Open
  <2>3. E!Open' = {}
    BY <2>2 DEF E!Open
  <2>4. Charged'
    BY <2>1, <2>2, <2>3 DEF Charged
  <2>5. Finding(t)'
    BY <2>1 DEF Finding
  <2> QED BY <1>0, <2>4, <2>5
<1> QED BY <1>1, <1>2, <1>3, <1>4, <1>5, <1>6, <1>7 DEF E!Advance

LEMMA LogsInit == E!Init => LInv
<1> SUFFICES ASSUME E!Init PROVE LInv
  OBVIOUS
<1>1. \A l \in LogIds : logs[l].state = "none" /\ logs[l].past = FALSE
  BY DEF E!Init, E!NoLog
<1>2. Charged
  BY <1>1 DEF E!Init, Charged, E!Open
<1>3. \A t \in Lanes : Finding(t)
  BY IdleFields DEF E!Init, Finding
<1> QED BY <1>2, <1>3, InitTyped DEF LInv

LEMMA LogsStep == Serial /\ LInv /\ [E!Next]_E!vars => LInv'
<1> SUFFICES ASSUME Serial, LInv, [E!Next]_E!vars PROVE LInv'
  OBVIOUS
<1>0. E!TypeOK'
  BY StepTyped DEF LInv
<1>1. CASE UNCHANGED E!vars \/ E!EndSession
  <2>1. UNCHANGED <<gone, quitting, logs, run>>
    BY <1>1 DEF E!vars, E!room, E!EndSession
  <2> QED BY <1>0, <2>1, LogsStay DEF LInv
<1>2. CASE E!Page
  <2>1. UNCHANGED <<gone, quitting, logs, run>>
    BY <1>2 DEF E!Page, E!LookAway, E!LookBack, E!SlotChanges, E!DebounceOver, E!Beat, E!Drop, E!Close, E!room
  <2> QED BY <1>0, <2>1, LogsStay DEF LInv
<1>3. CASE E!Crash
  <2>1. UNCHANGED <<gone, quitting, logs>> /\ \A t \in Lanes : run'[t].pc = "idle"
    BY <1>3, IdleFields DEF E!Crash, E!room
  <2>2. Charged'
    BY <2>1 DEF LInv, Charged, E!Open
  <2>3. \A t \in Lanes : Finding(t)'
    BY <2>1 DEF Finding
  <2> QED BY <1>0, <2>2, <2>3 DEF LInv
<1>4. CASE \E t \in Lanes : E!Arrive(t) \/ E!Advance(t)
  BY <1>0, <1>4, LogsArrive, LogsAdvance DEF LInv
<1> QED BY <1>1, <1>2, <1>3, <1>4 DEF E!Next

\* No time is charged twice: there is one log to close, however often leaving is
\* reported, and none runs on behind gaveUpAt (logEscapeStart, logEscapeEnd,
\* giveUpTransaction).
THEOREM ChargedOnce == ASSUME Serial PROVE EscapesSpec => []LogsSound
<1>1. LInv => E!LogsSound
  <2> SUFFICES ASSUME LInv PROVE E!LogsSound
    OBVIOUS
  <2>1. Cardinality(E!Open) <= 1
    <3>1. CASE E!Open = {}
      BY <3>1, FS_EmptySet
    <3>2. CASE E!Open # {}
      <4>1. PICK l \in E!Open : E!Open = {l}
        BY <3>2 DEF LInv, Charged
      <4> QED BY <4>1, FS_Singleton
    <3> QED BY <3>1, <3>2
  <2>2. E!NothingPastGiveUp
    BY DEF LInv, Charged, E!NothingPastGiveUp, E!Open
  <2> QED BY <2>1, <2>2 DEF E!LogsSound, E!OneOpenLog, E!Cardinality, Cardinality
<1> QED BY <1>1, LogsInit, LogsStep, PTL DEF EscapesSpec, E!Spec, LogsSound

-----------------------------------------------------------------------------
(* What the page told, and who follows *)

\* A logged-in user with a page that runs in front only, and no faster than the
\* debounce.
Plain == ~Guest /\ ~Throttled /\ ~Quick /\ ~Background

LEMMA TellingTypes ==
  ASSUME E!TypeOK
  PROVE  /\ wire \in Seq(E!Messages) /\ buffer \in Seq(E!Messages) /\ link \in Sockets \cup {None}
         /\ escaping \in BOOLEAN /\ focus \in BOOLEAN /\ recent \in BOOLEAN /\ page \in {"front", "away", "closed"}
BY DEF E!TypeOK

\* What is told goes out behind everything else.
LEMMA EmitTold ==
  ASSUME E!TypeOK, EscapeTelling, NEW m \in E!Messages, E!Emit(m), UNCHANGED link, escaping' \in BOOLEAN,
         escaping' <=> m = "escape:start"
  PROVE  /\ Told(buffer)' /\ Told(wire)'
         /\ link # None => buffer' = <<>> /\ wire' # <<>>
         /\ link = None => wire' = <<>>
<1>0. wire \in Seq(E!Messages) /\ buffer \in Seq(E!Messages)
  BY TellingTypes
<1>1. CASE link # None
  <2>1. wire' = Append(wire, m) /\ buffer' = <<>>
    BY <1>1 DEF E!Emit, EscapeTelling
  <2>2. wire' # <<>> /\ Len(wire') = Len(wire) + 1 /\ wire'[Len(wire) + 1] = m
    BY <1>0, <2>1, AppendProperties
  <2> QED BY <1>1, <2>1, <2>2 DEF Told
<1>2. CASE link = None
  <2>1. buffer' = Append(buffer, m) /\ wire' = <<>>
    BY <1>2 DEF E!Emit, EscapeTelling
  <2>2. buffer' # <<>> /\ Len(buffer') = Len(buffer) + 1 /\ buffer'[Len(buffer) + 1] = m
    BY <1>0, <2>1, AppendProperties
  <2> QED BY <1>2, <2>1, <2>2 DEF Told
<1> QED BY <1>1, <1>2

\* Either nothing is told and escaping stays, or what escaping becomes is told.
Tells ==
  \/ UNCHANGED <<escaping, buffer, wire>>
  \/ /\ Told(buffer)' /\ Told(wire)'
     /\ link # None => buffer' = <<>> /\ wire' # <<>>
     /\ link = None => wire' = <<>>

LEMMA StartTells ==
  ASSUME E!TypeOK, EscapeTelling, E!EmitStart, UNCHANGED link
  PROVE  Tells /\ (~recent => escaping' = TRUE)
<1>1. CASE recent
  BY <1>1 DEF E!EmitStart, Tells
<1>2. CASE ~recent
  <2>1. escaping' = TRUE /\ E!Emit("escape:start")
    BY <1>2 DEF E!EmitStart
  <2> QED BY <2>1, EmitTold DEF E!Messages, Tells
<1> QED BY <1>1, <1>2

LEMMA EndTells ==
  ASSUME E!TypeOK, EscapeTelling, E!EmitEnd, UNCHANGED link
  PROVE  Tells /\ escaping' = FALSE
<1>1. escaping' = FALSE /\ E!Emit("escape:end")
  BY DEF E!EmitEnd
<1>2. "escape:end" \in E!Messages /\ "escape:end" # "escape:start"
  BY DEF E!Messages
<1>3. Told(buffer)' /\ Told(wire)' /\ (link # None => buffer' = <<>> /\ wire' # <<>>) /\ (link = None => wire' = <<>>)
  BY <1>1, <1>2, EmitTold
<1> QED BY <1>1, <1>3 DEF Tells

\* escaping is exactly a page that is away in a focus slot.
LEMMA EscapingStep ==
  ASSUME E!TypeOK, EscapeTelling, Plain, E!LookAway \/ E!LookBack \/ E!SlotChanges
  PROVE  Tells /\ UNCHANGED link /\ (escaping' <=> page' = "away" /\ focus')
<1>0. escaping \in BOOLEAN /\ focus \in BOOLEAN /\ (escaping <=> page = "away" /\ focus)
  BY TellingTypes DEF EscapeTelling
<1>1. CASE E!LookAway
  <2>1. ~recent /\ ~escaping /\ page' = "away" /\ UNCHANGED <<focus, link>>
    BY <1>0, <1>1 DEF E!LookAway, Plain
  <2>2. CASE focus
    BY <1>1, <2>1, <2>2, StartTells DEF E!LookAway
  <2>3. CASE ~focus
    <3>1. UNCHANGED <<escaping, buffer, wire>>
      BY <1>1, <2>3 DEF E!LookAway
    <3> QED BY <2>1, <2>3, <3>1 DEF Tells
  <2> QED BY <2>2, <2>3
<1>2. CASE E!LookBack
  <2>1. page' = "front" /\ UNCHANGED <<focus, link>>
    BY <1>2 DEF E!LookBack
  <2>2. CASE escaping
    BY <1>2, <2>1, <2>2, EndTells DEF E!LookBack
  <2>3. CASE ~escaping
    <3>1. UNCHANGED <<escaping, buffer, wire>>
      BY <1>2, <2>3 DEF E!LookBack
    <3> QED BY <2>1, <2>3, <3>1 DEF Tells
  <2> QED BY <2>2, <2>3
<1>3. CASE E!SlotChanges
  <2>1. UNCHANGED <<page, link>> /\ focus' = ~focus /\ (recent => focus)
    BY <1>3 DEF E!SlotChanges
  <2>2. CASE page = "away" /\ focus'
    <3>1. ~focus /\ ~recent /\ ~escaping
      BY <1>0, <2>1, <2>2
    <3>2. E!EmitStart
      BY <1>3, <2>2, <3>1 DEF E!SlotChanges
    <3> QED BY <2>1, <2>2, <3>1, <3>2, StartTells
  <2>3. CASE page = "away" /\ ~focus'
    <3>1. focus /\ escaping
      BY <1>0, <2>1, <2>3
    <3>2. E!EmitEnd
      BY <1>3, <2>3, <3>1 DEF E!SlotChanges
    <3> QED BY <2>1, <2>3, <3>2, EndTells
  <2>4. CASE page # "away"
    <3>1. UNCHANGED <<escaping, buffer, wire>>
      BY <1>3, <2>4 DEF E!SlotChanges
    <3> QED BY <1>0, <2>1, <2>4, <3>1 DEF Tells
  <2> QED BY <2>2, <2>3, <2>4
<1> QED BY <1>1, <1>2, <1>3

LEMMA ToldStays ==
  ASSUME EscapeTelling, Tells, UNCHANGED link
  PROVE  Told(buffer)' /\ Told(wire)' /\ (link' # None => buffer' = <<>>) /\ (link' = None => wire' = <<>>)
BY DEF EscapeTelling, Tells, Told

\* A message leaves the wire: the last one stays.
LEMMA TailTold ==
  ASSUME E!TypeOK, Told(wire), wire # <<>>, wire' = Tail(wire), UNCHANGED escaping
  PROVE  Told(wire)'
<1>1. /\ wire' \in Seq(E!Messages) /\ wire \in Seq(E!Messages) /\ Len(wire') = Len(wire) - 1 /\ Len(wire) \in Nat
      /\ \A i \in 1 .. Len(wire') : wire'[i] = wire[i + 1]
  BY TellingTypes, HeadTailProperties
<1>2. ASSUME wire' # <<>> PROVE wire'[Len(wire')] = wire[Len(wire)]
  <2>1. Len(wire') \in 1 .. Len(wire')
    BY <1>1, <1>2, EmptySeq
  <2> QED BY <1>1, <2>1
<1> QED BY <1>2 DEF Told

LEMMA TellingStep ==
  ASSUME E!TypeOK, EscapeTelling, Plain, [E!Next]_E!vars
  PROVE  EscapeTelling'
<1>1. CASE UNCHANGED <<focus, page, escaping, buffer, link, wire>>
  BY <1>1 DEF EscapeTelling, Told
<1>2. CASE E!LookAway \/ E!LookBack \/ E!SlotChanges
  BY <1>2, EscapingStep, ToldStays DEF EscapeTelling
<1>3. CASE E!Drop
  BY <1>3 DEF E!Drop, E!client, EscapeTelling, Told
<1>4. CASE E!Close
  <2>1. escaping' = FALSE /\ page' = "closed" /\ buffer' = <<>> /\ wire' = <<>> /\ link' = None
    BY <1>4 DEF E!Close
  <2> QED BY <2>1 DEF EscapeTelling, Told
<1>5. ASSUME NEW t \in Lanes, NEW s \in Sockets, E!Connect(t, s) PROVE EscapeTelling'
  <2>1. link = None /\ link' = s /\ s # None /\ wire' = buffer /\ buffer' = <<>> /\ UNCHANGED <<focus, escaping>>
    BY <1>5, EscapesGiven DEF E!EscapesAssumption, E!Connect
  <2>2. page # "away" /\ page' # "away"
    BY <1>5 DEF E!Connect, Plain
  <2> QED BY <2>1, <2>2 DEF EscapeTelling, Told
<1>6. ASSUME NEW t \in Lanes, E!Deliver(t) PROVE EscapeTelling'
  <2>1. wire # <<>> /\ wire' = Tail(wire) /\ UNCHANGED <<focus, page, escaping, buffer, link>>
    BY <1>6 DEF E!Deliver, E!client
  <2>2. Told(wire)'
    BY <2>1, TailTold DEF EscapeTelling
  <2> QED BY <2>1, <2>2 DEF EscapeTelling, Told
<1>7. ASSUME NEW t \in Lanes, E!GiveUpKick(t) PROVE EscapeTelling'
  <2>1. escaping' = FALSE /\ page' = "closed" /\ buffer' = <<>> /\ wire' = <<>> /\ link' = None
    BY <1>7 DEF E!GiveUpKick
  <2> QED BY <2>1 DEF EscapeTelling, Told
<1>8. CASE E!Crash
  BY <1>8 DEF E!Crash, E!client, EscapeTelling, Told
<1>9. ASSUME NEW t \in Lanes, NEW s \in Sockets, E!Gone(t, s) PROVE EscapeTelling'
  BY <1>1, <1>9 DEF E!Gone, E!client
<1>10. ASSUME NEW t \in Lanes, E!Expire(t) \/ E!GiveUp(t) PROVE EscapeTelling'
  BY <1>1, <1>10 DEF E!Expire, E!GiveUp, E!client, E!net
<1>11. ASSUME NEW t \in Lanes, E!Advance(t) PROVE EscapeTelling'
  <2>1. CASE ~E!GiveUpKick(t)
    <3>1. UNCHANGED <<E!client, E!net>>
      BY <1>11, <2>1 DEF E!Advance, E!ConnectMember, E!ConnectRead, E!ConnectSave, E!GoneClear, E!GoneRead,
         E!GoneCopy, E!GoneSave,
         E!StartRoom, E!StartMember, E!StartFind, E!StartCreate, E!EndMember, E!EndFind, E!EndUpdate, E!GiveUpTx, E!GiveUpRead, E!GiveUpSave
    <3> QED BY <1>1, <3>1 DEF E!client, E!net
  <2> QED BY <1>7, <2>1
<1>12. CASE E!DebounceOver \/ E!Beat \/ E!EndSession \/ UNCHANGED E!vars
  BY <1>1, <1>12 DEF E!DebounceOver, E!Beat, E!EndSession, E!vars, E!client, E!net
<1> QED BY <1>2, <1>3, <1>4, <1>5, <1>6, <1>8, <1>9, <1>10, <1>11, <1>12 DEF E!Next, E!Page, E!Arrive

-----------------------------------------------------------------------------
(* Who follows *)

\* A step of the page, or of the room: the handlers and the logs stay.
LEMMA FollowStay ==
  ASSUME FInv, UNCHANGED <<run, logs>>,
         link' # None /\ E!Running' /\ wire' = <<>> =>
           link # None /\ E!Running /\ wire = <<>> /\ escaping' = escaping
  PROVE  \A u \in Lanes : Following(u)'
BY DEF FInv, Following, E!Open

LEMMA FollowPage ==
  ASSUME FInv, Plain, E!Page
  PROVE  \A u \in Lanes : Following(u)'
<1>0. E!TypeOK /\ EscapeTelling
  BY DEF FInv, EInv
<1>1. CASE E!LookAway \/ E!LookBack \/ E!SlotChanges
  <2>1. UNCHANGED <<run, logs, link, closed, quitting>>
    BY <1>1 DEF E!LookAway, E!LookBack, E!SlotChanges, E!room
  <2>2. Tells
    BY <1>0, <1>1, EscapingStep
  <2> QED BY <2>1, <2>2, FollowStay DEF Tells, E!Running
<1>2. CASE E!DebounceOver \/ E!Beat
  <2>1. UNCHANGED <<run, logs, link, closed, quitting, wire, escaping>>
    BY <1>2 DEF E!DebounceOver, E!Beat, E!room, E!client, E!net
  <2> QED BY <2>1, FollowStay DEF E!Running
<1>3. CASE E!Drop \/ E!Close
  <2>1. link' = None /\ UNCHANGED <<run, logs>>
    BY <1>3 DEF E!Drop, E!Close
  <2> QED BY <2>1, FollowStay
<1> QED BY <1>1, <1>2, <1>3 DEF E!Page

LEMMA FollowArrive ==
  ASSUME FInv, Serial, Plain, NEW t \in Lanes, E!Arrive(t)
  PROVE  Following(t)'
<1>0. E!TypeOK /\ EscapeTelling /\ Following(t) /\ \A u \in Lanes : u = t
  BY OneHandler DEF FInv, EInv
<1>1. ASSUME NEW s \in Sockets, E!Connect(t, s) PROVE Following(t)'
  <2>1. run'[t].pc = "connect_member"
    BY <1>0, <1>1, RunFields DEF E!Connect, E!PCs
  <2>2. ~escaping /\ escaping' = escaping
    BY <1>0, <1>1 DEF E!Connect, Plain, EscapeTelling
  <2> QED BY <2>1, <2>2 DEF Following, Starting
<1>2. ASSUME NEW s \in Sockets, E!Gone(t, s) PROVE Following(t)'
  <2>1. UNCHANGED <<link, wire, closed, quitting, escaping, logs>> /\ run[t].pc = "idle"
    BY <1>2 DEF E!Gone, E!room, E!client, E!Free
  <2>2. run'[t].pc = "gone_clear"
    <3>1. ~E!Joining(s)
      BY <1>0, <2>1 DEF E!Joining
    <3> QED BY <1>0, <1>2, <3>1, RunFields DEF E!Gone, E!PCs
  <2> QED BY <1>0, <2>1, <2>2 DEF Following, E!Running, Starting, Entering, Ending, E!Open
<1>3. CASE E!Deliver(t)
  <2>1. wire # <<>> /\ wire' = Tail(wire) /\ UNCHANGED <<link, closed, quitting, escaping, logs>> /\ run[t].pc = "idle"
    BY <1>3 DEF E!Deliver, E!room, E!client, E!Free
  <2>2. ~E!Joining(link)
    BY <1>0, <2>1 DEF E!Joining
  <2>3. E!Run(t, IF Head(wire) = "escape:start" THEN "start_room" ELSE "end_member", None)
    BY <1>3, <2>2 DEF E!Deliver, E!Handlers
  <2>4. CASE wire' = <<>>
    <3>1. Head(wire) = "escape:start" <=> escaping
      <4>1. wire \in Seq(E!Messages) /\ Len(wire') = Len(wire) - 1 /\ Len(wire) \in Nat
        BY <1>0, <2>1, TellingTypes, HeadTailProperties
      <4>2. Len(wire) = 1
        BY <2>4, <4>1
      <4>3. Head(wire) = wire[1]
        BY <4>1, <4>2
      <4> QED BY <1>0, <2>1, <4>2, <4>3 DEF EscapeTelling, Told
    <3>2. CASE escaping
      <4>1. run'[t].pc = "start_room"
        BY <1>0, <2>3, <3>1, <3>2, RunFields DEF E!PCs
      <4> QED BY <2>1, <3>2, <4>1 DEF Following, Starting, Entering, Ending
    <3>3. CASE ~escaping
      <4>1. run'[t].pc = "end_member"
        BY <1>0, <2>3, <3>1, <3>3, RunFields DEF E!PCs
      <4> QED BY <2>1, <3>3, <4>1 DEF Following, Starting, Entering, Ending
    <3> QED BY <3>2, <3>3
  <2>5. CASE wire' # <<>>
    BY <2>5 DEF Following
  <2> QED BY <2>4, <2>5
<1>4. CASE E!Expire(t)
  BY <1>4 DEF E!Expire, Plain, E!net, Following
<1>5. CASE E!GiveUp(t)
  BY <1>5 DEF E!GiveUp, Following, E!Running
<1> QED BY <1>1, <1>2, <1>3, <1>4, <1>5 DEF E!Arrive

LEMMA FollowAdvance ==
  ASSUME FInv, Serial, Plain, NEW t \in Lanes, E!Advance(t)
  PROVE  Following(t)'
<1>0. E!TypeOK /\ Following(t) /\ Holding(t) /\ Finding(t) /\ Charged
  BY DEF FInv, EInv, LInv
<1>1. CASE E!ConnectMember(t) \/ E!ConnectRead(t) \/ E!ConnectSave(t)
  <2>1. UNCHANGED <<link, wire, closed, quitting, escaping, logs>> /\ run[t].pc \in Entering
    BY <1>1 DEF E!ConnectMember, E!ConnectRead, E!ConnectSave, E!Goto, E!Copy, E!room, E!client, E!net,
       Entering
  <2>2. run'[t].pc \in {"connect_read", "connect_save", "end_member"}
    BY <1>0, <1>1, GotoFields, CopyFields DEF E!ConnectMember, E!ConnectRead, E!ConnectSave, Plain, E!PCs
  <2> QED BY <1>0, <2>1, <2>2 DEF Following, E!Running, Starting, Entering, Ending
<1>2. CASE E!GoneClear(t) \/ E!GoneRead(t) \/ E!GoneCopy(t) \/ E!GoneSave(t)
  <2>1. UNCHANGED <<link, wire, closed, quitting, escaping, logs>>
    BY <1>2 DEF E!GoneClear, E!GoneRead, E!GoneCopy, E!GoneSave, E!room, E!client, E!net
  <2>2. CASE E!GoneClear(t)
    <3>1. run[t].pc = "gone_clear" /\ run'[t].pc = "gone_read"
      BY <1>0, <2>2, GotoFields DEF E!GoneClear, E!PCs
    <3> QED BY <1>0, <2>1, <3>1 DEF Following, E!Running, Starting, Entering, Ending, E!Open
  <2>3. CASE E!GoneRead(t)
    <3>1. run[t].pc = "gone_read" /\ run'[t].pc \in {"gone_copy", "idle"}
      BY <1>0, <2>3, CountedFields, ReturnFields DEF E!GoneRead
    <3> QED BY <1>0, <2>1, <3>1 DEF Following, E!Running, Starting, Entering, Ending, E!Open
  <2>4. CASE E!GoneCopy(t) \/ E!GoneSave(t)
    <3>1. link = None
      BY <1>0, <2>4 DEF E!GoneCopy, E!GoneSave, E!Copy, Holding
    <3> QED BY <2>1, <3>1 DEF Following
  <2> QED BY <1>2, <2>2, <2>3, <2>4
<1>3. CASE E!StartRoom(t) \/ E!StartMember(t) \/ E!StartFind(t)
  <2>1. UNCHANGED <<link, wire, closed, quitting, escaping, logs>> /\ run[t].pc \in Starting
    BY <1>3 DEF E!StartRoom, E!StartMember, E!StartFind, E!Goto, E!room, E!client, E!net, Starting
  <2>2. ASSUME E!Running
        PROVE  \/ run'[t].pc \in {"start_member", "start_find", "start_create"}
               \/ run'[t].pc = "idle" /\ E!Open # {}
    <3>1. ~closed /\ ~gone
      BY <1>0, <2>2 DEF E!Running, Charged
    <3>2. CASE E!StartRoom(t)
      BY <1>0, <3>1, <3>2, GotoFields DEF E!StartRoom, E!PCs
    <3>3. CASE E!StartMember(t)
      BY <1>0, <3>1, <3>3, GotoFields DEF E!StartMember, E!PCs
    <3>4. CASE E!StartFind(t)
      BY <1>0, <3>4, GotoFields, ReturnFields DEF E!StartFind, E!PCs
    <3> QED BY <1>3, <3>2, <3>3, <3>4
  <2> QED BY <1>0, <2>1, <2>2 DEF Following, E!Running, Starting, Entering, Ending, E!Open
<1>4. CASE E!StartCreate(t)
  <2>1. UNCHANGED <<link, wire, closed, quitting, escaping>> /\ run[t].pc \in Starting /\ run'[t].pc = "idle"
    BY <1>0, <1>4, ReturnFields DEF E!StartCreate, E!room, E!client, E!net, Starting
  <2>2. E!Open' # {}
    BY <1>0, <1>4, LogPut DEF E!StartCreate
  <2> QED BY <1>0, <2>1, <2>2 DEF Following, E!Running, Starting, Entering, Ending
<1>5. CASE E!EndMember(t) \/ E!EndFind(t)
  <2>1. UNCHANGED <<link, wire, closed, quitting, escaping, logs>> /\ run[t].pc \in Ending
    BY <1>5 DEF E!EndMember, E!EndFind, E!Goto, E!room, E!client, E!net, Ending
  <2>2. ASSUME E!Running
        PROVE  \/ run'[t].pc \in {"end_find", "end_update"}
               \/ run'[t].pc = "idle" /\ E!Open = {}
    <3>1. CASE E!EndMember(t)
      <4>1. ~gone
        BY <1>0, <2>2 DEF E!Running, Charged
      <4> QED BY <1>0, <3>1, <4>1, GotoFields DEF E!EndMember, E!PCs
    <3>2. CASE E!EndFind(t)
      <4>1. ASSUME NEW l \in E!Open, run' = [run EXCEPT ![t].pc = "end_update", ![t].log = l]
            PROVE  run'[t].pc = "end_update"
        BY <1>0, <4>1, FoundFields DEF E!Open
      <4> QED BY <1>0, <3>2, <4>1, ReturnFields DEF E!EndFind
    <3> QED BY <1>5, <3>1, <3>2
  <2> QED BY <1>0, <2>1, <2>2 DEF Following, E!Running, Starting, Entering, Ending, E!Open
<1>6. CASE E!EndUpdate(t)
  <2>1. UNCHANGED <<link, wire, closed, quitting, escaping>> /\ run[t].pc \in Ending /\ run'[t].pc = "idle"
    BY <1>0, <1>6, ReturnFields DEF E!EndUpdate, E!room, E!client, E!net, Ending
  <2>2. E!Open' = {}
    BY <1>0, <1>6, LogPut DEF E!EndUpdate, Finding
  <2> QED BY <1>0, <2>1, <2>2 DEF Following, E!Running, Starting, Entering, Ending
<1>7. CASE E!GiveUpTx(t) \/ E!GiveUpRead(t) \/ E!GiveUpSave(t)
  <2>1. run'[t].pc \in {"giveup_read", "giveup_save", "giveup_kick"}
    BY <1>0, <1>7, GotoFields, CopyFields DEF E!GiveUpTx, E!GiveUpRead, E!GiveUpSave, E!PCs
  <2> QED BY <2>1 DEF Following, Starting, Entering, Ending
<1>8. CASE E!GiveUpKick(t)
  BY <1>8 DEF E!GiveUpKick, Following
<1> QED BY <1>1, <1>2, <1>3, <1>4, <1>5, <1>6, <1>7, <1>8 DEF E!Advance

LEMMA FollowInit == E!Init => FInv
<1> SUFFICES ASSUME E!Init PROVE FInv
  OBVIOUS
<1>1. EscapeTelling
  BY EscapesGiven DEF E!EscapesAssumption, E!Init, EscapeTelling, Told
<1>2. E!Open = {}
  BY DEF E!Init, E!Open, E!NoLog
<1>3. \A t \in Lanes : Following(t)
  BY <1>2, IdleFields DEF E!Init, Following, Starting, Entering, Ending
<1> QED BY <1>1, <1>3, EntryInit, LogsInit DEF FInv

LEMMA FollowStep == Serial /\ Plain /\ FInv /\ [E!Next]_E!vars => FInv'
<1> SUFFICES ASSUME Serial, Plain, FInv, [E!Next]_E!vars PROVE FInv'
  OBVIOUS
<1>0. EInv' /\ LInv' /\ EscapeTelling'
  BY EntryStep, LogsStep, TellingStep DEF FInv, EInv
<1>1. CASE E!Page
  BY <1>0, <1>1, FollowPage DEF FInv
<1>2. CASE \E t \in Lanes : E!Arrive(t) \/ E!Advance(t)
  <2>1. \A u \in Lanes : Following(u)'
    BY <1>2, FollowArrive, FollowAdvance, OneHandler
  <2> QED BY <1>0, <2>1 DEF FInv
<1>3. CASE E!EndSession \/ UNCHANGED E!vars
  <2>1. UNCHANGED <<run, logs, link, wire, escaping, quitting>> /\ (~closed' => ~closed)
    BY <1>3 DEF E!EndSession, E!vars, E!room, E!client, E!net
  <2>2. \A u \in Lanes : Following(u)'
    BY <2>1, FollowStay DEF E!Running
  <2> QED BY <1>0, <2>2 DEF FInv
<1>4. CASE E!Crash
  <2>1. \A u \in Lanes : Following(u)'
    BY <1>4 DEF E!Crash, Following
  <2> QED BY <1>0, <2>1 DEF FInv
<1> QED BY <1>1, <1>2, <1>3, <1>4 DEF E!Next

\* When everything has been dealt with, a member with an account is charged
\* exactly while looking away from a connected page in a focus slot, whatever was
\* lost, retried or restarted before (useFocusEscapeTracking, EscapeService).
THEOREM ChargedWhileAway == ASSUME Serial, Plain PROVE EscapesSpec => []ChargedAsAway
<1>1. FInv => E!ChargedAsAway
  <2> SUFFICES ASSUME FInv, E!Quiet, E!Running, link # None
               PROVE  E!Open # {} <=> page = "away" /\ focus
    BY DEF E!ChargedAsAway, E!PresentNotCharged, E!AwayCharged
  <2>1. PICK t \in Lanes : TRUE
    BY DEF Serial
  <2> QED BY DEF FInv, Following, EscapeTelling, E!Quiet, E!Free
<1> QED BY <1>1, FollowInit, FollowStep, PTL DEF EscapesSpec, E!Spec, ChargedAsAway
=============================================================================
