----------------------- MODULE SessionLifecycleProofs -----------------------
(* Type correctness of SessionLifecycle; why nobody is judged before the   *)
(* end of a session that began; why a running session keeps its end in     *)
(* sight and the phase its promise through restarts and rejected calls;    *)
(* why the last give-up ends it and a cleanup spares it.  For every set of *)
(* members and slots and every bound.                                      *)
EXTENDS SessionLifecycle, TLAPS

\* The awaits that lie behind the start of a session ...
AfterStart ==
  {"start_read", "start_save", "start_cancel", "start_end", "start_notices",
   "giveup_tx", "giveup_settle", "giveup_job", "giveup_read", "giveup_save",
   "giveup_count", "end_check", "end_db", "end_read", "end_save", "end_settle",
   "end_cancel", "end_reveal", "boot_end", "boot_notices"}

\* ... and those from which results are written, behind its end.
AfterEnd == {"end_read", "end_save", "end_settle", "result_settle"}

PhaseRecorded ==
  /\ phase = "timer" => started
  /\ phase = "result" => ended

JobsRecorded ==
  /\ queue[EndJob].state # "none" => started
  /\ \A t \in Tasks : task[t].job = EndJob => started

TasksRecorded ==
  \A t \in Tasks : /\ task[t].pc \in AfterStart => started
                   /\ task[t].pc \in AfterEnd => ended
                   /\ task[t].pc = "giveup_tx" => task[t].who \in Members
                   /\ task[t].pc = "giveup_settle" => task[t].who \in gaveUp

\* The inductive invariant.
IInv == TypeOK /\ SettledJustified /\ NothingBeforeStart
        /\ PhaseRecorded /\ JobsRecorded /\ TasksRecorded

-----------------------------------------------------------------------------
(* The helpers keep the types. *)

LEMMA JobIdsFacts ==
  /\ EndJob \in JobIds
  /\ \A m \in Members : RevealJob(m) \in JobIds
  /\ NoticeJobs \subseteq JobIds
BY DEF JobIds, RevealJob, RevealJobs

LEMMA PCsFacts ==
  /\ "idle" \in PCs /\ "connect_read" \in PCs /\ "connect_save" \in PCs /\ "contract_read" \in PCs
  /\ "contract_save" \in PCs /\ "contract_db" \in PCs /\ "touch_save" \in PCs
  /\ "start_sign" \in PCs /\ "start_db" \in PCs /\ "start_read" \in PCs
  /\ "start_save" \in PCs /\ "start_cancel" \in PCs /\ "start_end" \in PCs
  /\ "start_notices" \in PCs /\ "giveup_tx" \in PCs /\ "giveup_settle" \in PCs
  /\ "giveup_job" \in PCs /\ "giveup_read" \in PCs /\ "giveup_save" \in PCs
  /\ "giveup_count" \in PCs /\ "end_check" \in PCs /\ "end_db" \in PCs
  /\ "end_read" \in PCs /\ "end_save" \in PCs /\ "end_settle" \in PCs
  /\ "end_cancel" \in PCs /\ "end_reveal" \in PCs /\ "delete_both" \in PCs
  /\ "delete_db" \in PCs /\ "delete_state" \in PCs /\ "closed_cancel" \in PCs
  /\ "cleanup_active" \in PCs /\ "cleanup_count" \in PCs /\ "job_dispatch" \in PCs
  /\ "job_reveal" \in PCs /\ "result_settle" \in PCs /\ "result_reveal" \in PCs
  /\ "boot_scan" \in PCs /\ "boot_end" \in PCs /\ "boot_notices" \in PCs
BY DEF PCs

LEMMA PhasesFacts ==
  /\ "contract" \in Phases /\ "timer" \in Phases /\ "result" \in Phases /\ "closed" \in Phases
BY DEF Phases

LEMMA GoneType == Gone \in JobStates
BY DEF Gone, JobStates

LEMMA IdleType == IdleTask \in TaskStates
BY DEF IdleTask, TaskStates, PCs

LEMMA GotoType ==
  ASSUME TypeOK, NEW t \in Tasks, NEW from, NEW to \in PCs, Goto(t, from, to)
  PROVE  task' \in [Tasks -> TaskStates]
BY DEF TypeOK, Goto, TaskStates

LEMMA PcType ==
  ASSUME TypeOK, NEW t \in Tasks, NEW to \in PCs
  PROVE  [task EXCEPT ![t].pc = to] \in [Tasks -> TaskStates]
BY DEF TypeOK, TaskStates

LEMMA PcSeenType ==
  ASSUME TypeOK, NEW t \in Tasks, NEW to \in PCs, NEW s \in Phases \cup {NoOne}
  PROVE  [task EXCEPT ![t].pc = to, ![t].seen = s] \in [Tasks -> TaskStates]
<1>1. task[t] \in TaskStates
  BY DEF TypeOK
<1>2. [task[t] EXCEPT !.pc = to] \in TaskStates
  BY <1>1 DEF TaskStates
<1>3. [task[t] EXCEPT !.pc = to, !.seen = s] \in TaskStates
  BY <1>2 DEF TaskStates
<1> QED BY <1>3 DEF TypeOK

LEMMA TodoType ==
  ASSUME TypeOK, NEW t \in Tasks, NEW to \in PCs, NEW js \in SUBSET JobIds
  PROVE  /\ [task EXCEPT ![t].todo = js] \in [Tasks -> TaskStates]
         /\ [task EXCEPT ![t].pc = to, ![t].todo = js] \in [Tasks -> TaskStates]
<1>1. task[t] \in TaskStates
  BY DEF TypeOK
<1>2. [task[t] EXCEPT !.todo = js] \in TaskStates
  BY <1>1 DEF TaskStates
<1>3. [task[t] EXCEPT !.pc = to] \in TaskStates
  BY <1>1 DEF TaskStates
<1>4. [task[t] EXCEPT !.pc = to, !.todo = js] \in TaskStates
  BY <1>3 DEF TaskStates
<1>5. [task EXCEPT ![t].todo = js] \in [Tasks -> TaskStates]
  BY <1>2 DEF TypeOK
<1>6. [task EXCEPT ![t].pc = to, ![t].todo = js] \in [Tasks -> TaskStates]
  BY <1>4 DEF TypeOK
<1> QED BY <1>5, <1>6

LEMMA FieldsType ==
  ASSUME TypeOK, NEW t \in Tasks
  PROVE  task[t].seen \in Phases \cup {NoOne} /\ task[t].todo \subseteq JobIds
BY DEF TypeOK, TaskStates

LEMMA AddedType ==
  ASSUME NEW q \in [JobIds -> JobStates], NEW ids, NEW n \in 0..3
  PROVE  Added(q, ids, n) \in [JobIds -> JobStates]
BY DEF Added, JobStates

LEMMA CancelledType ==
  ASSUME NEW q \in [JobIds -> JobStates]
  PROVE  Cancelled(q) \in [JobIds -> JobStates]
BY GoneType DEF Cancelled

LEMMA ReturnType ==
  ASSUME TypeOK, NEW t \in Tasks, NEW q \in [JobIds -> JobStates], Return(t, q)
  PROVE  task' \in [Tasks -> TaskStates] /\ queue' \in [JobIds -> JobStates]
BY GoneType, IdleType DEF TypeOK, Return

LEMMA IssueType ==
  ASSUME TypeOK, NEW t \in Tasks, NEW kind \in RequestKinds, NEW pc \in PCs,
         NEW who \in Members \cup {NoOne}, Issue(t, kind, pc, who)
  PROVE  task' \in [Tasks -> TaskStates]
BY IdleType DEF TypeOK, Issue, TaskStates, IdleTask

LEMMA ReadStateType ==
  ASSUME TypeOK, NEW t \in Tasks, NEW from, NEW save \in PCs, NEW skip \in PCs,
         ReadState(t, from, save, skip)
  PROVE  TypeOK'
<1>1. task' \in [Tasks -> TaskStates]
  BY PcSeenType DEF ReadState, TypeOK
<1> QED BY <1>1 DEF ReadState, TypeOK, session, marks, used

LEMMA SaveStateType ==
  ASSUME TypeOK, NEW t \in Tasks, NEW from, NEW to \in PCs, NEW p \in Phases \cup {NoOne},
         SaveState(t, from, to, p)
  PROVE  TypeOK'
<1>1. task' \in [Tasks -> TaskStates]
  BY PcSeenType DEF SaveState
<1> QED BY <1>1 DEF SaveState, TypeOK, session, marks, used

LEMMA NotifyType ==
  ASSUME TypeOK, NEW t \in Tasks, NEW pc \in PCs, NEW n \in 0..3, Notify(t, pc, n)
  PROVE  TypeOK'
<1>1. task' \in [Tasks -> TaskStates] /\ queue' \in [JobIds -> JobStates]
  <2>0. queue \in [JobIds -> JobStates]
    BY DEF TypeOK
  <2>1. CASE task[t].todo = {} /\ Return(t, queue)
    BY <2>0, <2>1, ReturnType
  <2>2. ASSUME NEW j \in task[t].todo, queue' = Added(queue, {j}, n),
               task' = [task EXCEPT ![t].todo = @ \ {j}]
        PROVE  task' \in [Tasks -> TaskStates] /\ queue' \in [JobIds -> JobStates]
    <3>1. task[t].todo \ {j} \in SUBSET JobIds
      BY FieldsType
    <3> QED BY <2>0, <2>2, <3>1, TodoType, AddedType
  <2> QED BY <2>1, <2>2 DEF Notify
<1> QED BY <1>1 DEF Notify, TypeOK, session, marks, used

-----------------------------------------------------------------------------
LEMMA ArriveType ==
  ASSUME TypeOK, NEW t \in Tasks, Arrive(t)
  PROVE  TypeOK'
<1> USE PCsFacts DEF RequestKinds
<1>1. CASE Touch(t)
  BY <1>1, IssueType DEF Touch, TypeOK, session, marks, used
<1>2. CASE Connect(t)
  BY <1>2, IssueType DEF Connect, TypeOK, session, marks, used
<1>3. CASE Start(t)
  BY <1>3, IssueType DEF Start, TypeOK, session, marks
<1>4. CASE Leave(t)
  BY <1>4, IssueType DEF Leave, TypeOK, session, marks, used
<1>5. CASE Cleanup(t)
  BY <1>5, IssueType DEF Cleanup, TypeOK, session, marks, used
<1>6. CASE Result(t)
  BY <1>6, IssueType DEF Result, TypeOK, session, marks, used
<1>7. ASSUME NEW m \in Members, GiveUp(t, m) PROVE TypeOK'
  BY <1>7, IssueType DEF GiveUp, TypeOK, session, marks, used
<1> QED BY <1>1, <1>2, <1>3, <1>4, <1>5, <1>6, <1>7 DEF Arrive

LEMMA AdvanceType ==
  ASSUME TypeOK, TasksRecorded, NEW t \in Tasks, Advance(t)
  PROVE  TypeOK'
<1> USE PCsFacts, PhasesFacts
<1>1. CASE TouchSave(t)
  BY <1>1, ReturnType, FieldsType DEF TouchSave, TypeOK, session, marks, used
<1>2. CASE ConnectSave(t)
  BY <1>2, SaveStateType, FieldsType DEF ConnectSave
<1>38. CASE ConnectRead(t)
  BY <1>38, ReadStateType DEF ConnectRead
<1>3. CASE ContractRead(t)
  BY <1>3, ReturnType, PcType DEF ContractRead, TypeOK, session, marks, used
<1>4. CASE ContractSave(t)
  BY <1>4, SaveStateType DEF ContractSave
<1>5. CASE ContractDB(t)
  BY <1>5, ReturnType DEF ContractDB, TypeOK, session, marks, used
<1>6. CASE StartSign(t)
  BY <1>6, ReturnType, PcType DEF StartSign, TypeOK, session, marks, used
<1>7. CASE StartDB(t)
  BY <1>7, GotoType DEF StartDB, TypeOK, session, marks, used
<1>8. CASE StartRead(t)
  BY <1>8, ReadStateType DEF StartRead
<1>9. CASE StartSave(t)
  BY <1>9, SaveStateType DEF StartSave
<1>10. CASE StartCancel(t)
  BY <1>10, GotoType, CancelledType DEF StartCancel, TypeOK, session, marks, used
<1>11. CASE StartEnd(t)
  <2>1. NoticeJobs \in SUBSET JobIds
    BY JobIdsFacts
  <2>2. task' \in [Tasks -> TaskStates]
    BY <1>11, <2>1, TodoType DEF StartEnd
  <2>3. queue' \in [JobIds -> JobStates]
    BY <1>11, AddedType DEF StartEnd, TypeOK
  <2> QED BY <1>11, <2>2, <2>3 DEF StartEnd, TypeOK, session, marks, used
<1>12. CASE StartNotices(t)
  BY <1>12, NotifyType DEF StartNotices
<1>13. CASE GiveUpTx(t)
  BY <1>13, GotoType DEF GiveUpTx, Goto, TasksRecorded, TypeOK, session, marks, used
<1>14. CASE GiveUpSettle(t)
  BY <1>14, GotoType DEF GiveUpSettle, Goto, TasksRecorded, TypeOK, session, marks, used
<1>15. CASE GiveUpJob(t)
  BY <1>15, GotoType, AddedType DEF GiveUpJob, TypeOK, session, marks, used
<1>16. CASE GiveUpRead(t)
  BY <1>16, ReadStateType DEF GiveUpRead
<1>17. CASE GiveUpSave(t)
  BY <1>17, SaveStateType, FieldsType DEF GiveUpSave
<1>18. CASE GiveUpCount(t)
  BY <1>18, ReturnType, PcType DEF GiveUpCount, TypeOK, session, marks, used
<1>19. CASE EndCheck(t)
  BY <1>19, ReturnType, PcType DEF EndCheck, TypeOK, session, marks, used
<1>20. CASE EndDB(t)
  BY <1>20, GotoType DEF EndDB, TypeOK, session, marks, used
<1>21. CASE EndRead(t)
  BY <1>21, ReadStateType DEF EndRead
<1>22. CASE EndSave(t)
  BY <1>22, SaveStateType DEF EndSave
<1>23. CASE EndSettle(t)
  BY <1>23, GotoType DEF EndSettle, TypeOK, session, marks, used
<1>24. CASE EndCancel(t)
  BY <1>24, GotoType, CancelledType DEF EndCancel, TypeOK, session, marks, used
<1>25. CASE EndReveal(t)
  BY <1>25, ReturnType, AddedType DEF EndReveal, TypeOK, session, marks, used
<1>26. CASE CleanupActive(t)
  BY <1>26, ReturnType, PcType DEF CleanupActive, TypeOK, session, marks, used
<1>27. CASE CleanupCount(t)
  BY <1>27, ReturnType, PcType DEF CleanupCount, TypeOK, session, marks, used
<1>28. CASE DeleteState(t)
  BY <1>28, GotoType DEF DeleteState, TypeOK, session, marks, used
<1>29. CASE DeleteDB(t)
  BY <1>29, GotoType DEF DeleteDB, TypeOK, session, marks, used
<1>30. CASE ClosedCancel(t)
  BY <1>30, ReturnType, CancelledType DEF ClosedCancel, TypeOK, session, marks, used
<1>31. CASE ResultSettle(t)
  BY <1>31, GotoType DEF ResultSettle, TypeOK, session, marks, used
<1>32. CASE ResultReveal(t)
  BY <1>32, ReturnType DEF ResultReveal, TypeOK, session, marks, used
<1>33. CASE JobDispatch(t)
  BY <1>33, ReturnType, PcType DEF JobDispatch, TypeOK, session, marks, used
<1>34. CASE JobReveal(t)
  BY <1>34, ReturnType DEF JobReveal, TypeOK, session, marks, used
<1>35. CASE BootScan(t)
  BY <1>35, ReturnType, PcType DEF BootScan, TypeOK, session, marks, used
<1>36. CASE BootEnd(t)
  <2>1. PICK future \in SUBSET NoticeJobs :
          task' = [task EXCEPT ![t].pc = "boot_notices", ![t].todo = future]
    BY <1>36 DEF BootEnd
  <2>2. future \in SUBSET JobIds
    BY JobIdsFacts
  <2>3. task' \in [Tasks -> TaskStates]
    BY <2>1, <2>2, TodoType
  <2>4. queue' \in [JobIds -> JobStates]
    BY <1>36, AddedType DEF BootEnd, TypeOK
  <2> QED BY <1>36, <2>3, <2>4 DEF BootEnd, TypeOK, session, marks, used
<1>37. CASE BootNotices(t)
  BY <1>37, NotifyType DEF BootNotices
<1> QED
  BY <1>1, <1>2, <1>3, <1>4, <1>5, <1>6, <1>7, <1>8, <1>9, <1>10, <1>11, <1>12, <1>13, <1>14, <1>15, <1>16, <1>17, <1>18, <1>19, <1>20, <1>21, <1>22, <1>23, <1>24, <1>25, <1>26, <1>27, <1>28, <1>29, <1>30, <1>31, <1>32, <1>33, <1>34, <1>35, <1>36, <1>37, <1>38 DEF Advance

LEMMA PickJobType ==
  ASSUME TypeOK, NEW w \in Workers, NEW j \in JobIds, PickJob(w, j)
  PROVE  TypeOK'
<1>1. w \in Tasks
  BY DEF Tasks
<1>2. [queue[j] EXCEPT !.state = "active"] \in JobStates
  BY DEF TypeOK, JobStates
<1>3. queue' \in [JobIds -> JobStates]
  BY <1>2 DEF PickJob, TypeOK
<1>4. [IdleTask EXCEPT !.pc = "job_dispatch", !.job = j] \in TaskStates
  BY IdleType, PCsFacts DEF TaskStates
<1>5. task' \in [Tasks -> TaskStates]
  BY <1>1, <1>4 DEF PickJob, TypeOK
<1> QED BY <1>3, <1>5 DEF PickJob, TypeOK, session, marks, used

LEMMA SwallowType ==
  ASSUME TypeOK, NEW t \in Tasks, Swallow(t)
  PROVE  TypeOK'
<1>1. Swallowed[task[t].pc] \in PCs
  BY PCsFacts DEF Swallow, Swallowed
<1>2. task' \in [Tasks -> TaskStates]
  BY <1>1, PcType DEF Swallow
<1> QED BY <1>2 DEF Swallow, TypeOK, session, marks

LEMMA FailType ==
  ASSUME TypeOK, NEW t \in Tasks, Fail(t)
  PROVE  TypeOK'
<1>1. task' \in [Tasks -> TaskStates]
  BY IdleType DEF Fail, TypeOK
<1>2. ASSUME NEW j \in JobIds
      PROVE  queue'[j] \in JobStates
  BY DEF Fail, TypeOK, JobStates
<1>3. queue' \in [JobIds -> JobStates]
  BY <1>2 DEF Fail
<1> QED BY <1>1, <1>3 DEF Fail, TypeOK, session, marks

LEMMA CrashType ==
  ASSUME TypeOK, Crash
  PROVE  TypeOK'
<1>1. [IdleTask EXCEPT !.pc = "boot_scan"] \in TaskStates
  BY IdleType, PCsFacts DEF TaskStates
<1>2. task' \in [Tasks -> TaskStates]
  BY <1>1, IdleType DEF Crash
<1>3. ASSUME NEW j \in JobIds
      PROVE  [queue[j] EXCEPT !.state = "delayed"] \in JobStates
  BY DEF TypeOK, JobStates
<1>4. queue' \in [JobIds -> JobStates]
  BY <1>3 DEF Crash, TypeOK
<1> QED BY <1>2, <1>4 DEF Crash, TypeOK, session, marks

-----------------------------------------------------------------------------
(* The invariant holds in every state. *)

\* What IInv says beyond the types.
Recorded == SettledJustified /\ NothingBeforeStart
            /\ PhaseRecorded /\ JobsRecorded /\ TasksRecorded

LEMMA ArriveRecorded ==
  ASSUME TypeOK, Recorded, NEW t \in Tasks, Arrive(t)
  PROVE  Recorded'
<1> USE NullAssumption, JobIdsFacts
    DEF Recorded, SettledJustified, NothingBeforeStart, PhaseRecorded, JobsRecorded,
        TasksRecorded, AfterStart, AfterEnd, TypeOK, session, marks, used, IdleTask, Issue
<1>1. CASE Touch(t)
  BY <1>1 DEF Touch
<1>2. CASE Connect(t)
  BY <1>2 DEF Connect
<1>3. CASE Start(t)
  BY <1>3 DEF Start
<1>4. CASE Leave(t)
  BY <1>4 DEF Leave
<1>5. CASE Cleanup(t)
  BY <1>5 DEF Cleanup
<1>6. CASE Result(t)
  BY <1>6 DEF Result
<1>7. ASSUME NEW m \in Members, GiveUp(t, m) PROVE Recorded'
  BY <1>7 DEF GiveUp
<1> QED BY <1>1, <1>2, <1>3, <1>4, <1>5, <1>6, <1>7 DEF Arrive

\* A handler that returns leaves the records alone.
LEMMA ReturnRecorded ==
  ASSUME TypeOK, Recorded, NEW t \in Tasks, NEW q, Return(t, q),
         q[EndJob].state # "none" => started,
         UNCHANGED <<phase, session, marks>>
  PROVE  Recorded'
<1> USE NullAssumption, JobIdsFacts
    DEF Recorded, TasksRecorded, JobsRecorded, AfterStart, AfterEnd, session, marks,
        IdleTask, Gone, Return, TypeOK
<1>1. SettledJustified' /\ NothingBeforeStart' /\ PhaseRecorded'
  BY DEF SettledJustified, NothingBeforeStart, PhaseRecorded
<1>2. TasksRecorded'
  OBVIOUS
<1>3. JobsRecorded'
  OBVIOUS
<1> QED BY <1>1, <1>2, <1>3

\* So does one that goes on to a place where it needs no more than is recorded.
LEMMA MoveRecorded ==
  ASSUME TypeOK, Recorded, NEW t \in Tasks, NEW to,
         task' = [task EXCEPT ![t].pc = to], UNCHANGED <<phase, session, marks, queue>>,
         to \in AfterStart => started, to \in AfterEnd => ended,
         to \notin {"giveup_tx", "giveup_settle"}
  PROVE  Recorded'
<1> USE DEF Recorded, TasksRecorded, JobsRecorded, AfterStart, AfterEnd, session, marks,
        TaskStates, TypeOK
<1>1. SettledJustified' /\ NothingBeforeStart' /\ PhaseRecorded'
  BY DEF SettledJustified, NothingBeforeStart, PhaseRecorded
<1>2. TasksRecorded'
  OBVIOUS
<1>3. JobsRecorded'
  OBVIOUS
<1> QED BY <1>1, <1>2, <1>3

LEMMA NotifyRecorded ==
  ASSUME TypeOK, Recorded, NEW t \in Tasks, NEW n, NEW pc \in AfterStart, Notify(t, pc, n)
  PROVE  Recorded'
<1>1. started
  BY DEF Notify, Recorded, TasksRecorded
<1>2. CASE task[t].todo = {} /\ Return(t, queue)
  BY <1>1, <1>2, ReturnRecorded DEF Notify
<1>3. ASSUME NEW j \in task[t].todo, queue' = Added(queue, {j}, n),
             task' = [task EXCEPT ![t].todo = @ \ {j}]
      PROVE  Recorded'
  <2> USE <1>1, <1>3 DEF Notify, Recorded, session, marks
  <2>1. SettledJustified' /\ NothingBeforeStart' /\ PhaseRecorded'
    BY DEF SettledJustified, NothingBeforeStart, PhaseRecorded
  <2>2. TasksRecorded'
    BY DEF TasksRecorded, TypeOK, TaskStates
  <2>3. JobsRecorded'
    BY SMTT(30) DEF JobsRecorded
  <2> QED BY <2>1, <2>2, <2>3
<1> QED BY <1>2, <1>3 DEF Notify

LEMMA AdvanceRecorded ==
  ASSUME TypeOK, Recorded, NEW t \in Tasks, Advance(t)
  PROVE  Recorded'
<1>0. /\ queue[EndJob].state # "none" => started
      /\ task[t].job = EndJob => started
      /\ phase = "timer" => started
      /\ task[t].pc \in AfterStart => started
  BY DEF Recorded, JobsRecorded, PhaseRecorded, TasksRecorded
<1>3. CASE ContractRead(t)
  <2>1. CASE Return(t, queue)
    BY <1>0, <1>3, <2>1, ReturnRecorded DEF session, marks, ContractRead
  <2>2. CASE ~ Return(t, queue)
    BY <1>0, <1>3, <2>2, MoveRecorded DEF session, marks, ContractRead, AfterStart, AfterEnd
  <2> QED BY <2>1, <2>2
<1>6. CASE StartSign(t)
  <2>1. CASE Return(t, queue)
    BY <1>0, <1>6, <2>1, ReturnRecorded DEF session, marks, StartSign
  <2>2. CASE ~ Return(t, queue)
    BY <1>0, <1>6, <2>2, MoveRecorded DEF session, marks, StartSign, AfterStart, AfterEnd
  <2> QED BY <2>1, <2>2
<1>12. CASE StartNotices(t)
  BY <1>12, NotifyRecorded DEF StartNotices, AfterStart
<1>18. CASE GiveUpCount(t)
  <2>1. CASE Return(t, queue)
    BY <1>0, <1>18, <2>1, ReturnRecorded DEF session, marks, GiveUpCount
  <2>2. CASE ~ Return(t, queue)
    BY <1>0, <1>18, <2>2, MoveRecorded DEF session, marks, GiveUpCount, AfterStart, AfterEnd
  <2> QED BY <2>1, <2>2
<1>19. CASE EndCheck(t)
  <2>1. CASE Return(t, queue)
    BY <1>0, <1>19, <2>1, ReturnRecorded DEF session, marks, EndCheck
  <2>2. CASE ~ Return(t, queue)
    BY <1>0, <1>19, <2>2, MoveRecorded DEF session, marks, EndCheck, AfterStart, AfterEnd
  <2> QED BY <2>1, <2>2
<1>26. CASE CleanupActive(t)
  <2>1. CASE Return(t, queue)
    BY <1>0, <1>26, <2>1, ReturnRecorded DEF session, marks, CleanupActive
  <2>2. CASE ~ Return(t, queue)
    BY <1>0, <1>26, <2>2, MoveRecorded DEF session, marks, CleanupActive, AfterStart, AfterEnd
  <2> QED BY <2>1, <2>2
<1>27. CASE CleanupCount(t)
  <2>1. CASE Return(t, queue)
    BY <1>0, <1>27, <2>1, ReturnRecorded DEF session, marks, CleanupCount
  <2>2. CASE ~ Return(t, queue)
    BY <1>0, <1>27, <2>2, MoveRecorded DEF session, marks, CleanupCount, AfterStart, AfterEnd
  <2> QED BY <2>1, <2>2
<1>28. CASE DeleteState(t)
  <2> DEFINE to == IF task[t].pc = "delete_both" THEN "delete_db" ELSE "closed_cancel"
  <2>1. to \notin AfterStart /\ to \notin AfterEnd /\ to \notin {"giveup_tx", "giveup_settle"}
    BY DEF AfterStart, AfterEnd
  <2>2. /\ task' = [task EXCEPT ![t].pc = to]
        /\ UNCHANGED <<phase, session, marks, queue>>
    BY <1>28 DEF DeleteState, Goto, session, marks
  <2> HIDE DEF to
  <2> QED BY <2>1, <2>2, MoveRecorded
<1>33. CASE JobDispatch(t)
  <2>1. CASE Return(t, queue)
    BY <1>0, <1>33, <2>1, ReturnRecorded DEF session, marks, JobDispatch
  <2>2. CASE ~ Return(t, queue)
    <3> DEFINE to == IF task[t].job = EndJob THEN "end_check" ELSE "job_reveal"
    <3>1. /\ to \in AfterStart => started
          /\ to \notin AfterEnd /\ to \notin {"giveup_tx", "giveup_settle"}
      BY <1>0 DEF AfterStart, AfterEnd
    <3>2. /\ task' = [task EXCEPT ![t].pc = to]
          /\ UNCHANGED <<phase, session, marks, queue>>
      BY <1>33, <2>2 DEF JobDispatch, session, marks
    <3> HIDE DEF to
    <3> QED BY <3>1, <3>2, MoveRecorded
  <2> QED BY <2>1, <2>2
<1>35. CASE BootScan(t)
  <2>1. CASE Return(t, queue)
    BY <1>0, <1>35, <2>1, ReturnRecorded DEF session, marks, BootScan
  <2>2. CASE ~ Return(t, queue)
    BY <1>0, <1>35, <2>2, MoveRecorded DEF session, marks, BootScan, AfterStart, AfterEnd
  <2> QED BY <2>1, <2>2
<1>37. CASE BootNotices(t)
  BY <1>37, NotifyRecorded DEF BootNotices, AfterStart
<1> USE NullAssumption, JobIdsFacts
    DEF Recorded, SettledJustified, NothingBeforeStart, PhaseRecorded, JobsRecorded,
        TasksRecorded, AfterStart, AfterEnd, TypeOK, session, marks, used, IdleTask, Gone
<1>1. CASE TouchSave(t)
  BY <1>1 DEF TouchSave, Return
<1>2. CASE ConnectSave(t)
  BY <1>2 DEF ConnectSave, SaveState
<1>38. CASE ConnectRead(t)
  BY <1>38 DEF ConnectRead, ReadState
<1>4. CASE ContractSave(t)
  BY <1>4 DEF ContractSave, SaveState
<1>5. CASE ContractDB(t)
  BY <1>5 DEF ContractDB, Return
<1>7. CASE StartDB(t)
  BY <1>7 DEF StartDB, Goto
<1>8. CASE StartRead(t)
  BY <1>8 DEF StartRead, ReadState
<1>9. CASE StartSave(t)
  BY <1>9 DEF StartSave, SaveState
<1>10. CASE StartCancel(t)
  BY <1>10 DEF StartCancel, Goto, Cancelled, Gone
<1>11. CASE StartEnd(t)
  BY <1>11 DEF StartEnd, Added
<1>13. CASE GiveUpTx(t)
  BY <1>13 DEF GiveUpTx, Goto
<1>14. CASE GiveUpSettle(t)
  BY <1>14 DEF GiveUpSettle, Goto
<1>15. CASE GiveUpJob(t)
  BY <1>15 DEF GiveUpJob, Goto, Added
<1>16. CASE GiveUpRead(t)
  BY <1>16 DEF GiveUpRead, ReadState
<1>17. CASE GiveUpSave(t)
  BY <1>17 DEF GiveUpSave, SaveState
<1>20. CASE EndDB(t)
  BY <1>20 DEF EndDB, Goto
<1>21. CASE EndRead(t)
  BY <1>21 DEF EndRead, ReadState
<1>22. CASE EndSave(t)
  BY <1>22 DEF EndSave, SaveState
<1>23. CASE EndSettle(t)
  BY <1>23 DEF EndSettle, Goto
<1>24. CASE EndCancel(t)
  BY <1>24 DEF EndCancel, Goto, Cancelled, Gone
<1>25. CASE EndReveal(t)
  BY <1>25 DEF EndReveal, Return, Added
<1>29. CASE DeleteDB(t)
  <2>1. CASE Goto(t, "delete_both", "delete_state")
    BY <1>29, <2>1 DEF DeleteDB, Goto
  <2>2. CASE Goto(t, "delete_db", "closed_cancel")
    BY <1>29, <2>2 DEF DeleteDB, Goto
  <2> QED BY <1>29, <2>1, <2>2 DEF DeleteDB
<1>30. CASE ClosedCancel(t)
  BY <1>30 DEF ClosedCancel, Return, Cancelled
<1>31. CASE ResultSettle(t)
  BY <1>31 DEF ResultSettle, Goto
<1>32. CASE ResultReveal(t)
  BY <1>32 DEF ResultReveal, Return
<1>34. CASE JobReveal(t)
  BY <1>34 DEF JobReveal, Return
<1>36. CASE BootEnd(t)
  BY <1>36 DEF BootEnd, Added
<1> QED
  BY <1>1, <1>2, <1>3, <1>4, <1>5, <1>6, <1>7, <1>8, <1>9, <1>10, <1>11, <1>12, <1>13, <1>14, <1>15, <1>16, <1>17, <1>18, <1>19, <1>20, <1>21, <1>22, <1>23, <1>24, <1>25, <1>26, <1>27, <1>28, <1>29, <1>30, <1>31, <1>32, <1>33, <1>34, <1>35, <1>36, <1>37, <1>38 DEF Advance

LEMMA PickJobRecorded ==
  ASSUME TypeOK, Recorded, NEW w \in Workers, NEW j \in JobIds, PickJob(w, j)
  PROVE  Recorded'
<1> USE JobIdsFacts DEF PickJob, Recorded, session, marks, TypeOK, IdleTask
<1>1. SettledJustified' /\ NothingBeforeStart' /\ PhaseRecorded'
  BY DEF SettledJustified, NothingBeforeStart, PhaseRecorded
<1>2. TasksRecorded'
  BY DEF TasksRecorded, AfterStart, AfterEnd
<1>3. JobsRecorded'
  BY DEF JobsRecorded
<1> QED BY <1>1, <1>2, <1>3

LEMMA SwallowRecorded ==
  ASSUME TypeOK, Recorded, NEW t \in Tasks, Swallow(t)
  PROVE  Recorded'
<1>1. task[t].pc \in {"giveup_settle", "giveup_job", "end_settle", "boot_end"}
  BY DEF Swallow, Swallowed
<1>2. Swallowed[task[t].pc] \in {"giveup_job", "giveup_read", "end_cancel", "boot_notices"}
  BY <1>1 DEF Swallowed
<1>3. task[t].pc \in AfterStart => started
  BY DEF Recorded, TasksRecorded
<1> DEFINE to == Swallowed[task[t].pc]
<1>4. /\ to \in AfterStart => started
      /\ to \notin AfterEnd /\ to \notin {"giveup_tx", "giveup_settle"}
  BY <1>1, <1>2, <1>3 DEF AfterStart, AfterEnd
<1>5. /\ task' = [task EXCEPT ![t].pc = to]
      /\ UNCHANGED <<phase, session, marks, queue>>
  BY DEF Swallow, session, marks
<1> HIDE DEF to
<1> QED BY <1>4, <1>5, MoveRecorded

LEMMA FailRecorded ==
  ASSUME TypeOK, Recorded, NEW t \in Tasks, Fail(t)
  PROVE  Recorded'
<1> USE NullAssumption, JobIdsFacts DEF Fail, Recorded, session, marks, TypeOK, IdleTask
<1>1. SettledJustified' /\ NothingBeforeStart' /\ PhaseRecorded'
  BY DEF SettledJustified, NothingBeforeStart, PhaseRecorded
<1>2. TasksRecorded'
  BY DEF TasksRecorded, AfterStart, AfterEnd
<1>3. JobsRecorded'
  BY DEF JobsRecorded
<1> QED BY <1>1, <1>2, <1>3

LEMMA CrashRecorded ==
  ASSUME TypeOK, Recorded, Crash
  PROVE  Recorded'
<1> USE NullAssumption, JobIdsFacts DEF Crash, Recorded, session, marks, TypeOK, IdleTask
<1>1. SettledJustified' /\ NothingBeforeStart' /\ PhaseRecorded'
  BY DEF SettledJustified, NothingBeforeStart, PhaseRecorded
<1>2. TasksRecorded'
  BY DEF TasksRecorded, AfterStart, AfterEnd
<1>3. JobsRecorded'
  BY DEF JobsRecorded, JobStates
<1> QED BY <1>1, <1>2, <1>3

LEMMA TickRecorded ==
  ASSUME Recorded, Tick
  PROVE  Recorded'
BY DEF Tick, Recorded, SettledJustified, NothingBeforeStart, PhaseRecorded, JobsRecorded,
       TasksRecorded, marks

LEMMA InitIInv == Init => IInv
<1> SUFFICES ASSUME Init PROVE IInv
  OBVIOUS
<1> USE NullAssumption, JobIdsFacts DEF Init
<1>1. TypeOK
  BY GoneType, IdleType DEF TypeOK, Phases
<1>2. SettledJustified /\ NothingBeforeStart /\ PhaseRecorded
  BY DEF SettledJustified, NothingBeforeStart, PhaseRecorded
<1>3. JobsRecorded /\ TasksRecorded
  BY DEF JobsRecorded, TasksRecorded, AfterStart, AfterEnd, IdleTask, Gone
<1> QED BY <1>1, <1>2, <1>3 DEF IInv

LEMMA NextIInv == IInv /\ [Next]_vars => IInv'
<1> SUFFICES ASSUME IInv, [Next]_vars PROVE TypeOK' /\ Recorded'
  BY DEF IInv, Recorded
<1>0. TypeOK /\ Recorded /\ TasksRecorded
  BY DEF IInv, Recorded
<1>1. ASSUME NEW t \in Tasks, Arrive(t) PROVE TypeOK' /\ Recorded'
  BY <1>0, <1>1, ArriveType, ArriveRecorded
<1>2. ASSUME NEW t \in Tasks, Advance(t) PROVE TypeOK' /\ Recorded'
  BY <1>0, <1>2, AdvanceType, AdvanceRecorded
<1>3. ASSUME NEW t \in Tasks, Swallow(t) PROVE TypeOK' /\ Recorded'
  BY <1>0, <1>3, SwallowType, SwallowRecorded
<1>4. ASSUME NEW t \in Tasks, Fail(t) PROVE TypeOK' /\ Recorded'
  BY <1>0, <1>4, FailType, FailRecorded
<1>5. ASSUME NEW w \in Workers, NEW j \in JobIds, PickJob(w, j) PROVE TypeOK' /\ Recorded'
  BY <1>0, <1>5, PickJobType, PickJobRecorded
<1>6. CASE Tick
  <2>1. TypeOK'
    BY <1>0, <1>6 DEF Tick, TypeOK, marks, used
  <2> QED BY <1>0, <1>6, <2>1, TickRecorded
<1>7. CASE Crash
  BY <1>0, <1>7, CrashType, CrashRecorded
<1>8. CASE UNCHANGED vars
  BY <1>0, <1>8 DEF vars, session, marks, used, TypeOK, Recorded, SettledJustified,
     NothingBeforeStart, PhaseRecorded, JobsRecorded, TasksRecorded
<1> QED BY <1>1, <1>2, <1>3, <1>4, <1>5, <1>6, <1>7, <1>8 DEF Next

\* Every reachable state satisfies the inductive invariant.
THEOREM InvariantHolds == Spec => []IInv
BY InitIInv, NextIInv, PTL DEF Spec

\* Whatever handlers interleave, however many calls are rejected and wherever
\* the server restarts: the phase is one of the five of the enum, results and
\* give-ups belong to members, and every handler stands at one of its awaits
\* (TimerService, RoomService, SessionProcessor).
THEOREM TypeCorrect == Spec => []TypeOK
<1>1. IInv => TypeOK
  BY DEF IInv
<1> QED BY <1>1, InvariantHolds, PTL

\* Nobody is judged early, for any number of members, handlers and workers: a
\* result row exists only for a member who gave up, or behind the recorded end
\* of the session (PenaltyService and its three callers).
THEOREM JudgedAfterEnd == Spec => []SettledJustified
<1>1. IInv => SettledJustified
  BY DEF IInv
<1> QED BY <1>1, InvariantHolds, PTL

\* No end and no give-up is ever recorded of a session without a start, so no
\* job left in the queue and no restart can end a room that ran no session.
THEOREM NothingEarly == Spec => []NothingBeforeStart
<1>1. IInv => NothingBeforeStart
  BY DEF IInv
<1> QED BY <1>1, InvariantHolds, PTL
-----------------------------------------------------------------------------
(* Who is in flight *)

\* Requests of two kinds are never in flight together.
AreApart(j, k) == \E g \in Apart : {j, k} \subseteq g

Connecting == {"connect_read", "connect_save", "contract_read", "contract_save", "contract_db"}
Starting   == {"start_sign", "start_db", "start_read", "start_save", "start_cancel", "start_end", "start_notices"}
GivingUp   == {"giveup_tx", "giveup_settle", "giveup_job", "giveup_read", "giveup_save", "giveup_count"}
Deleting   == {"cleanup_count", "delete_both", "delete_db", "delete_state", "closed_cancel"}
AtEnd      == {"end_read", "end_save", "end_settle", "end_cancel", "end_reveal"}

\* A handler stands where requests of its kind do.
KindOK(t) ==
  /\ task[t].pc \in Connecting => task[t].kind = "connect"
  /\ task[t].pc = "touch_save" => task[t].kind = "touch"
  /\ task[t].pc \in Starting => task[t].kind = "start"
  /\ task[t].pc \in GivingUp => task[t].kind = "giveup"
  /\ task[t].pc \in Deleting \cup {"cleanup_active"} => task[t].kind \in {"leave", "cleanup"}
  /\ task[t].kind # "none" => t \in Handlers /\ task[t].kind \in Requests

InFlight ==
  /\ \A t \in Tasks : KindOK(t)
  /\ \A t, u \in Handlers : \A g \in Apart : task[t].kind \in g /\ task[u].kind \in g => t = u

-----------------------------------------------------------------------------
(* Restarts and rejected calls *)

\* Two kinds of request, if there are both, are not in flight together.
KeptApart(j, k) == {j, k} \subseteq Requests => AreApart(j, k)

\* A connect overlaps with none of the requests that write the cached state or
\* move the phase before the timer runs, and a start with none that closes.
Restarting ==
  /\ \A k \in {"connect", "start", "touch", "leave", "cleanup"} : KeptApart("connect", k)
  /\ \A k \in {"start", "leave", "cleanup"} : KeptApart("start", k)

\* No session has been started, and none is about to be.
Unstarted == ~started /\ phase \in {"lobby", "closed"}

\* The phase of a room that was started is none before the timer, and the cached
\* state of a room that is about to be or was started is not a lobby's.
Forward ==
  /\ started => phase \in {"timer", "result", "closed"}
  /\ cache = "lobby" => Unstarted
  /\ Requests \cap {"leave", "cleanup"} = {} => phase # "closed"

\* The phase a handler counts on.
Counts(t) ==
  /\ task[t].pc \in {"connect_save", "giveup_save", "touch_save"} /\ task[t].seen = "lobby" => Unstarted
  /\ task[t].pc \in {"contract_save", "contract_db"} => Unstarted
  /\ task[t].pc = "contract_db" => cache # "lobby"
  /\ task[t].pc \in {"start_sign", "start_db"} => phase = "contract"
  /\ task[t].pc \in AtEnd \cup {"delete_state", "closed_cancel"} => phase \in Over

\* The awaits the end job's own handler goes through.
EndPath == AtEnd \cup {"job_dispatch", "end_check", "end_db"}

\* The end job is lost to a rejected call only, or when the session has ended.
EndJobKept ==
  /\ \A t \in Tasks : task[t].job = EndJob => task[t].pc \in EndPath
  /\ faults = 0 => queue[EndJob].state # "failed"
  /\ EndInSight

RInv == IInv /\ InFlight /\ Forward /\ (\A t \in Tasks : Counts(t)) /\ EndJobKept

-----------------------------------------------------------------------------
(* Closing *)

\* No restart, no rejected call, and while a start is in flight no request is
\* that reads or writes the cached state.
Closing ==
  /\ MaxCrashes = 0 /\ MaxFaults = 0 /\ Members # {}
  /\ \A k \in {"connect", "start", "touch", "giveup", "leave", "cleanup"} : AreApart(k, "start")

\* What the cached state says of a session that was started.
Shown ==
  /\ started => phase \in {"timer", "result", "closed"}
  /\ started /\ (\A t \in Tasks : task[t].pc \notin {"start_read", "start_save"}) => cache \in {"timer", "result", NoOne}
  /\ phase = "timer" /\ cache = NoOne => Members \subseteq gaveUp

\* What a handler may still write, and what it has made sure of.
Sure(t) ==
  /\ task[t].pc \in {"touch_save", "connect_save", "giveup_save"} =>
       task[t].seen # NoOne /\ (started => task[t].seen \in {"timer", "result"})
  /\ task[t].pc \in {"contract_save", "contract_db", "start_sign", "start_db"} => ~started
  /\ task[t].pc \in {"start_db", "start_read", "start_save"} => cache # NoOne
  /\ task[t].pc \in Deleting => phase # "timer" \/ Members \subseteq gaveUp

\* From here a handler that sees that all have given up ends the session.
Late == (GivingUp \ {"giveup_tx"}) \cup {"end_check", "end_db"}

\* When the last one has given up, somebody will end the session.
LastOut ==
  Members \subseteq gaveUp =>
    \/ phase \in Over
    \/ \E t \in Tasks : task[t].pc \in Late

CInv == IInv /\ InFlight /\ Shown /\ (\A t \in Tasks : Sure(t)) /\ LastOut

-----------------------------------------------------------------------------
(* What a step does to its handler *)

Others(t) == task' \in [Tasks -> TaskStates] /\ \A u \in Tasks \ {t} : task'[u] = task[u]

Same(t) ==
  task'[t].kind = task[t].kind /\ task'[t].job = task[t].job /\ task'[t].who = task[t].who

LEMMA TaskType ==
  ASSUME TypeOK, NEW t \in Tasks
  PROVE  task[t] \in TaskStates /\ task \in [Tasks -> TaskStates]
BY DEF TypeOK

LEMMA IdleFields ==
  /\ IdleTask \in TaskStates /\ IdleTask.pc = "idle" /\ IdleTask.kind = "none"
  /\ IdleTask.job = NoOne /\ IdleTask.seen = NoOne /\ IdleTask.job # EndJob
<1>1. EndJob # NoOne
  BY NullAssumption, JobIdsFacts
<1> QED BY <1>1, IdleType DEF IdleTask

LEMMA PcShape ==
  ASSUME TypeOK, NEW t \in Tasks, NEW to \in PCs, task' = [task EXCEPT ![t].pc = to]
  PROVE  Others(t) /\ Same(t) /\ task'[t].pc = to /\ task'[t].seen = task[t].seen
<1>1. task[t] \in TaskStates /\ task \in [Tasks -> TaskStates]
  BY TaskType
<1> QED BY <1>1 DEF Others, Same, TaskStates

LEMMA GotoShape ==
  ASSUME TypeOK, NEW t \in Tasks, NEW from, NEW to \in PCs, Goto(t, from, to)
  PROVE  Others(t) /\ Same(t) /\ task[t].pc = from /\ task'[t].pc = to /\ task'[t].seen = task[t].seen
BY PcShape DEF Goto

LEMMA PcSeenShape ==
  ASSUME TypeOK, NEW t \in Tasks, NEW to \in PCs, NEW s \in Phases \cup {NoOne},
         task' = [task EXCEPT ![t].pc = to, ![t].seen = s]
  PROVE  Others(t) /\ Same(t) /\ task'[t].pc = to /\ task'[t].seen = s
<1>1. task[t] \in TaskStates /\ task \in [Tasks -> TaskStates]
  BY TaskType
<1>2. task' \in [Tasks -> TaskStates]
  BY PcSeenType
<1> QED BY <1>1, <1>2 DEF Others, Same, TaskStates

LEMMA ReadShape ==
  ASSUME TypeOK, NEW t \in Tasks, NEW from, NEW save \in PCs, NEW skip \in PCs, ReadState(t, from, save, skip)
  PROVE  /\ Others(t) /\ Same(t) /\ task[t].pc = from /\ task'[t].seen = cache
         /\ task'[t].pc = (IF cache = NoOne THEN skip ELSE save)
         /\ UNCHANGED <<phase, started, ended, elapsed, gaveUp, settled, revealed, cache, queue, starts, crashes, faults>>
<1> DEFINE to == IF cache = NoOne THEN skip ELSE save
<1>1. to \in PCs /\ cache \in Phases \cup {NoOne}
  BY DEF TypeOK
<1>2. task' = [task EXCEPT ![t].pc = to, ![t].seen = cache] /\ task[t].pc = from
  BY DEF ReadState
<1> HIDE DEF to
<1>3. Others(t) /\ Same(t) /\ task'[t].pc = to /\ task'[t].seen = cache
  BY <1>1, <1>2, PcSeenShape
<1> QED BY <1>2, <1>3 DEF ReadState, session, marks, used, to

LEMMA SaveShape ==
  ASSUME TypeOK, NEW t \in Tasks, NEW from, NEW to \in PCs, NEW p, SaveState(t, from, to, p)
  PROVE  /\ Others(t) /\ Same(t) /\ task[t].pc = from /\ task'[t].pc = to /\ cache' = p
         /\ UNCHANGED <<phase, started, ended, elapsed, gaveUp, settled, revealed, queue, starts, crashes, faults>>
BY PcSeenShape DEF SaveState, session, marks, used

LEMMA ReturnShape ==
  ASSUME TypeOK, NEW t \in Tasks, NEW q, Return(t, q)
  PROVE  /\ Others(t) /\ task'[t] = IdleTask /\ task'[t].pc = "idle" /\ task'[t].kind = "none"
         /\ queue'[EndJob] = IF task[t].job = EndJob THEN Gone ELSE q[EndJob]
BY TaskType, IdleFields, JobIdsFacts DEF Return, Others

LEMMA IssueShape ==
  ASSUME TypeOK, NEW t \in Tasks, NEW kind \in RequestKinds, NEW pc \in PCs, NEW who \in Members \cup {NoOne},
         Issue(t, kind, pc, who)
  PROVE  /\ Others(t) /\ task[t].pc = "idle" /\ t \in Handlers /\ kind \in Requests
         /\ task'[t].pc = pc /\ task'[t].kind = kind /\ task'[t].job = NoOne
         /\ kind = "touch" => task'[t].seen = cache
         /\ \A g \in Apart : kind \in g => \A u \in Handlers : task[u].kind \notin g
<1> DEFINE k == [IdleTask EXCEPT !.pc = pc, !.kind = kind, !.who = who, !.seen = IF kind = "touch" THEN cache ELSE NoOne]
<1>1. k.pc = pc /\ k.kind = kind /\ k.job = NoOne /\ (kind = "touch" => k.seen = cache)
  BY DEF IdleTask
<1>2. task' = [task EXCEPT ![t] = k]
  BY DEF Issue
<1> HIDE DEF k
<1>3. task'[t] = k /\ task' \in [Tasks -> TaskStates] /\ \A u \in Tasks \ {t} : task'[u] = task[u]
  BY <1>2, IssueType, TaskType
<1> QED BY <1>1, <1>3 DEF Issue, Others

LEMMA TodoShape ==
  ASSUME TypeOK, NEW t \in Tasks, NEW to \in PCs, NEW js \in SUBSET JobIds,
         task' = [task EXCEPT ![t].pc = to, ![t].todo = js]
  PROVE  Others(t) /\ Same(t) /\ task'[t].pc = to /\ task'[t].seen = task[t].seen
<1>1. task[t] \in TaskStates /\ task \in [Tasks -> TaskStates]
  BY TaskType
<1>2. task' \in [Tasks -> TaskStates]
  BY TodoType
<1> QED BY <1>1, <1>2 DEF Others, Same, TaskStates

LEMMA StartEndShape ==
  ASSUME TypeOK, NEW t \in Tasks, StartEnd(t)
  PROVE  Others(t) /\ Same(t) /\ task[t].pc = "start_end" /\ task'[t].pc = "start_notices"
BY TodoShape, JobIdsFacts, PCsFacts DEF StartEnd

LEMMA BootEndShape ==
  ASSUME TypeOK, NEW t \in Tasks, BootEnd(t)
  PROVE  Others(t) /\ Same(t) /\ task[t].pc = "boot_end" /\ task'[t].pc = "boot_notices"
<1>1. PICK future \in SUBSET NoticeJobs : task' = [task EXCEPT ![t].pc = "boot_notices", ![t].todo = future]
  BY DEF BootEnd
<1>2. future \in SUBSET JobIds
  BY JobIdsFacts
<1> QED BY <1>1, <1>2, TodoShape, PCsFacts DEF BootEnd

LEMMA NotifyShape ==
  ASSUME TypeOK, NEW t \in Tasks, NEW pc \in PCs, NEW n, Notify(t, pc, n)
  PROVE  /\ Others(t) /\ task[t].pc = pc
         /\ \/ task'[t] = IdleTask /\ queue'[EndJob] = (IF task[t].job = EndJob THEN Gone ELSE queue[EndJob])
            \/ /\ Same(t) /\ task'[t].pc = pc /\ task'[t].seen = task[t].seen
               /\ \E j \in task[t].todo : queue' = Added(queue, {j}, n)
         /\ UNCHANGED <<phase, started, ended, elapsed, gaveUp, settled, revealed, cache, starts, crashes, faults>>
<1>1. task[t] \in TaskStates /\ task \in [Tasks -> TaskStates] /\ task[t].todo \subseteq JobIds /\ task[t].pc = pc
  BY TaskType, FieldsType DEF Notify
<1>2. UNCHANGED <<phase, started, ended, elapsed, gaveUp, settled, revealed, cache, starts, crashes, faults>>
  BY DEF Notify, session, marks, used
<1>3. CASE Return(t, queue)
  BY <1>1, <1>2, <1>3, ReturnShape
<1>4. ASSUME NEW j \in task[t].todo, queue' = Added(queue, {j}, n), task' = [task EXCEPT ![t].todo = @ \ {j}]
      PROVE  Others(t) /\ Same(t) /\ task'[t].pc = pc /\ task'[t].seen = task[t].seen
  <2>1. task[t].todo \ {j} \in SUBSET JobIds
    BY <1>1
  <2>2. task' \in [Tasks -> TaskStates]
    BY <1>4, <2>1, TodoType
  <2>3. task'[t] = [task[t] EXCEPT !.todo = @ \ {j}] /\ \A u \in Tasks \ {t} : task'[u] = task[u]
    BY <1>1, <1>4
  <2> QED BY <1>1, <2>2, <2>3 DEF Others, Same, TaskStates
<1> QED BY <1>1, <1>2, <1>3, <1>4 DEF Notify

-----------------------------------------------------------------------------
(* Who is in flight stays known *)

\* A handler goes on among the awaits of its kind.
Within(p, q) ==
  /\ q \in Connecting => p \in Connecting
  /\ q # "touch_save"
  /\ q \in Starting => p \in Starting
  /\ q \in GivingUp => p \in GivingUp
  /\ q \in Deleting \cup {"cleanup_active"} => p \in Deleting \cup {"cleanup_active"}

Goes(t) == Same(t) /\ Within(task[t].pc, task'[t].pc)

LEMMA ConnectGoes ==
  ASSUME TypeOK, NEW t \in Tasks,
         ConnectRead(t) \/ ConnectSave(t) \/ ContractRead(t) \/ ContractSave(t) \/ ContractDB(t)
  PROVE  Others(t) /\ (task'[t] = IdleTask \/ Goes(t))
<1> USE PCsFacts
<1>1. CASE ConnectRead(t)
  BY <1>1, ReadShape DEF ConnectRead, Goes, Within, Connecting, Starting, GivingUp, Deleting
<1>2. CASE ConnectSave(t) \/ ContractSave(t)
  BY <1>2, SaveShape DEF ConnectSave, ContractSave, Goes, Within, Connecting, Starting, GivingUp, Deleting
<1>3. CASE ContractRead(t)
  BY <1>3, PcShape, ReturnShape DEF ContractRead, Goes, Within, Connecting, Starting, GivingUp, Deleting
<1>4. CASE ContractDB(t)
  BY <1>4, ReturnShape DEF ContractDB
<1> QED BY <1>1, <1>2, <1>3, <1>4

LEMMA StartGoes ==
  ASSUME TypeOK, NEW t \in Tasks,
         \/ StartSign(t) \/ StartDB(t) \/ StartRead(t) \/ StartSave(t) \/ StartCancel(t)
         \/ StartEnd(t) \/ StartNotices(t)
  PROVE  Others(t) /\ (task'[t] = IdleTask \/ Goes(t))
<1> USE PCsFacts
<1>1. CASE StartSign(t)
  BY <1>1, PcShape, ReturnShape DEF StartSign, Goes, Within, Connecting, Starting, GivingUp, Deleting
<1>2. CASE StartDB(t) \/ StartCancel(t)
  BY <1>2, GotoShape DEF StartDB, StartCancel, Goes, Within, Connecting, Starting, GivingUp, Deleting
<1>3. CASE StartRead(t)
  BY <1>3, ReadShape DEF StartRead, Goes, Within, Connecting, Starting, GivingUp, Deleting
<1>4. CASE StartSave(t)
  BY <1>4, SaveShape DEF StartSave, Goes, Within, Connecting, Starting, GivingUp, Deleting
<1>5. CASE StartEnd(t)
  BY <1>5, StartEndShape DEF Goes, Within, Connecting, Starting, GivingUp, Deleting
<1>6. CASE StartNotices(t)
  BY <1>6, NotifyShape DEF StartNotices, Goes, Within, Connecting, Starting, GivingUp, Deleting
<1> QED BY <1>1, <1>2, <1>3, <1>4, <1>5, <1>6

LEMMA GiveUpGoes ==
  ASSUME TypeOK, NEW t \in Tasks,
         \/ GiveUpTx(t) \/ GiveUpSettle(t) \/ GiveUpJob(t) \/ GiveUpRead(t) \/ GiveUpSave(t) \/ GiveUpCount(t)
  PROVE  Others(t) /\ (task'[t] = IdleTask \/ Goes(t))
<1> USE PCsFacts
<1>1. CASE GiveUpTx(t) \/ GiveUpSettle(t) \/ GiveUpJob(t)
  BY <1>1, GotoShape DEF GiveUpTx, GiveUpSettle, GiveUpJob, Goes, Within, Connecting, Starting, GivingUp, Deleting
<1>2. CASE GiveUpRead(t)
  BY <1>2, ReadShape DEF GiveUpRead, Goes, Within, Connecting, Starting, GivingUp, Deleting
<1>3. CASE GiveUpSave(t)
  BY <1>3, SaveShape DEF GiveUpSave, Goes, Within, Connecting, Starting, GivingUp, Deleting
<1>4. CASE GiveUpCount(t)
  BY <1>4, PcShape, ReturnShape DEF GiveUpCount, Goes, Within, Connecting, Starting, GivingUp, Deleting
<1> QED BY <1>1, <1>2, <1>3, <1>4

LEMMA EndGoes ==
  ASSUME TypeOK, NEW t \in Tasks,
         \/ EndCheck(t) \/ EndDB(t) \/ EndRead(t) \/ EndSave(t) \/ EndSettle(t) \/ EndCancel(t) \/ EndReveal(t)
  PROVE  Others(t) /\ (task'[t] = IdleTask \/ Goes(t))
<1> USE PCsFacts
<1>1. CASE EndDB(t) \/ EndSettle(t) \/ EndCancel(t)
  BY <1>1, GotoShape DEF EndDB, EndSettle, EndCancel, Goes, Within, Connecting, Starting, GivingUp, Deleting
<1>2. CASE EndRead(t)
  BY <1>2, ReadShape DEF EndRead, Goes, Within, Connecting, Starting, GivingUp, Deleting
<1>3. CASE EndSave(t)
  BY <1>3, SaveShape DEF EndSave, Goes, Within, Connecting, Starting, GivingUp, Deleting
<1>4. CASE EndCheck(t)
  BY <1>4, PcShape, ReturnShape DEF EndCheck, Goes, Within, Connecting, Starting, GivingUp, Deleting
<1>5. CASE EndReveal(t)
  <2> DEFINE q == Added(queue, RevealJobs, 3)
  <2>1. Return(t, q)
    BY <1>5 DEF EndReveal
  <2> HIDE DEF q
  <2> QED BY <2>1, ReturnShape
<1> QED BY <1>1, <1>2, <1>3, <1>4, <1>5

LEMMA DeleteGoes ==
  ASSUME TypeOK, NEW t \in Tasks,
         CleanupActive(t) \/ CleanupCount(t) \/ DeleteState(t) \/ DeleteDB(t) \/ ClosedCancel(t)
  PROVE  Others(t) /\ (task'[t] = IdleTask \/ (Goes(t) /\ task'[t].pc \in Deleting))
<1> USE PCsFacts
<1>1. CASE CleanupActive(t)
  BY <1>1, PcShape, ReturnShape DEF CleanupActive, Goes, Within, Connecting, Starting, GivingUp, Deleting
<1>3. CASE CleanupCount(t)
  BY <1>3, PcShape, ReturnShape DEF CleanupCount, Goes, Within, Connecting, Starting, GivingUp, Deleting
<1>4. CASE ClosedCancel(t)
  <2> DEFINE q == Cancelled(queue)
  <2>1. Return(t, q)
    BY <1>4 DEF ClosedCancel
  <2> HIDE DEF q
  <2> QED BY <2>1, ReturnShape
<1>2. CASE DeleteState(t) \/ DeleteDB(t)
  BY <1>2, GotoShape DEF DeleteState, DeleteDB, Goes, Within, Connecting, Starting, GivingUp, Deleting
<1> QED BY <1>1, <1>2, <1>3, <1>4

LEMMA OtherGoes ==
  ASSUME TypeOK, NEW t \in Tasks,
         \/ TouchSave(t) \/ ResultSettle(t) \/ ResultReveal(t) \/ JobDispatch(t) \/ JobReveal(t)
         \/ BootScan(t) \/ BootEnd(t) \/ BootNotices(t)
  PROVE  Others(t) /\ (task'[t] = IdleTask \/ Goes(t))
<1> USE PCsFacts
<1>1. CASE TouchSave(t) \/ ResultReveal(t) \/ JobReveal(t)
  BY <1>1, ReturnShape DEF TouchSave, ResultReveal, JobReveal
<1>2. CASE ResultSettle(t)
  BY <1>2, GotoShape DEF ResultSettle, Goes, Within, Connecting, Starting, GivingUp, Deleting
<1>3. CASE JobDispatch(t)
  <2>1. CASE Return(t, queue)
    BY <2>1, ReturnShape
  <2>2. CASE ~Return(t, queue)
    <3> DEFINE to == IF task[t].job = EndJob THEN "end_check" ELSE "job_reveal"
    <3>1. task' = [task EXCEPT ![t].pc = to] /\ to \in {"end_check", "job_reveal"}
      BY <1>3, <2>2 DEF JobDispatch
    <3> HIDE DEF to
    <3> QED BY <3>1, PcShape DEF Goes, Within, Connecting, Starting, GivingUp, Deleting
  <2> QED BY <2>1, <2>2
<1>4. CASE BootScan(t)
  <2>1. CASE Return(t, queue)
    BY <2>1, ReturnShape
  <2>2. CASE ~Return(t, queue)
    <3> DEFINE to == IF elapsed THEN "end_check" ELSE "boot_end"
    <3>1. task' = [task EXCEPT ![t].pc = to] /\ to \in {"end_check", "boot_end"}
      BY <1>4, <2>2 DEF BootScan
    <3> HIDE DEF to
    <3> QED BY <3>1, PcShape DEF Goes, Within, Connecting, Starting, GivingUp, Deleting
  <2> QED BY <2>1, <2>2
<1>5. CASE BootEnd(t)
  BY <1>5, BootEndShape DEF Goes, Within, Connecting, Starting, GivingUp, Deleting
<1>6. CASE BootNotices(t)
  BY <1>6, NotifyShape DEF BootNotices, Goes, Within, Connecting, Starting, GivingUp, Deleting
<1> QED BY <1>1, <1>2, <1>3, <1>4, <1>5, <1>6

LEMMA AdvanceGoes ==
  ASSUME TypeOK, NEW t \in Tasks, Advance(t)
  PROVE  Others(t) /\ (task'[t] = IdleTask \/ Goes(t))
BY ConnectGoes, StartGoes, GiveUpGoes, EndGoes, DeleteGoes, OtherGoes, Zenon DEF Advance

\* Requests that are apart: who of one kind is in flight rules out the other.
LEMMA Alone ==
  ASSUME InFlight, NEW j, NEW k, AreApart(j, k), j # "none", k # "none", NEW t \in Tasks, NEW u \in Tasks,
         task[t].kind = j, task[u].kind = k
  PROVE  t = u
BY DEF InFlight, KindOK, AreApart

\* Nobody of the one kind is in flight when a request of the other is issued.
LEMMA AloneIssued ==
  ASSUME InFlight, NEW j, NEW k, AreApart(j, k), k # "none",
         \A g \in Apart : j \in g => \A u \in Handlers : task[u].kind \notin g
  PROVE  \A u \in Tasks : task[u].kind # k
BY DEF InFlight, KindOK, AreApart

LEMMA KindIdle == ASSUME NEW t \in Tasks, task'[t] = IdleTask PROVE KindOK(t)'
BY IdleFields DEF KindOK, Connecting, Starting, GivingUp, Deleting

LEMMA FlightKeeps ==
  ASSUME InFlight, \A t \in Tasks : KindOK(t)' /\ task'[t].kind \in {task[t].kind, "none"}
  PROVE  InFlight'
<1>1. Handlers \subseteq Tasks /\ \A g \in Apart : "none" \notin g
  BY ConstantsAssumption DEF Tasks, RequestKinds
<1> QED BY <1>1 DEF InFlight

LEMMA FlightAdvance ==
  ASSUME TypeOK, InFlight, NEW t \in Tasks, Others(t), task'[t] = IdleTask \/ Goes(t)
  PROVE  InFlight'
<1>1. CASE task'[t] = IdleTask
  <2>1. \A u \in Tasks : KindOK(u)' /\ task'[u].kind \in {task[u].kind, "none"}
    BY <1>1, KindIdle, IdleFields DEF InFlight, KindOK, Others
  <2> QED BY <2>1, FlightKeeps
<1>2. CASE Goes(t)
  <2>1. KindOK(t) /\ Same(t) /\ Within(task[t].pc, task'[t].pc)
    BY <1>2 DEF InFlight, Goes
  <2>2. KindOK(t)'
    BY <2>1 DEF KindOK, Same, Within
  <2>3. \A u \in Tasks : KindOK(u)' /\ task'[u].kind \in {task[u].kind, "none"}
    BY <2>1, <2>2 DEF InFlight, KindOK, Others, Same
  <2> QED BY <2>3, FlightKeeps
<1> QED BY <1>1, <1>2

\* A request arrives.
LEMMA FlightIssue ==
  ASSUME TypeOK, InFlight, NEW t \in Tasks, Others(t), t \in Handlers, NEW kind \in RequestKinds,
         task'[t].kind = kind, kind \in Requests, task[t].pc = "idle",
         \A g \in Apart : kind \in g => \A u \in Handlers : task[u].kind \notin g,
         KindOK(t)'
  PROVE  InFlight'
<1>1. Handlers \subseteq Tasks
  BY DEF Tasks
<1>2. \A u \in Tasks : KindOK(u)'
  BY DEF InFlight, KindOK, Others
<1>3. ASSUME NEW u \in Handlers, NEW v \in Handlers, NEW g \in Apart, task'[u].kind \in g, task'[v].kind \in g
      PROVE  u = v
  BY <1>1, <1>3 DEF InFlight, Others
<1> QED BY <1>2, <1>3 DEF InFlight

LEMMA ArriveShape ==
  ASSUME TypeOK, NEW t \in Tasks, Arrive(t)
  PROVE  /\ Others(t) /\ task[t].pc = "idle" /\ t \in Handlers /\ task'[t].job = NoOne
         /\ task'[t].kind \in Requests /\ task'[t].kind \in RequestKinds
         /\ \A g \in Apart : task'[t].kind \in g => \A u \in Handlers : task[u].kind \notin g
         /\ <<task'[t].kind, task'[t].pc>> \in
              {<<"touch", "touch_save">>, <<"connect", "connect_read">>, <<"start", "start_sign">>,
               <<"leave", "delete_both">>, <<"cleanup", "cleanup_active">>, <<"cleanup", "cleanup_count">>,
               <<"result", "result_reveal">>, <<"result", "result_settle">>, <<"giveup", "giveup_tx">>}
         /\ UNCHANGED <<phase, started, ended, elapsed, gaveUp, settled, revealed, cache, queue, crashes, faults>>
<1> USE PCsFacts DEF RequestKinds
<1>1. CASE Touch(t)
  BY <1>1, IssueShape DEF Touch, session, marks, used
<1>2. CASE Connect(t)
  BY <1>2, IssueShape DEF Connect, session, marks, used
<1>3. CASE Start(t)
  BY <1>3, IssueShape DEF Start, session, marks
<1>4. CASE Leave(t)
  BY <1>4, IssueShape DEF Leave, session, marks, used
<1>5. CASE Cleanup(t)
  BY <1>5, IssueShape DEF Cleanup, session, marks, used
<1>6. CASE Result(t)
  BY <1>6, IssueShape DEF Result, session, marks, used
<1>7. ASSUME NEW m \in Members, GiveUp(t, m)
      PROVE  /\ Others(t) /\ task[t].pc = "idle" /\ t \in Handlers /\ task'[t].job = NoOne
             /\ task'[t].kind = "giveup" /\ "giveup" \in Requests /\ task'[t].pc = "giveup_tx"
             /\ \A g \in Apart : "giveup" \in g => \A u \in Handlers : task[u].kind \notin g
             /\ UNCHANGED <<phase, started, ended, elapsed, gaveUp, settled, revealed, cache, queue, crashes, faults>>
  BY <1>7, IssueShape DEF GiveUp, session, marks, used
<1> QED BY <1>1, <1>2, <1>3, <1>4, <1>5, <1>6, <1>7 DEF Arrive

LEMMA FlightArrive ==
  ASSUME TypeOK, InFlight, NEW t \in Tasks, Arrive(t)
  PROVE  InFlight'
<1>1. KindOK(t)'
  BY ArriveShape DEF KindOK, Connecting, Starting, GivingUp, Deleting
<1> QED BY <1>1, ArriveShape, FlightIssue

\* Swallow, Fail, PickJob and Crash.
LEMMA FailShape ==
  ASSUME TypeOK, NEW t \in Tasks, Fail(t)
  PROVE  Others(t) /\ task'[t] = IdleTask /\ UNCHANGED <<phase, started, cache, gaveUp>> /\ faults' = faults + 1
BY TaskType, IdleFields DEF Fail, Others, session, marks

LEMMA SwallowShape ==
  ASSUME TypeOK, NEW t \in Tasks, Swallow(t)
  PROVE  /\ Others(t) /\ Goes(t) /\ UNCHANGED <<phase, started, cache, gaveUp, queue>> /\ faults' = faults + 1
         /\ task'[t].seen = task[t].seen
         /\ task'[t].pc \in {"giveup_job", "giveup_read", "end_cancel", "boot_notices"}
         /\ task'[t].pc = "end_cancel" => task[t].pc = "end_settle"
<1>1. task[t].pc \in {"giveup_settle", "giveup_job", "end_settle", "boot_end"}
  BY DEF Swallow, Swallowed
<1> DEFINE to == Swallowed[task[t].pc]
<1>2. /\ to \in {"giveup_job", "giveup_read", "end_cancel", "boot_notices"}
      /\ to = "end_cancel" => task[t].pc = "end_settle"
      /\ to \in {"giveup_job", "giveup_read"} => task[t].pc \in {"giveup_settle", "giveup_job"}
  BY <1>1 DEF Swallowed
<1>3. task' = [task EXCEPT ![t].pc = to]
  BY DEF Swallow
<1> HIDE DEF to
<1>4. Others(t) /\ Same(t) /\ task'[t].pc = to /\ task'[t].seen = task[t].seen
  BY <1>2, <1>3, PcShape, PCsFacts
<1>5. Within(task[t].pc, to)
  BY <1>2 DEF Within, Connecting, Starting, GivingUp, Deleting
<1> QED BY <1>2, <1>4, <1>5 DEF Goes, Swallow, session, marks

LEMMA PickShape ==
  ASSUME TypeOK, NEW w \in Workers, NEW j \in JobIds, PickJob(w, j)
  PROVE  /\ Others(w) /\ w \in Tasks /\ task[w].pc = "idle" /\ task'[w].pc = "job_dispatch"
         /\ task'[w].kind = "none" /\ task'[w].job = j
         /\ queue'[j].state = "active" /\ \A i \in JobIds \ {j} : queue'[i] = queue[i]
         /\ UNCHANGED <<phase, started, cache, gaveUp, faults>>
<1> DEFINE k == [IdleTask EXCEPT !.pc = "job_dispatch", !.job = j]
<1>1. k \in TaskStates /\ k.pc = "job_dispatch" /\ k.kind = "none" /\ k.job = j
  BY PCsFacts DEF IdleTask, TaskStates
<1>2. task' = [task EXCEPT ![w] = k] /\ w \in Tasks
  BY DEF PickJob, Tasks
<1> HIDE DEF k
<1>3. Others(w) /\ task'[w] = k
  BY <1>1, <1>2, TaskType DEF Others
<1>4. queue' = [queue EXCEPT ![j] = [queue[j] EXCEPT !.state = "active"]] /\ queue[j] \in JobStates
  BY DEF PickJob, TypeOK
<1>5. queue'[j].state = "active" /\ \A i \in JobIds \ {j} : queue'[i] = queue[i]
  BY <1>4 DEF TypeOK, JobStates
<1> QED BY <1>1, <1>2, <1>3, <1>5 DEF PickJob, session, marks, used

LEMMA CrashShape ==
  ASSUME TypeOK, Crash
  PROVE  /\ \A t \in Tasks : /\ task'[t].pc = (IF t = Boot THEN "boot_scan" ELSE "idle")
                             /\ task'[t].kind = "none" /\ task'[t].job = NoOne /\ NoOne # EndJob
         /\ queue'[EndJob].state = (IF queue[EndJob].state = "active" THEN "delayed" ELSE queue[EndJob].state)
         /\ UNCHANGED <<phase, started, cache, gaveUp, faults>>
<1>1. queue[EndJob] \in JobStates
  BY JobIdsFacts DEF TypeOK
<1>2. queue'[EndJob].state = IF queue[EndJob].state = "active" THEN "delayed" ELSE queue[EndJob].state
  BY <1>1, JobIdsFacts DEF Crash, JobStates
<1> QED BY <1>2, IdleFields DEF Crash, IdleTask, session, marks

LEMMA FlightStep ==
  ASSUME TypeOK, InFlight, [Next]_vars
  PROVE  InFlight'
<1>1. ASSUME NEW t \in Tasks, Advance(t) PROVE InFlight'
  BY <1>1, AdvanceGoes, FlightAdvance
<1>2. ASSUME NEW t \in Tasks, Swallow(t) \/ Fail(t) PROVE InFlight'
  BY <1>2, SwallowShape, FailShape, FlightAdvance
<1>3. ASSUME NEW w \in Workers, NEW j \in JobIds, PickJob(w, j) PROVE InFlight'
  <2>1. KindOK(w)'
    BY <1>3, PickShape DEF KindOK, Connecting, Starting, GivingUp, Deleting
  <2>2. \A u \in Tasks : KindOK(u)' /\ task'[u].kind \in {task[u].kind, "none"}
    BY <1>3, <2>1, PickShape DEF InFlight, KindOK, Others
  <2> QED BY <2>2, FlightKeeps
<1>4. CASE Crash
  <2>1. \A u \in Tasks : KindOK(u)' /\ task'[u].kind \in {task[u].kind, "none"}
    BY <1>4, CrashShape DEF KindOK, Connecting, Starting, GivingUp, Deleting
  <2> QED BY <2>1, FlightKeeps
<1>5. CASE Tick \/ UNCHANGED vars
  BY <1>5 DEF Tick, vars, InFlight, KindOK
<1> QED BY <1>1, <1>2, <1>3, <1>4, <1>5, FlightArrive DEF Next

LEMMA FlightInit == Init => InFlight
<1> SUFFICES ASSUME Init PROVE InFlight
  OBVIOUS
<1>1. \A t \in Tasks : task[t].pc = "idle" /\ task[t].kind = "none"
  BY IdleFields DEF Init
<1>2. Handlers \subseteq Tasks /\ \A g \in Apart : "none" \notin g
  BY ConstantsAssumption DEF Tasks, RequestKinds
<1> QED BY <1>1, <1>2 DEF InFlight, KindOK, Connecting, Starting, GivingUp, Deleting

-----------------------------------------------------------------------------
(* What the handlers do to the phase, its copy and the end job *)

\* The handlers that are about to queue the end job or to end the session.
Sight == {"start_read", "start_save", "start_cancel", "start_end",
          "end_check", "end_db", "boot_scan", "boot_end"}

\* The end job goes when its handler returns or the jobs are cancelled.
JobGoes(t) ==
  /\ queue'[EndJob].state \in {queue[EndJob].state, "delayed", "none"}
  /\ queue'[EndJob].state = "none" =>
       \/ queue[EndJob].state = "none"
       \/ task[t].job = EndJob /\ task'[t].pc = "idle"
       \/ task[t].pc \in {"start_cancel", "end_cancel", "closed_cancel"}

\* While the timer runs, who is about to see to the end goes on until it has.
SightGoes(t) ==
  task[t].pc \in Sight /\ phase = "timer" /\ started =>
    task'[t].pc \in Sight \/ phase' = "result" \/ queue'[EndJob].state # "none"

\* The end job's handler returns only when the session is over.
PathGoes(t) ==
  /\ task[t].pc \in EndPath /\ task'[t].pc = "idle" /\ task[t].job = EndJob =>
       phase \in Over \/ task[t].pc = "end_reveal"
  /\ task[t].pc \in EndPath /\ task[t].job = EndJob => task'[t].pc \in EndPath \/ task'[t] = IdleTask

\* Whoever arrives at the last part of endSession has recorded the end.
EndGate(t) == task'[t].pc \in AtEnd => task[t].pc \in AtEnd \/ phase' = "result"

Marks(t) == JobGoes(t) /\ SightGoes(t) /\ PathGoes(t) /\ EndGate(t)

LEMMA ReturnMarks ==
  ASSUME TypeOK, NEW t \in Tasks, Return(t, queue), task[t].pc \notin Sight \cup EndPath
  PROVE  Marks(t)
<1>1. queue'[EndJob] = (IF task[t].job = EndJob THEN Gone ELSE queue[EndJob]) /\ task'[t].pc = "idle"
  BY ReturnShape
<1> QED BY <1>1 DEF Marks, JobGoes, SightGoes, PathGoes, EndGate, Gone, AtEnd

LEMMA StepMarks ==
  ASSUME NEW t \in Tasks, queue' = queue,
         \/ /\ task[t].pc \notin Sight \cup EndPath /\ task'[t].pc \notin AtEnd
         \/ /\ task[t].pc \in Sight \cup EndPath
            /\ task[t].pc \in Sight => task'[t].pc \in Sight \/ phase' = "result"
            /\ task[t].pc \in EndPath => task'[t].pc \in EndPath
            /\ task'[t].pc \in AtEnd => task[t].pc \in AtEnd \/ phase' = "result"
  PROVE  Marks(t)
BY DEF Marks, JobGoes, SightGoes, PathGoes, EndGate, EndPath, AtEnd, Sight

LEMMA AddedEnd ==
  ASSUME TypeOK, NEW ids, NEW n \in 0..3, queue' = Added(queue, ids, n)
  PROVE  /\ queue'[EndJob].state \in {queue[EndJob].state, "delayed"}
         /\ EndJob \in ids => queue'[EndJob].state # "none"
BY JobIdsFacts DEF TypeOK, Added, JobStates

LEMMA CancelledEnd ==
  ASSUME TypeOK, NEW q, q = Cancelled(queue)
  PROVE  q[EndJob].state \in {queue[EndJob].state, "none"}
BY JobIdsFacts DEF TypeOK, Cancelled, JobStates, Gone

LEMMA NotifyMarks ==
  ASSUME TypeOK, NEW t \in Tasks, NEW pc \in PCs, NEW n \in 0..3, Notify(t, pc, n), pc \notin Sight \cup EndPath
  PROVE  Marks(t)
<1>1. CASE task'[t] = IdleTask /\ queue'[EndJob] = (IF task[t].job = EndJob THEN Gone ELSE queue[EndJob])
  BY <1>1, NotifyShape, IdleFields DEF Marks, JobGoes, SightGoes, PathGoes, EndGate, Gone, AtEnd
<1>2. ASSUME task'[t].pc = pc, task[t].pc = pc, NEW j \in task[t].todo, queue' = Added(queue, {j}, n) PROVE Marks(t)
  <2>1. queue'[EndJob].state \in {queue[EndJob].state, "delayed"}
    BY <1>2, AddedEnd
  <2> QED BY <1>2, <2>1 DEF Marks, JobGoes, SightGoes, PathGoes, EndGate, EndPath
<1> QED BY <1>1, <1>2, NotifyShape

LEMMA ConnectMarks ==
  ASSUME TypeOK, NEW t \in Tasks,
         ConnectRead(t) \/ ConnectSave(t) \/ ContractRead(t) \/ ContractSave(t) \/ ContractDB(t) \/ TouchSave(t)
  PROVE  Marks(t)
<1> USE PCsFacts
<1>1. CASE ConnectRead(t)
  BY <1>1, ReadShape, StepMarks DEF ConnectRead, Sight, EndPath, AtEnd
<1>2. CASE ConnectSave(t) \/ ContractSave(t)
  BY <1>2, SaveShape, StepMarks DEF ConnectSave, ContractSave, Sight, EndPath, AtEnd
<1>3. CASE ContractRead(t)
  BY <1>3, PcShape, ReturnMarks, StepMarks DEF ContractRead, Sight, EndPath, AtEnd
<1>4. CASE ContractDB(t)
  BY <1>4, ReturnMarks DEF ContractDB, Sight, EndPath, AtEnd
<1>5. CASE TouchSave(t)
  BY <1>5, ReturnMarks DEF TouchSave, Sight, EndPath, AtEnd
<1> QED BY <1>1, <1>2, <1>3, <1>4, <1>5

LEMMA StartMarks ==
  ASSUME TypeOK, NEW t \in Tasks,
         \/ StartSign(t) \/ StartDB(t) \/ StartRead(t) \/ StartSave(t) \/ StartCancel(t)
         \/ StartEnd(t) \/ StartNotices(t)
  PROVE  Marks(t)
<1> USE PCsFacts
<1>1. CASE StartSign(t)
  BY <1>1, PcShape, ReturnMarks, StepMarks DEF StartSign, Sight, EndPath, AtEnd
<1>2. CASE StartDB(t)
  BY <1>2, GotoShape, StepMarks DEF StartDB, Sight, EndPath, AtEnd
<1>3. CASE StartRead(t)
  BY <1>3, ReadShape, StepMarks DEF StartRead, Sight, EndPath, AtEnd
<1>4. CASE StartSave(t)
  BY <1>4, SaveShape, StepMarks DEF StartSave, Sight, EndPath, AtEnd
<1>5. CASE StartCancel(t)
  <2>1. task[t].pc = "start_cancel" /\ task'[t].pc = "start_end"
    BY <1>5, GotoShape DEF StartCancel
  <2>2. queue'[EndJob].state \in {queue[EndJob].state, "none"}
    BY <1>5, CancelledEnd DEF StartCancel
  <2> QED BY <2>1, <2>2 DEF Marks, JobGoes, SightGoes, PathGoes, EndGate, EndPath, AtEnd, Sight
<1>6. CASE StartEnd(t)
  <2>1. task[t].pc = "start_end" /\ task'[t].pc = "start_notices"
    BY <1>6, StartEndShape
  <2>2. queue'[EndJob].state \in {queue[EndJob].state, "delayed"} /\ queue'[EndJob].state # "none"
    BY <1>6, AddedEnd, SMTT(30) DEF StartEnd
  <2> QED BY <2>1, <2>2 DEF Marks, JobGoes, SightGoes, PathGoes, EndGate, EndPath, AtEnd, Sight
<1>7. CASE StartNotices(t)
  BY <1>7, NotifyMarks DEF StartNotices, Sight, EndPath, AtEnd
<1> QED BY <1>1, <1>2, <1>3, <1>4, <1>5, <1>6, <1>7

LEMMA GiveUpMarks ==
  ASSUME TypeOK, NEW t \in Tasks,
         \/ GiveUpTx(t) \/ GiveUpSettle(t) \/ GiveUpJob(t) \/ GiveUpRead(t) \/ GiveUpSave(t) \/ GiveUpCount(t)
  PROVE  Marks(t)
<1> USE PCsFacts
<1>1. CASE GiveUpTx(t) \/ GiveUpSettle(t)
  BY <1>1, GotoShape, StepMarks DEF GiveUpTx, GiveUpSettle, Sight, EndPath, AtEnd
<1>2. CASE GiveUpJob(t)
  <2>1. task[t].pc = "giveup_job" /\ task'[t].pc = "giveup_read"
    BY <1>2, GotoShape DEF GiveUpJob
  <2>2. queue'[EndJob].state \in {queue[EndJob].state, "delayed"}
    BY <1>2, AddedEnd DEF GiveUpJob
  <2> QED BY <2>1, <2>2 DEF Marks, JobGoes, SightGoes, PathGoes, EndGate, EndPath, AtEnd, Sight
<1>3. CASE GiveUpRead(t)
  BY <1>3, ReadShape, StepMarks DEF GiveUpRead, Sight, EndPath, AtEnd
<1>4. CASE GiveUpSave(t)
  BY <1>4, SaveShape, StepMarks DEF GiveUpSave, Sight, EndPath, AtEnd
<1>5. CASE GiveUpCount(t)
  BY <1>5, PcShape, ReturnMarks, StepMarks DEF GiveUpCount, Sight, EndPath, AtEnd
<1> QED BY <1>1, <1>2, <1>3, <1>4, <1>5

LEMMA EndMarks ==
  ASSUME TypeOK, NEW t \in Tasks,
         \/ EndCheck(t) \/ EndDB(t) \/ EndRead(t) \/ EndSave(t) \/ EndSettle(t) \/ EndCancel(t) \/ EndReveal(t)
  PROVE  Marks(t)
<1> USE PCsFacts
<1>1. CASE EndDB(t) \/ EndSettle(t)
  BY <1>1, GotoShape, StepMarks DEF EndDB, EndSettle, Sight, EndPath, AtEnd
<1>2. CASE EndRead(t)
  BY <1>2, ReadShape, StepMarks DEF EndRead, Sight, EndPath, AtEnd
<1>3. CASE EndSave(t)
  BY <1>3, SaveShape, StepMarks DEF EndSave, Sight, EndPath, AtEnd
<1>4. CASE EndCheck(t)
  <2>1. CASE phase \in Over
    <3>1. task[t].pc = "end_check" /\ task'[t].pc = "idle" /\ task'[t] = IdleTask
          /\ queue'[EndJob] = IF task[t].job = EndJob THEN Gone ELSE queue[EndJob]
      BY <1>4, <2>1, ReturnShape DEF EndCheck
    <3> QED BY <2>1, <3>1 DEF Marks, JobGoes, SightGoes, PathGoes, EndGate, EndPath, AtEnd, Over, Gone
  <2>2. CASE phase \notin Over
    BY <1>4, <2>2, PcShape, StepMarks DEF EndCheck, Sight, EndPath, AtEnd
  <2> QED BY <2>1, <2>2
<1>5. CASE EndCancel(t)
  <2>1. task[t].pc = "end_cancel" /\ task'[t].pc = "end_reveal"
    BY <1>5, GotoShape DEF EndCancel
  <2>2. queue'[EndJob].state \in {queue[EndJob].state, "none"}
    BY <1>5, CancelledEnd DEF EndCancel
  <2> QED BY <2>1, <2>2 DEF Marks, JobGoes, SightGoes, PathGoes, EndGate, EndPath, AtEnd, Sight
<1>6. CASE EndReveal(t)
  <2> DEFINE q == Added(queue, RevealJobs, 3)
  <2>1. Return(t, q) /\ task[t].pc = "end_reveal"
    BY <1>6 DEF EndReveal
  <2>2. q[EndJob].state \in {queue[EndJob].state, "delayed"}
    BY JobIdsFacts DEF Added, TypeOK, JobStates
  <2> HIDE DEF q
  <2>3. task'[t].pc = "idle" /\ task'[t] = IdleTask /\ queue'[EndJob] = IF task[t].job = EndJob THEN Gone ELSE q[EndJob]
    BY <2>1, ReturnShape
  <2> QED BY <2>1, <2>2, <2>3 DEF Marks, JobGoes, SightGoes, PathGoes, EndGate, EndPath, AtEnd, Sight, Gone
<1> QED BY <1>1, <1>2, <1>3, <1>4, <1>5, <1>6

LEMMA DeleteMarks ==
  ASSUME TypeOK, NEW t \in Tasks,
         CleanupActive(t) \/ CleanupCount(t) \/ DeleteState(t) \/ DeleteDB(t) \/ ClosedCancel(t)
  PROVE  Marks(t)
<1> USE PCsFacts
<1>1. CASE CleanupActive(t)
  BY <1>1, PcShape, ReturnMarks, StepMarks DEF CleanupActive, Sight, EndPath, AtEnd
<1>2. CASE CleanupCount(t)
  BY <1>2, PcShape, ReturnMarks, StepMarks DEF CleanupCount, Sight, EndPath, AtEnd
<1>3. CASE DeleteState(t) \/ DeleteDB(t)
  BY <1>3, GotoShape, StepMarks DEF DeleteState, DeleteDB, Sight, EndPath, AtEnd
<1>4. CASE ClosedCancel(t)
  <2> DEFINE q == Cancelled(queue)
  <2>1. Return(t, q) /\ task[t].pc = "closed_cancel"
    BY <1>4 DEF ClosedCancel
  <2>2. q[EndJob].state \in {queue[EndJob].state, "none"}
    BY CancelledEnd
  <2> HIDE DEF q
  <2>3. task'[t].pc = "idle" /\ task'[t] = IdleTask /\ queue'[EndJob] = IF task[t].job = EndJob THEN Gone ELSE q[EndJob]
    BY <2>1, ReturnShape
  <2> QED BY <2>1, <2>2, <2>3 DEF Marks, JobGoes, SightGoes, PathGoes, EndGate, EndPath, AtEnd, Sight, Gone
<1> QED BY <1>1, <1>2, <1>3, <1>4

LEMMA OtherMarks ==
  ASSUME TypeOK, NEW t \in Tasks,
         \/ ResultSettle(t) \/ ResultReveal(t) \/ JobDispatch(t) \/ JobReveal(t)
         \/ BootScan(t) \/ BootEnd(t) \/ BootNotices(t)
  PROVE  Marks(t)
<1> USE PCsFacts
<1>1. CASE ResultReveal(t)
  BY <1>1, ReturnMarks DEF ResultReveal, Sight, EndPath, AtEnd
<1>2. CASE JobReveal(t)
  BY <1>2, ReturnMarks DEF JobReveal, Sight, EndPath, AtEnd
<1>3. CASE ResultSettle(t)
  BY <1>3, GotoShape, StepMarks DEF ResultSettle, Sight, EndPath, AtEnd
<1>4. CASE JobDispatch(t)
  <2>0. task[t].pc = "job_dispatch" /\ EndJob \notin NoticeJobs
    BY <1>4 DEF JobDispatch, NoticeJobs, EndJob
  <2>1. CASE (phase \in Over \/ task[t].job \in NoticeJobs) /\ Return(t, queue)
    <3>1. task'[t].pc = "idle" /\ task'[t] = IdleTask /\ queue'[EndJob] = IF task[t].job = EndJob THEN Gone ELSE queue[EndJob]
      BY <2>1, ReturnShape
    <3> QED BY <2>0, <2>1, <3>1 DEF Marks, JobGoes, SightGoes, PathGoes, EndGate, EndPath, AtEnd, Sight, Over, Gone
  <2>2. CASE /\ phase \notin Over /\ task[t].job \notin NoticeJobs /\ UNCHANGED queue
             /\ task' = [task EXCEPT ![t].pc = IF task[t].job = EndJob THEN "end_check" ELSE "job_reveal"]
    <3> DEFINE to == IF task[t].job = EndJob THEN "end_check" ELSE "job_reveal"
    <3>1. task' = [task EXCEPT ![t].pc = to] /\ to \in {"end_check", "job_reveal"} /\ queue' = queue
      BY <2>2
    <3>2. task[t].job = EndJob => to = "end_check"
      OBVIOUS
    <3> HIDE DEF to
    <3>3. task'[t].pc = to
      BY <3>1, PcShape
    <3> QED BY <2>0, <3>1, <3>2, <3>3 DEF Marks, JobGoes, SightGoes, PathGoes, EndGate, EndPath, AtEnd, Sight, Over
  <2> QED BY <1>4, <2>1, <2>2 DEF JobDispatch
<1>5. CASE BootScan(t)
  <2>1. CASE phase = "timer" /\ started
    <3> DEFINE to == IF elapsed THEN "end_check" ELSE "boot_end"
    <3>1. task' = [task EXCEPT ![t].pc = to] /\ to \in {"end_check", "boot_end"} /\ queue' = queue /\ task[t].pc = "boot_scan"
      BY <1>5, <2>1 DEF BootScan
    <3> HIDE DEF to
    <3> QED BY <3>1, PcShape DEF Marks, JobGoes, SightGoes, PathGoes, EndGate, EndPath, AtEnd, Sight
  <2>2. CASE ~(phase = "timer" /\ started)
    <3>1. task[t].pc = "boot_scan" /\ task'[t].pc = "idle"
          /\ queue'[EndJob] = IF task[t].job = EndJob THEN Gone ELSE queue[EndJob]
      BY <1>5, <2>2, ReturnShape DEF BootScan
    <3> QED BY <2>2, <3>1 DEF Marks, JobGoes, SightGoes, PathGoes, EndGate, EndPath, AtEnd, Sight, Gone
  <2> QED BY <2>1, <2>2
<1>6. CASE BootEnd(t)
  <2>1. task[t].pc = "boot_end" /\ task'[t].pc = "boot_notices"
    BY <1>6, BootEndShape
  <2>2. queue'[EndJob].state \in {queue[EndJob].state, "delayed"} /\ queue'[EndJob].state # "none"
    BY <1>6, AddedEnd, SMTT(30) DEF BootEnd
  <2> QED BY <2>1, <2>2 DEF Marks, JobGoes, SightGoes, PathGoes, EndGate, EndPath, AtEnd, Sight
<1>7. CASE BootNotices(t)
  BY <1>7, NotifyMarks DEF BootNotices, Sight, EndPath, AtEnd
<1> QED BY <1>1, <1>2, <1>3, <1>4, <1>5, <1>6, <1>7

LEMMA AdvanceMarks ==
  ASSUME TypeOK, NEW t \in Tasks, Advance(t)
  PROVE  Marks(t)
BY ConnectMarks, StartMarks, GiveUpMarks, EndMarks, DeleteMarks, OtherMarks, Zenon DEF Advance

\* The handlers that write the phase, its copy, or who gave up.
LEMMA AdvanceMoves ==
  ASSUME NEW t \in Tasks, Advance(t)
  PROVE  \/ UNCHANGED <<phase, started, cache, gaveUp>>
         \/ ConnectSave(t) \/ ContractSave(t) \/ ContractDB(t) \/ TouchSave(t) \/ StartDB(t) \/ StartSave(t)
         \/ GiveUpTx(t) \/ GiveUpSave(t) \/ EndDB(t) \/ EndSave(t) \/ DeleteState(t) \/ DeleteDB(t)
<1>1. ConnectRead(t) \/ ContractRead(t) => UNCHANGED <<phase, started, cache, gaveUp>>
  BY DEF ConnectRead, ContractRead, ReadState, session, marks
<1>2. StartSign(t) \/ StartRead(t) \/ StartCancel(t) \/ StartEnd(t) \/ StartNotices(t)
      => UNCHANGED <<phase, started, cache, gaveUp>>
  BY DEF StartSign, StartRead, StartCancel, StartEnd, StartNotices, Notify, ReadState, session, marks
<1>3. GiveUpSettle(t) \/ GiveUpJob(t) \/ GiveUpRead(t) \/ GiveUpCount(t) => UNCHANGED <<phase, started, cache, gaveUp>>
  BY DEF GiveUpSettle, GiveUpJob, GiveUpRead, GiveUpCount, ReadState, session, marks
<1>4. EndCheck(t) \/ EndRead(t) \/ EndSettle(t) \/ EndCancel(t) \/ EndReveal(t) => UNCHANGED <<phase, started, cache, gaveUp>>
  BY DEF EndCheck, EndRead, EndSettle, EndCancel, EndReveal, ReadState, session, marks
<1>5. CleanupActive(t) \/ CleanupCount(t) \/ ClosedCancel(t) => UNCHANGED <<phase, started, cache, gaveUp>>
  BY DEF CleanupActive, CleanupCount, ClosedCancel, session, marks
<1>6. ResultSettle(t) \/ ResultReveal(t) \/ JobDispatch(t) \/ JobReveal(t) => UNCHANGED <<phase, started, cache, gaveUp>>
  BY DEF ResultSettle, ResultReveal, JobDispatch, JobReveal, session, marks
<1>7. BootScan(t) \/ BootEnd(t) \/ BootNotices(t) => UNCHANGED <<phase, started, cache, gaveUp>>
  BY DEF BootScan, BootEnd, BootNotices, Notify, session, marks
<1> QED BY <1>1, <1>2, <1>3, <1>4, <1>5, <1>6, <1>7, Zenon DEF Advance

-----------------------------------------------------------------------------
(* What a handler has made sure of when it gets somewhere *)

ReadGate(t) ==
  /\ task'[t].pc \in {"connect_save", "giveup_save"} => task'[t].seen = cache /\ cache # NoOne /\ UNCHANGED <<phase, cache, started>>
  /\ task'[t].pc = "contract_save" => cache = "lobby" /\ UNCHANGED <<phase, cache, started>>
  /\ task'[t].pc = "contract_db" => task[t].pc = "contract_save" /\ cache' = "contract" /\ UNCHANGED <<phase, started>>
  /\ task'[t].pc # "touch_save"

StartGate(t) ==
  /\ task'[t].pc # "start_sign"
  /\ task'[t].pc = "start_db" => task[t].pc = "start_sign" /\ cache # NoOne /\ UNCHANGED <<phase, cache, started>>
  /\ task'[t].pc = "start_read" => task[t].pc = "start_db" /\ UNCHANGED cache
  /\ task'[t].pc = "start_save" => task[t].pc = "start_read" /\ cache # NoOne /\ UNCHANGED <<phase, cache, started>>
  /\ task[t].pc = "start_read" /\ cache # NoOne => task'[t].pc = "start_save"
  /\ task[t].pc = "start_save" => cache' = "timer"

CloseGate(t) ==
  /\ task'[t].pc \in Deleting => \/ task[t].pc \in Deleting
                                 \/ Members \subseteq gaveUp /\ UNCHANGED <<phase, gaveUp>>
  /\ task'[t].pc \in {"delete_state", "closed_cancel"} =>
       phase' = "closed" \/ (task[t].pc = "delete_state" /\ UNCHANGED phase)

LateGate(t) ==
  task[t].pc \in Late \cup {"giveup_tx"} /\ Members \subseteq gaveUp' /\ gaveUp \subseteq Members =>
    task'[t].pc \in Late \/ phase \in Over \/ phase' = "result"

Gates(t) == ReadGate(t) /\ StartGate(t) /\ CloseGate(t) /\ LateGate(t)

Gated == {"connect_save", "giveup_save", "contract_save", "contract_db", "touch_save",
          "start_sign", "start_db", "start_read", "start_save"} \cup Deleting

LEMMA FreeGates ==
  ASSUME NEW t \in Tasks, task'[t].pc \notin Gated, task[t].pc \notin {"start_read", "start_save"},
         task[t].pc \notin Late \cup {"giveup_tx"} \/ task'[t].pc \in Late
  PROVE  Gates(t)
BY DEF Gates, ReadGate, StartGate, CloseGate, LateGate, Gated, Deleting

LEMMA ReturnGates ==
  ASSUME TypeOK, NEW t \in Tasks, NEW q, Return(t, q), task[t].pc \notin Late \cup {"giveup_tx", "start_read", "start_save"}
  PROVE  Gates(t)
<1>1. task'[t].pc = "idle"
  BY ReturnShape
<1> QED BY <1>1, FreeGates DEF Gated, Deleting

LEMMA NotifyGates ==
  ASSUME TypeOK, NEW t \in Tasks, NEW pc \in PCs, NEW n, Notify(t, pc, n), pc \notin Gated \cup Late \cup {"giveup_tx"}
  PROVE  Gates(t)
<1>1. task[t].pc = pc /\ task'[t].pc \in {"idle", pc} /\ pc \notin {"start_read", "start_save"}
  BY NotifyShape, IdleFields DEF Gated
<1> QED BY <1>1, FreeGates DEF Gated, Deleting

LEMMA ConnectGates ==
  ASSUME TypeOK, NEW t \in Tasks,
         ConnectRead(t) \/ ConnectSave(t) \/ ContractRead(t) \/ ContractSave(t) \/ ContractDB(t) \/ TouchSave(t)
  PROVE  Gates(t)
<1> USE PCsFacts DEF Gates, ReadGate, StartGate, CloseGate, LateGate, Late, GivingUp, Deleting
<1>1. CASE ConnectRead(t)
  BY <1>1, ReadShape DEF ConnectRead
<1>2. CASE ConnectSave(t)
  BY <1>2, SaveShape DEF ConnectSave
<1>3. CASE ContractSave(t)
  BY <1>3, SaveShape DEF ContractSave
<1>4. CASE ContractRead(t)
  <2>1. CASE cache = "lobby"
    BY <1>4, <2>1, PcShape DEF ContractRead, session
  <2>2. CASE cache # "lobby"
    BY <1>4, <2>2, ReturnShape DEF ContractRead
  <2> QED BY <2>1, <2>2
<1>5. CASE ContractDB(t)
  BY <1>5, ReturnShape DEF ContractDB
<1>6. CASE TouchSave(t)
  BY <1>6, ReturnShape DEF TouchSave
<1> QED BY <1>1, <1>2, <1>3, <1>4, <1>5, <1>6

LEMMA StartGates ==
  ASSUME TypeOK, NEW t \in Tasks,
         \/ StartSign(t) \/ StartDB(t) \/ StartRead(t) \/ StartSave(t) \/ StartCancel(t)
         \/ StartEnd(t) \/ StartNotices(t)
  PROVE  Gates(t)
<1>1. CASE StartSign(t)
  <2>1. CASE Return(t, queue)
    BY <1>1, <2>1, ReturnGates DEF StartSign, Late, GivingUp
  <2>2. CASE cache # NoOne /\ task' = [task EXCEPT ![t].pc = "start_db"]
    <3>1. task[t].pc = "start_sign" /\ task'[t].pc = "start_db"
      BY <1>1, <2>2, PcShape, PCsFacts DEF StartSign
    <3>2. UNCHANGED <<phase, cache, started>>
      BY <1>1 DEF StartSign, session
    <3> QED BY <2>2, <3>1, <3>2
        DEF Gates, ReadGate, StartGate, CloseGate, LateGate, Late, GivingUp, Deleting
  <2> QED BY <1>1, <2>1, <2>2 DEF StartSign
<1>2. CASE StartDB(t)
  <2>1. task[t].pc = "start_db" /\ task'[t].pc = "start_read"
    BY <1>2, GotoShape, PCsFacts DEF StartDB
  <2>2. cache' = cache
    BY <1>2 DEF StartDB, marks, used
  <2> QED BY <2>1, <2>2 DEF Gates, ReadGate, StartGate, CloseGate, LateGate, Late, GivingUp, Deleting
<1>3. CASE StartRead(t)
  BY <1>3, ReadShape, PCsFacts DEF StartRead, Gates, ReadGate, StartGate, CloseGate, LateGate, Late, GivingUp, Deleting
<1>4. CASE StartSave(t)
  BY <1>4, SaveShape, PCsFacts DEF StartSave, Gates, ReadGate, StartGate, CloseGate, LateGate, Late, GivingUp, Deleting
<1>5. CASE StartCancel(t)
  BY <1>5, GotoShape, PCsFacts, FreeGates DEF StartCancel, Gated, Late, GivingUp, Deleting
<1>6. CASE StartEnd(t)
  BY <1>6, StartEndShape, FreeGates DEF Gated, Late, GivingUp, Deleting
<1>7. CASE StartNotices(t)
  BY <1>7, NotifyGates, PCsFacts DEF StartNotices, Gated, Late, GivingUp, Deleting
<1> QED BY <1>1, <1>2, <1>3, <1>4, <1>5, <1>6, <1>7

LEMMA GiveUpGates ==
  ASSUME TypeOK, NEW t \in Tasks,
         \/ GiveUpTx(t) \/ GiveUpSettle(t) \/ GiveUpJob(t) \/ GiveUpRead(t) \/ GiveUpSave(t) \/ GiveUpCount(t)
  PROVE  Gates(t)
<1> USE PCsFacts
<1>1. CASE GiveUpTx(t) \/ GiveUpSettle(t) \/ GiveUpJob(t)
  BY <1>1, GotoShape, FreeGates DEF GiveUpTx, GiveUpSettle, GiveUpJob, Gated, Late, GivingUp, Deleting
<1>2. CASE GiveUpRead(t)
  BY <1>2, ReadShape DEF GiveUpRead, Gates, ReadGate, StartGate, CloseGate, LateGate, Late, GivingUp, Deleting
<1>3. CASE GiveUpSave(t)
  BY <1>3, SaveShape, FreeGates DEF GiveUpSave, Gated, Late, GivingUp, Deleting
<1>4. CASE GiveUpCount(t)
  <2>1. CASE Members \subseteq gaveUp
    BY <1>4, <2>1, PcShape, FreeGates DEF GiveUpCount, Gated, Late, GivingUp, Deleting
  <2>2. CASE ~(Members \subseteq gaveUp)
    BY <1>4, <2>2, ReturnShape DEF GiveUpCount, marks, Gates, ReadGate, StartGate, CloseGate, LateGate, Deleting
  <2> QED BY <2>1, <2>2
<1> QED BY <1>1, <1>2, <1>3, <1>4

LEMMA EndGates ==
  ASSUME TypeOK, NEW t \in Tasks,
         \/ EndCheck(t) \/ EndDB(t) \/ EndRead(t) \/ EndSave(t) \/ EndSettle(t) \/ EndCancel(t) \/ EndReveal(t)
  PROVE  Gates(t)
<1> USE PCsFacts
<1>1. CASE EndSettle(t) \/ EndCancel(t)
  BY <1>1, GotoShape, FreeGates DEF EndSettle, EndCancel, Gated, Late, GivingUp, Deleting
<1>2. CASE EndRead(t)
  BY <1>2, ReadShape, FreeGates DEF EndRead, Gated, Late, GivingUp, Deleting
<1>3. CASE EndSave(t)
  BY <1>3, SaveShape, FreeGates DEF EndSave, Gated, Late, GivingUp, Deleting
<1>4. CASE EndCheck(t)
  <2>1. CASE phase \in Over
    BY <1>4, <2>1, ReturnShape DEF EndCheck, Gates, ReadGate, StartGate, CloseGate, LateGate, Deleting
  <2>2. CASE phase \notin Over
    BY <1>4, <2>2, PcShape, FreeGates DEF EndCheck, Gated, Late, Deleting
  <2> QED BY <2>1, <2>2
<1>5. CASE EndDB(t)
  BY <1>5, GotoShape DEF EndDB, Gates, ReadGate, StartGate, CloseGate, LateGate, Deleting
<1>6. CASE EndReveal(t)
  <2> DEFINE q == Added(queue, RevealJobs, 3)
  <2>1. Return(t, q) /\ task[t].pc = "end_reveal"
    BY <1>6 DEF EndReveal
  <2> HIDE DEF q
  <2> QED BY <2>1, ReturnGates DEF Late, GivingUp
<1> QED BY <1>1, <1>2, <1>3, <1>4, <1>5, <1>6

LEMMA DeleteGates ==
  ASSUME TypeOK, NEW t \in Tasks,
         CleanupActive(t) \/ CleanupCount(t) \/ DeleteState(t) \/ DeleteDB(t) \/ ClosedCancel(t)
  PROVE  Gates(t)
<1> USE PCsFacts
<1>1. CASE CleanupActive(t)
  <2>1. CASE Members \subseteq gaveUp
    BY <1>1, <2>1, PcShape DEF CleanupActive, marks, Gates, ReadGate, StartGate, CloseGate, LateGate, Late, GivingUp, Deleting
  <2>2. CASE ~(Members \subseteq gaveUp)
    BY <1>1, <2>2, ReturnGates DEF CleanupActive, Late, GivingUp
  <2> QED BY <2>1, <2>2
<1>2. CASE CleanupCount(t)
  <2>1. CASE Return(t, queue)
    BY <1>2, <2>1, ReturnGates DEF CleanupCount, Late, GivingUp
  <2>2. CASE task' = [task EXCEPT ![t].pc = "delete_both"]
    BY <1>2, <2>2, PcShape DEF CleanupCount, Gates, ReadGate, StartGate, CloseGate, LateGate, Late, GivingUp, Deleting
  <2> QED BY <1>2, <2>1, <2>2 DEF CleanupCount
<1>3. CASE DeleteState(t) \/ DeleteDB(t)
  BY <1>3, GotoShape DEF DeleteState, DeleteDB, Gates, ReadGate, StartGate, CloseGate, LateGate, Late, GivingUp, Deleting
<1>4. CASE ClosedCancel(t)
  <2> DEFINE q == Cancelled(queue)
  <2>1. Return(t, q) /\ task[t].pc = "closed_cancel"
    BY <1>4 DEF ClosedCancel
  <2> HIDE DEF q
  <2> QED BY <2>1, ReturnGates DEF Late, GivingUp
<1> QED BY <1>1, <1>2, <1>3, <1>4

LEMMA OtherGates ==
  ASSUME TypeOK, NEW t \in Tasks,
         \/ ResultSettle(t) \/ ResultReveal(t) \/ JobDispatch(t) \/ JobReveal(t)
         \/ BootScan(t) \/ BootEnd(t) \/ BootNotices(t)
  PROVE  Gates(t)
<1> USE PCsFacts
<1>1. CASE ResultReveal(t) \/ JobReveal(t)
  BY <1>1, ReturnGates DEF ResultReveal, JobReveal, Late, GivingUp
<1>3. CASE ResultSettle(t)
  BY <1>3, GotoShape, FreeGates DEF ResultSettle, Gated, Late, GivingUp, Deleting
<1>4. CASE JobDispatch(t)
  <2>1. CASE Return(t, queue)
    BY <1>4, <2>1, ReturnGates DEF JobDispatch, Late, GivingUp
  <2>2. CASE ~Return(t, queue)
    <3> DEFINE to == IF task[t].job = EndJob THEN "end_check" ELSE "job_reveal"
    <3>1. task' = [task EXCEPT ![t].pc = to] /\ to \in {"end_check", "job_reveal"} /\ task[t].pc = "job_dispatch"
      BY <1>4, <2>2 DEF JobDispatch
    <3> HIDE DEF to
    <3> QED BY <3>1, PcShape, FreeGates DEF Gated, Late, GivingUp, Deleting
  <2> QED BY <2>1, <2>2
<1>5. CASE BootScan(t)
  <2>1. CASE Return(t, queue)
    BY <1>5, <2>1, ReturnGates DEF BootScan, Late, GivingUp
  <2>2. CASE ~Return(t, queue)
    <3> DEFINE to == IF elapsed THEN "end_check" ELSE "boot_end"
    <3>1. task' = [task EXCEPT ![t].pc = to] /\ to \in {"end_check", "boot_end"} /\ task[t].pc = "boot_scan"
      BY <1>5, <2>2 DEF BootScan
    <3> HIDE DEF to
    <3> QED BY <3>1, PcShape, FreeGates DEF Gated, Late, GivingUp, Deleting
  <2> QED BY <2>1, <2>2
<1>6. CASE BootEnd(t)
  BY <1>6, BootEndShape, FreeGates DEF Gated, Late, GivingUp, Deleting
<1>7. CASE BootNotices(t)
  BY <1>7, NotifyGates DEF BootNotices, Gated, Late, GivingUp, Deleting
<1> QED BY <1>1, <1>3, <1>4, <1>5, <1>6, <1>7

LEMMA AdvanceGates ==
  ASSUME TypeOK, NEW t \in Tasks, Advance(t)
  PROVE  Gates(t)
BY ConnectGates, StartGates, GiveUpGates, EndGates, DeleteGates, OtherGates, Zenon DEF Advance

-----------------------------------------------------------------------------
(* What the rest of the steps do *)

LEMMA ArriveGates ==
  ASSUME TypeOK, NEW t \in Tasks, Arrive(t)
  PROVE  /\ task'[t].pc = "start_sign" => phase = "contract"
         /\ task'[t].pc = "touch_save" => task'[t].seen = cache /\ cache # NoOne
         /\ task'[t].pc = "delete_both" => phase \in {"lobby", "contract"}
         /\ task'[t].pc = "cleanup_count" => cache \notin {"timer", "result"}
         /\ task'[t].pc = "giveup_tx" => phase = "timer"
         /\ task'[t].kind = "connect" => cache \in {"lobby", "contract", "timer"}
<1> USE PCsFacts DEF RequestKinds
<1>1. CASE Touch(t)
  BY <1>1, IssueShape DEF Touch
<1>2. CASE Connect(t)
  BY <1>2, IssueShape DEF Connect
<1>3. CASE Start(t)
  BY <1>3, IssueShape DEF Start
<1>4. CASE Leave(t)
  BY <1>4, IssueShape DEF Leave
<1>5. CASE Cleanup(t)
  <2> DEFINE to == IF cache = "timer" THEN "cleanup_active" ELSE "cleanup_count"
  <2>1. Issue(t, "cleanup", to, NoOne) /\ to \in PCs /\ cache # "result"
    BY <1>5 DEF Cleanup
  <2>2. to \in {"cleanup_active", "cleanup_count"} /\ (to = "cleanup_count" => cache # "timer")
    OBVIOUS
  <2> HIDE DEF to
  <2> QED BY <2>1, <2>2, IssueShape
<1>6. CASE Result(t)
  <2> DEFINE to == IF settled = Members THEN "result_reveal" ELSE "result_settle"
  <2>1. Issue(t, "result", to, NoOne) /\ to \in PCs /\ to \in {"result_reveal", "result_settle"}
    BY <1>6 DEF Result
  <2> HIDE DEF to
  <2> QED BY <2>1, IssueShape
<1>7. ASSUME NEW m \in Members, GiveUp(t, m)
      PROVE  task'[t].pc = "giveup_tx" /\ task'[t].kind = "giveup" /\ phase = "timer"
  BY <1>7, IssueShape DEF GiveUp
<1> QED BY <1>1, <1>2, <1>3, <1>4, <1>5, <1>6, <1>7 DEF Arrive

LEMMA AdvanceUsed ==
  ASSUME NEW t \in Tasks, Advance(t)
  PROVE  faults' = faults /\ crashes' = crashes
<1>1. TouchSave(t) \/ ConnectRead(t) \/ ConnectSave(t) \/ ContractRead(t) \/ ContractSave(t) \/ ContractDB(t) => UNCHANGED used
  BY DEF TouchSave, ConnectRead, ConnectSave, ContractRead, ContractSave, ContractDB, ReadState, SaveState
<1>2. StartSign(t) \/ StartDB(t) \/ StartRead(t) \/ StartSave(t) \/ StartCancel(t) \/ StartEnd(t) \/ StartNotices(t) => UNCHANGED used
  BY DEF StartSign, StartDB, StartRead, StartSave, StartCancel, StartEnd, StartNotices, Notify, ReadState, SaveState
<1>3. GiveUpTx(t) \/ GiveUpSettle(t) \/ GiveUpJob(t) \/ GiveUpRead(t) \/ GiveUpSave(t) \/ GiveUpCount(t) => UNCHANGED used
  BY DEF GiveUpTx, GiveUpSettle, GiveUpJob, GiveUpRead, GiveUpSave, GiveUpCount, ReadState, SaveState
<1>4. EndCheck(t) \/ EndDB(t) \/ EndRead(t) \/ EndSave(t) \/ EndSettle(t) \/ EndCancel(t) \/ EndReveal(t) => UNCHANGED used
  BY DEF EndCheck, EndDB, EndRead, EndSave, EndSettle, EndCancel, EndReveal, ReadState, SaveState
<1>5. CleanupActive(t) \/ CleanupCount(t) \/ DeleteState(t) \/ DeleteDB(t) \/ ClosedCancel(t) => UNCHANGED used
  BY DEF CleanupActive, CleanupCount, DeleteState, DeleteDB, ClosedCancel
<1>6. ResultSettle(t) \/ ResultReveal(t) \/ JobDispatch(t) \/ JobReveal(t) \/ BootScan(t) \/ BootEnd(t) \/ BootNotices(t) => UNCHANGED used
  BY DEF ResultSettle, ResultReveal, JobDispatch, JobReveal, BootScan, BootEnd, BootNotices, Notify
<1>7. UNCHANGED used
  BY <1>1, <1>2, <1>3, <1>4, <1>5, <1>6, Zenon DEF Advance
<1> QED BY <1>7 DEF used

\* The timer runs because a handler has just started it, or ran before.
LEMMA AdvanceTimer ==
  ASSUME TypeOK, NEW t \in Tasks, Advance(t), phase' = "timer"
  PROVE  phase = "timer" \/ task'[t].pc = "start_read"
<1>1. CASE StartDB(t)
  BY <1>1, GotoShape, PCsFacts DEF StartDB
<1>2. CASE ConnectSave(t) \/ ContractSave(t) \/ StartSave(t) \/ GiveUpSave(t) \/ EndSave(t)
  BY <1>2 DEF ConnectSave, ContractSave, StartSave, GiveUpSave, EndSave, SaveState
<1>3. CASE ContractDB(t) \/ TouchSave(t) \/ GiveUpTx(t) \/ EndDB(t) \/ DeleteState(t) \/ DeleteDB(t)
  BY <1>3 DEF ContractDB, TouchSave, GiveUpTx, EndDB, DeleteState, DeleteDB
<1>4. CASE UNCHANGED <<phase, started, cache, gaveUp>>
  BY <1>4
<1> QED BY <1>1, <1>2, <1>3, <1>4, AdvanceMoves, Zenon

-----------------------------------------------------------------------------
(* Restarts and rejected calls: the session moves forward *)

LEMMA NobodyCloses ==
  ASSUME Requests \cap {"leave", "cleanup"} = {}, InFlight, NEW t \in Tasks
  PROVE  task[t].pc \notin Deleting
BY DEF InFlight, KindOK

LEMMA OneConnects ==
  ASSUME Restarting, InFlight, NEW t \in Tasks, NEW u \in Tasks, task[t].pc \in Connecting,
         task[u].pc \in Connecting \cup Starting \cup Deleting \cup {"touch_save"}
  PROVE  t = u
<1>1. /\ task[t].kind = "connect" /\ task[u].kind \in {"connect", "start", "touch", "leave", "cleanup"}
      /\ {"connect", task[u].kind} \subseteq Requests
  BY DEF InFlight, KindOK
<1>2. AreApart("connect", task[u].kind)
  BY <1>1 DEF Restarting, KeptApart
<1> QED BY <1>1, <1>2, Alone

LEMMA OneStarts ==
  ASSUME Restarting, InFlight, NEW t \in Tasks, NEW u \in Tasks, task[t].pc \in Starting,
         task[u].pc \in Starting \cup Deleting
  PROVE  t = u
<1>1. /\ task[t].kind = "start" /\ task[u].kind \in {"start", "leave", "cleanup"}
      /\ {"start", task[u].kind} \subseteq Requests
  BY DEF InFlight, KindOK
<1>2. AreApart("start", task[u].kind)
  BY <1>1 DEF Restarting, KeptApart
<1> QED BY <1>1, <1>2, Alone

LEMMA CountsOwn ==
  ASSUME Forward, NEW t \in Tasks, Counts(t), Gates(t), EndGate(t),
         task[t].pc \in AtEnd => (phase \in Over => phase' \in Over)
  PROVE  Counts(t)'
BY DEF Forward, Unstarted, Counts, Gates, ReadGate, StartGate, CloseGate, EndGate, Connecting, AtEnd, Over

\* Another one's step that leaves the phase alone.
LEMMA CountsOther ==
  ASSUME NEW t \in Tasks, NEW u \in Tasks \ {t}, Others(t), Counts(u), phase' = phase, started' = started,
         cache' = cache \/ cache' # "lobby" \/ task[u].pc # "contract_db"
  PROVE  Counts(u)'
BY DEF Counts, Unstarted, Others

LEMMA ForwardAdvance ==
  ASSUME Restarting, RInv, NEW t \in Tasks, Advance(t)
  PROVE  Forward' /\ \A u \in Tasks : Counts(u)'
<1> USE DEF RInv
<1>0. /\ TypeOK /\ Others(t) /\ Gates(t) /\ EndGate(t) /\ NoOne # "lobby"
      /\ \A u \in Tasks : task[u].pc \in AfterStart => started
  BY AdvanceGoes, AdvanceGates, AdvanceMarks, NullAssumption DEF IInv, TasksRecorded, Marks, Phases
<1>1. ASSUME phase' = phase, started' = started,
             cache' = cache \/ cache' # "lobby" \/ Unstarted,
             cache' = cache \/ cache' # "lobby" \/ \A u \in Tasks \ {t} : task[u].pc # "contract_db"
      PROVE  Forward' /\ \A u \in Tasks : Counts(u)'
  <2>1. Forward'
    BY <1>1 DEF Forward, Unstarted
  <2>2. Counts(t)'
    BY <1>0, <1>1, CountsOwn
  <2>3. ASSUME NEW u \in Tasks \ {t} PROVE Counts(u)'
    BY <1>0, <1>1, CountsOther
  <2> QED BY <2>1, <2>2, <2>3
<1>2. CASE UNCHANGED <<phase, started, cache, gaveUp>>
  BY <1>1, <1>2
<1>3. CASE ConnectSave(t) \/ TouchSave(t)
  <2>1. UNCHANGED <<phase, started>> /\ task[t].pc \in {"connect_save", "touch_save"} /\ cache' = task[t].seen
    BY <1>3 DEF ConnectSave, TouchSave, SaveState, session
  <2>2. cache' # "lobby" \/ Unstarted
    BY <2>1 DEF Counts
  <2>3. \A u \in Tasks \ {t} : task[u].pc # "contract_db"
    BY <2>1, OneConnects DEF Connecting
  <2> QED BY <1>1, <2>1, <2>2, <2>3
<1>4. CASE GiveUpSave(t)
  <2>1. UNCHANGED <<phase, started>> /\ task[t].pc = "giveup_save" /\ cache' = task[t].seen
    BY <1>4 DEF GiveUpSave, SaveState, session
  <2>2. cache' # "lobby"
    BY <1>0, <2>1 DEF Counts, Unstarted, AfterStart
  <2> QED BY <1>1, <2>1, <2>2
<1>5. CASE ContractSave(t) \/ StartSave(t) \/ EndSave(t) \/ DeleteState(t)
  <2>1. UNCHANGED <<phase, started>> /\ cache' \in {"contract", "timer", "result", NoOne}
    BY <1>5 DEF ContractSave, StartSave, EndSave, DeleteState, SaveState, session
  <2> QED BY <1>0, <1>1, <2>1
<1>6. CASE GiveUpTx(t)
  <2>1. UNCHANGED <<phase, started, cache>>
    BY <1>6 DEF GiveUpTx, session
  <2> QED BY <1>1, <2>1
<1>7. CASE ContractDB(t)
  <2>1. task[t].pc = "contract_db" /\ phase' = "contract" /\ UNCHANGED <<started, cache>>
    BY <1>7 DEF ContractDB, session
  <2>2. Unstarted /\ cache # "lobby"
    BY <2>1 DEF Counts
  <2>3. Forward'
    BY <2>1, <2>2 DEF Forward, Unstarted
  <2>4. Counts(t)'
    BY <1>0, <2>1, <2>2, CountsOwn DEF AtEnd
  <2>5. ASSUME NEW u \in Tasks \ {t} PROVE Counts(u)'
    <3>1. task[u].pc \notin Connecting \cup Starting \cup Deleting \cup {"touch_save"}
      BY <2>1, OneConnects DEF Connecting
    <3>2. task[u].pc \notin AtEnd \cup {"giveup_save"}
      BY <1>0, <2>2 DEF Unstarted, AfterStart, AtEnd
    <3> QED BY <1>0, <3>1, <3>2 DEF Counts, Others, Connecting, Starting, Deleting
  <2> QED BY <2>3, <2>4, <2>5
<1>8. CASE StartDB(t)
  <2>1. task[t].pc = "start_db" /\ phase' = "timer" /\ started' = TRUE /\ UNCHANGED cache
    BY <1>8 DEF StartDB, Goto
  <2>2. phase = "contract"
    BY <2>1 DEF Counts
  <2>3. Forward'
    BY <2>1, <2>2 DEF Forward, Unstarted
  <2>4. Counts(t)'
    BY <1>0, <2>1, <2>2, CountsOwn DEF AtEnd
  <2>5. ASSUME NEW u \in Tasks \ {t} PROVE Counts(u)'
    <3>1. task[u].pc \notin Starting
      BY <2>1, OneStarts DEF Starting
    <3> QED BY <1>0, <2>2, <3>1 DEF Counts, Unstarted, Others, Starting, Over
  <2> QED BY <2>3, <2>4, <2>5
<1>9. CASE EndDB(t)
  <2>1. task[t].pc = "end_db" /\ phase' = "result" /\ UNCHANGED <<started, cache>>
    BY <1>9 DEF EndDB, Goto
  <2>2. started /\ phase \in {"timer", "result", "closed"}
    BY <1>0, <2>1 DEF AfterStart, Forward
  <2>3. Forward'
    BY <2>1, <2>2 DEF Forward, Unstarted
  <2>4. Counts(t)'
    BY <1>0, <2>1, CountsOwn DEF Over
  <2>5. ASSUME NEW u \in Tasks \ {t} PROVE Counts(u)'
    BY <1>0, <2>1, <2>2 DEF Counts, Unstarted, Others, Over
  <2> QED BY <2>3, <2>4, <2>5
<1>10. CASE DeleteDB(t)
  <2>1. task[t].pc \in {"delete_both", "delete_db"} /\ phase' = "closed" /\ UNCHANGED <<started, cache>>
    BY <1>10 DEF DeleteDB, Goto, session
  <2>2. Requests \cap {"leave", "cleanup"} # {}
    BY <2>1, NobodyCloses DEF Deleting
  <2>3. Forward'
    BY <2>1, <2>2 DEF Forward, Unstarted
  <2>4. Counts(t)'
    BY <1>0, <2>1, CountsOwn DEF Over
  <2>5. ASSUME NEW u \in Tasks \ {t} PROVE Counts(u)'
    <3>1. task[u].pc \notin Starting
      BY <2>1, OneStarts DEF Deleting
    <3> QED BY <1>0, <2>1, <3>1 DEF Counts, Unstarted, Others, Starting, Over
  <2> QED BY <2>3, <2>4, <2>5
<1> QED BY <1>2, <1>3, <1>4, <1>5, <1>6, <1>7, <1>8, <1>9, <1>10, AdvanceMoves

LEMMA ForwardStep ==
  ASSUME Restarting, RInv, [Next]_vars
  PROVE  Forward' /\ \A u \in Tasks : Counts(u)'
<1> USE DEF RInv
<1>0. TypeOK /\ Forward /\ \A u \in Tasks : Counts(u)
  BY DEF IInv
<1>1. ASSUME NEW t \in Tasks, Others(t), UNCHANGED <<phase, started, cache>>, Counts(t)'
      PROVE  Forward' /\ \A u \in Tasks : Counts(u)'
  BY <1>0, <1>1, CountsOther DEF Forward, Unstarted
<1>2. ASSUME NEW t \in Tasks, Arrive(t) PROVE Forward' /\ \A u \in Tasks : Counts(u)'
  <2>1. task'[t].pc = "touch_save" /\ task'[t].seen = "lobby" => Unstarted
    BY <1>0, <1>2, ArriveGates DEF Forward
  <2>2. Counts(t)'
    BY <1>0, <1>2, <2>1, ArriveShape, ArriveGates DEF Counts, AtEnd, Unstarted
  <2> QED BY <1>0, <1>1, <1>2, <2>2, ArriveShape
<1>3. ASSUME NEW t \in Tasks, Fail(t) PROVE Forward' /\ \A u \in Tasks : Counts(u)'
  <2>1. Counts(t)'
    BY <1>0, <1>3, FailShape, IdleFields DEF Counts, AtEnd
  <2> QED BY <1>0, <1>1, <1>3, <2>1, FailShape
<1>4. ASSUME NEW t \in Tasks, Swallow(t) PROVE Forward' /\ \A u \in Tasks : Counts(u)'
  <2>1. Counts(t)'
    BY <1>0, <1>4, SwallowShape DEF Counts, AtEnd
  <2> QED BY <1>0, <1>1, <1>4, <2>1, SwallowShape
<1>5. ASSUME NEW w \in Workers, NEW j \in JobIds, PickJob(w, j) PROVE Forward' /\ \A u \in Tasks : Counts(u)'
  <2>1. Counts(w)'
    BY <1>0, <1>5, PickShape DEF Counts, AtEnd
  <2> QED BY <1>0, <1>1, <1>5, <2>1, PickShape
<1>6. CASE Crash
  <2>1. \A u \in Tasks : Counts(u)'
    BY <1>0, <1>6, CrashShape DEF Counts, AtEnd
  <2> QED BY <1>0, <1>6, <2>1, CrashShape DEF Forward, Unstarted
<1>7. CASE Tick \/ UNCHANGED vars
  BY <1>0, <1>7 DEF Tick, vars, session, Forward, Unstarted, Counts
<1> QED BY <1>2, <1>3, <1>4, <1>5, <1>6, <1>7, ForwardAdvance DEF Next

-----------------------------------------------------------------------------
(* Restarts and rejected calls: the end stays in sight *)

LEMMA HoldersKept ==
  ASSUME RInv, [Next]_vars, NEW u \in Tasks, task'[u].job = EndJob
  PROVE  task'[u].pc \in EndPath
<1> USE DEF RInv
<1>0. TypeOK /\ (task[u].job = EndJob => task[u].pc \in EndPath)
  BY DEF IInv, EndJobKept
<1>1. ASSUME NEW t \in Tasks, Others(t), t = u => task'[u].pc \in EndPath
      PROVE  task'[u].pc \in EndPath
  BY <1>0, <1>1 DEF Others
<1>2. ASSUME NEW t \in Tasks, Advance(t) PROVE task'[u].pc \in EndPath
  BY <1>0, <1>1, <1>2, AdvanceGoes, AdvanceMarks, IdleFields DEF Goes, Same, Marks, PathGoes
<1>3. ASSUME NEW t \in Tasks, Arrive(t) PROVE task'[u].pc \in EndPath
  BY <1>0, <1>1, <1>3, ArriveShape, NullAssumption, JobIdsFacts
<1>4. ASSUME NEW t \in Tasks, Fail(t) PROVE task'[u].pc \in EndPath
  BY <1>0, <1>1, <1>4, FailShape, IdleFields
<1>5. ASSUME NEW t \in Tasks, Swallow(t) PROVE task'[u].pc \in EndPath
  <2>1. CASE t = u
    <3>1. task[u].job = EndJob /\ task[u].pc \in EndPath
      BY <1>0, <1>5, <2>1, SwallowShape DEF Goes, Same
    <3>2. task[u].pc = "end_settle"
      BY <1>5, <2>1, <3>1 DEF Swallow, Swallowed, EndPath, AtEnd
    <3>3. task'[u].pc = "end_cancel"
      BY <1>0, <1>5, <2>1, <3>2 DEF Swallow, Swallowed, TypeOK, TaskStates
    <3> QED BY <3>3 DEF EndPath, AtEnd
  <2> QED BY <1>0, <1>1, <1>5, <2>1, SwallowShape
<1>6. ASSUME NEW w \in Workers, NEW j \in JobIds, PickJob(w, j) PROVE task'[u].pc \in EndPath
  BY <1>0, <1>1, <1>6, PickShape DEF EndPath
<1>7. CASE Crash
  BY <1>0, <1>7, CrashShape
<1>8. CASE Tick \/ UNCHANGED vars
  BY <1>0, <1>8 DEF Tick, vars
<1> QED BY <1>2, <1>3, <1>4, <1>5, <1>6, <1>7, <1>8 DEF Next

LEMMA NotFailedKept ==
  ASSUME RInv, [Next]_vars, faults' = 0
  PROVE  faults = 0 /\ queue'[EndJob].state # "failed"
<1> USE DEF RInv
<1>0. TypeOK /\ (faults = 0 => queue[EndJob].state # "failed") /\ faults \in Nat
  BY DEF IInv, EndJobKept, TypeOK
<1>1. ASSUME NEW t \in Tasks, Advance(t) PROVE faults = 0 /\ queue'[EndJob].state # "failed"
  BY <1>0, <1>1, AdvanceUsed, AdvanceMarks DEF Marks, JobGoes
<1>2. ASSUME NEW t \in Tasks, Arrive(t) PROVE faults = 0 /\ queue'[EndJob].state # "failed"
  BY <1>0, <1>2, ArriveShape
<1>3. ASSUME NEW t \in Tasks, Fail(t) \/ Swallow(t) PROVE FALSE
  BY <1>0, <1>3 DEF Fail, Swallow
<1>4. ASSUME NEW w \in Workers, NEW j \in JobIds, PickJob(w, j) PROVE faults = 0 /\ queue'[EndJob].state # "failed"
  BY <1>0, <1>4, PickShape, JobIdsFacts
<1>5. CASE Crash
  BY <1>0, <1>5, CrashShape
<1>6. CASE Tick \/ UNCHANGED vars
  BY <1>0, <1>6 DEF Tick, vars, used
<1> QED BY <1>1, <1>2, <1>3, <1>4, <1>5, <1>6 DEF Next

LEMMA SightKept ==
  ASSUME Restarting, RInv, [Next]_vars
  PROVE  EndInSight'
<1> USE DEF RInv
<1> SUFFICES ASSUME phase' = "timer", faults' = 0,
                    queue'[EndJob].state \notin {"delayed", "active"},
                    \A u \in Tasks : task'[u].pc \notin Sight
             PROVE  FALSE
  BY DEF EndInSight, Sight
<1>0. TypeOK /\ TypeOK' /\ EndInSight
  BY NextIInv DEF IInv, EndJobKept
<1>a. queue'[EndJob].state = "none"
  BY <1>0, NotFailedKept, JobIdsFacts DEF TypeOK, JobStates
<1>b. phase = "timer" =>
        queue[EndJob].state \in {"delayed", "active"} \/ \E u \in Tasks : task[u].pc \in Sight
  BY <1>0, NotFailedKept DEF EndInSight, Sight
<1>1. ASSUME NEW t \in Tasks, Others(t), task[t].pc \notin Sight, phase = "timer",
             queue'[EndJob].state = "none" => queue[EndJob].state = "none"
      PROVE  FALSE
  BY <1>a, <1>b, <1>1 DEF Others
<1>2. ASSUME NEW t \in Tasks, Advance(t) PROVE FALSE
  <2>1. Others(t) /\ Marks(t)
    BY <1>0, <1>2, AdvanceGoes, AdvanceMarks
  <2>2. phase = "timer" /\ started
    BY <1>0, <1>2, AdvanceTimer DEF Sight, IInv, PhaseRecorded
  <2>3. task[t].pc \notin Sight
    BY <1>a, <2>1, <2>2 DEF Marks, SightGoes
  <2>4. queue[EndJob].state # "none"
    <3>1. \A u \in Tasks : task[u].pc \notin Sight
      BY <2>1, <2>3 DEF Others
    <3> QED BY <1>b, <2>2, <3>1
  <2>5. \/ task[t].job = EndJob /\ task'[t].pc = "idle"
        \/ task[t].pc \in {"start_cancel", "end_cancel", "closed_cancel"}
    BY <1>a, <2>1, <2>4 DEF Marks, JobGoes
  <2>6. task[t].pc \notin AtEnd /\ task[t].pc # "closed_cancel"
    BY <2>2 DEF Counts, Over
  <2>7. task[t].job = EndJob /\ task'[t].pc = "idle"
    BY <2>3, <2>5, <2>6 DEF Sight, AtEnd
  <2>8. task[t].pc \in EndPath
    BY <2>7 DEF EndJobKept
  <2> QED BY <2>1, <2>2, <2>6, <2>7, <2>8 DEF Marks, PathGoes, Over, AtEnd
<1>3. ASSUME NEW t \in Tasks, Arrive(t) PROVE FALSE
  BY <1>0, <1>1, <1>3, ArriveShape DEF Sight
<1>4. ASSUME NEW t \in Tasks, Fail(t) \/ Swallow(t) PROVE FALSE
  BY <1>0, <1>4 DEF Fail, Swallow, TypeOK
<1>5. ASSUME NEW w \in Workers, NEW j \in JobIds, PickJob(w, j) PROVE FALSE
  <2>1. Others(w) /\ w \in Tasks /\ task[w].pc = "idle" /\ phase' = phase
    BY <1>0, <1>5, PickShape
  <2>2. queue'[EndJob].state = "none" => queue[EndJob].state = "none"
    BY <1>0, <1>5, PickShape, JobIdsFacts
  <2> QED BY <1>1, <2>1, <2>2 DEF Sight
<1>6. CASE Crash
  BY <1>0, <1>6, CrashShape DEF Tasks, Sight
<1>7. CASE Tick \/ UNCHANGED vars
  BY <1>a, <1>b, <1>7 DEF Tick, vars
<1> QED BY <1>2, <1>3, <1>4, <1>5, <1>6, <1>7 DEF Next

LEMMA RInvStep == ASSUME Restarting, RInv, [Next]_vars PROVE RInv'
<1>1. IInv' /\ InFlight'
  BY NextIInv, FlightStep DEF RInv, IInv
<1>2. \A t \in Tasks : task'[t].job = EndJob => task'[t].pc \in EndPath
  BY HoldersKept
<1>3. EndJobKept'
  BY <1>2, NotFailedKept, SightKept DEF EndJobKept
<1> QED BY <1>1, <1>3, ForwardStep DEF RInv

LEMMA RInvInit == Init => RInv
<1> SUFFICES ASSUME Init PROVE RInv
  OBVIOUS
<1>1. \A t \in Tasks : task[t].pc = "idle" /\ task[t].job # EndJob
  BY IdleFields DEF Init
<1>2. Forward /\ EndInSight
  BY DEF Init, Forward, Unstarted, EndInSight
<1>3. queue[EndJob].state # "failed"
  BY JobIdsFacts DEF Init, Gone
<1>4. \A t \in Tasks : Counts(t)
  BY <1>1 DEF Counts, AtEnd
<1> QED BY <1>1, <1>2, <1>3, <1>4, InitIInv, FlightInit DEF RInv, EndJobKept

LEMMA RInvHolds == ASSUME Restarting PROVE Spec => []RInv
BY RInvInit, RInvStep, PTL DEF Spec

\* Restarts included, a running session never loses its end while no call is
\* rejected: startTimer, endSession, deleteRoom, onModuleInit and the queue hand
\* the end to each other without a gap, whatever requests there are, for every
\* number of members, handlers, workers, restarts and start requests.
THEOREM EndStaysInSight == ASSUME Restarting PROVE Spec => []EndInSight
<1>1. RInv => EndInSight
  BY DEF RInv, EndJobKept
<1> QED BY <1>1, RInvHolds, PTL

-----------------------------------------------------------------------------
(* Restarts and rejected calls: the promise *)

LEMMA PromiseInit == Init => Promise!Init
BY DEF Init, Promise!Init

LEMMA PromiseStep ==
  ASSUME Requests \cap {"leave", "cleanup"} = {}, RInv, [Next]_vars
  PROVE  [Promise!Next]_(Promise!vars)
<1> USE DEF RInv
<1>0. TypeOK /\ IInv
  BY DEF IInv
<1>1. ASSUME UNCHANGED <<phase, gaveUp>> PROVE [Promise!Next]_(Promise!vars)
  BY <1>1 DEF Promise!vars
<1>2. ASSUME NEW t \in Tasks, Advance(t) PROVE [Promise!Next]_(Promise!vars)
  <2>1. CASE ContractDB(t)
    <3>1. phase = "lobby" /\ phase' = "contract" /\ gaveUp' = gaveUp
      BY <2>1 DEF ContractDB, marks, Counts, Unstarted, Forward
    <3> QED BY <3>1 DEF Promise!Next, Promise!Move
  <2>2. CASE StartDB(t)
    <3>1. phase = "contract" /\ phase' = "timer" /\ gaveUp' = gaveUp
      BY <2>2 DEF StartDB, Goto, marks, Counts
    <3> QED BY <3>1 DEF Promise!Next, Promise!Move
  <2>3. CASE EndDB(t)
    <3>1. phase \in {"timer", "result"} /\ phase' = "result" /\ gaveUp' = gaveUp
      BY <1>0, <2>3 DEF EndDB, Goto, marks, IInv, TasksRecorded, AfterStart, Forward
    <3> QED BY <1>1, <3>1 DEF Promise!Next, Promise!Move
  <2>4. CASE GiveUpTx(t)
    <3>1. task[t].who \in Members /\ gaveUp' = gaveUp \cup {task[t].who} /\ phase' = phase /\ phase \in {"timer", "result"}
      BY <1>0, <2>4 DEF GiveUpTx, Goto, IInv, TasksRecorded, AfterStart, Forward
    <3> QED BY <3>1 DEF Promise!Next, Promise!GiveUp
  <2>5. CASE ConnectSave(t) \/ ContractSave(t) \/ StartSave(t) \/ GiveUpSave(t) \/ EndSave(t)
    <3>1. UNCHANGED <<phase, gaveUp>>
      BY <2>5 DEF ConnectSave, ContractSave, StartSave, GiveUpSave, EndSave, SaveState, marks
    <3> QED BY <1>1, <3>1
  <2>6. ~DeleteState(t) /\ ~DeleteDB(t)
    BY NobodyCloses DEF DeleteState, DeleteDB, Goto, Deleting
  <2>7. CASE TouchSave(t)
    BY <1>1, <2>7 DEF TouchSave, marks
  <2> QED BY <1>1, <1>2, <2>1, <2>2, <2>3, <2>4, <2>5, <2>6, <2>7, AdvanceMoves
<1>3. ASSUME NEW t \in Tasks, Arrive(t) \/ Swallow(t) \/ Fail(t) PROVE UNCHANGED <<phase, gaveUp>>
  BY <1>0, <1>3, ArriveShape, SwallowShape, FailShape
<1>4. ASSUME NEW w \in Workers, NEW j \in JobIds, PickJob(w, j) PROVE UNCHANGED <<phase, gaveUp>>
  BY <1>0, <1>4, PickShape
<1>5. Crash => UNCHANGED <<phase, gaveUp>>
  BY <1>0, CrashShape
<1>6. Tick \/ UNCHANGED vars => UNCHANGED <<phase, gaveUp>>
  BY DEF Tick, vars, marks
<1> QED BY <1>1, <1>2, <1>3, <1>4, <1>5, <1>6 DEF Next

\* The backend's handlers, with restarts and rejected calls, implement the
\* promise of RoomPhases while nobody closes the room: the phase never skips a
\* stage and never goes back, and nobody gives up a session that has not run.
THEOREM PromiseKept ==
  ASSUME Restarting, Requests \cap {"leave", "cleanup"} = {} PROVE Spec => KeepsPromise
<1>1. Init => Promise!Init
  BY PromiseInit
<1>2. ASSUME Requests \cap {"leave", "cleanup"} = {} PROVE RInv /\ [Next]_vars => [Promise!Next]_(Promise!vars)
  BY <1>2, PromiseStep
<1> QED BY <1>1, <1>2, RInvHolds, PTL DEF Spec, KeepsPromise, Promise!Spec

-----------------------------------------------------------------------------
(* Closing: nobody closes a session that somebody is still in *)

\* The requests that read or write the cached state.
Cached == Connecting \cup Starting \cup GivingUp \cup Deleting \cup {"touch_save", "cleanup_active"}

LEMMA StartAlone ==
  ASSUME Closing, InFlight, NEW t \in Tasks, NEW u \in Tasks, task[t].pc \in Starting, task[u].pc \in Cached
  PROVE  t = u
<1>1. task[t].kind = "start" /\ task[u].kind \in {"connect", "start", "touch", "giveup", "leave", "cleanup"}
  BY DEF InFlight, KindOK, Cached
<1> QED BY <1>1, Alone DEF Closing

LEMMA StartAway ==
  ASSUME Closing, TypeOK, InFlight, NEW t \in Tasks, Arrive(t), task'[t].kind # "result", NEW u \in Tasks
  PROVE  task[u].pc \notin Starting
<1>1. task'[t].kind \in {"connect", "start", "touch", "giveup", "leave", "cleanup"}
  BY ArriveShape
<1>2. task[u].kind # "start"
  BY <1>1, ArriveShape, AloneIssued DEF Closing
<1> QED BY <1>2 DEF InFlight, KindOK

\* What the cached state says while no start is in flight.
LEMMA ShownNow ==
  ASSUME Shown, \A u \in Tasks : task[u].pc \notin Starting, started
  PROVE  cache \in {"timer", "result", NoOne}
BY DEF Shown, Starting

\* What a handler's step does to the database and to the cached state.
Effect(t) ==
  /\ gaveUp \subseteq gaveUp'
  /\ gaveUp' # gaveUp => task[t].pc = "giveup_tx"
  /\ \/ started' = started /\ (phase' = "timer" => phase = "timer")
     \/ /\ started' /\ task[t].pc = "start_db" /\ task'[t].pc = "start_read"
        /\ phase' = "timer" /\ cache' = cache
  /\ \/ cache' = cache
     \/ cache' # NoOne /\ (started => cache' \in {"timer", "result"})
     \/ cache' = NoOne /\ task[t].pc \in Deleting /\ phase' = phase
  /\ phase' \in {phase, "timer", "result"} \/ ~started \/ (phase' = "closed" /\ task[t].pc \in Deleting)

LEMMA AdvanceEffect ==
  ASSUME CInv, NEW t \in Tasks, Advance(t)
  PROVE  Effect(t)
<1> USE DEF CInv
<1>0. TypeOK /\ NoOne \notin {"contract", "timer", "result"}
  BY NullAssumption, PhasesFacts DEF IInv
<1>1. CASE UNCHANGED <<phase, started, cache, gaveUp>>
  BY <1>1 DEF Effect
<1>2. CASE ConnectSave(t) \/ GiveUpSave(t)
  <2>1. /\ UNCHANGED <<phase, started, gaveUp>> /\ cache' = task[t].seen
        /\ task[t].pc \in {"connect_save", "giveup_save"}
    BY <1>2 DEF ConnectSave, GiveUpSave, SaveState, session, marks
  <2>2. cache' # NoOne /\ (started => cache' \in {"timer", "result"})
    BY <2>1 DEF Sure
  <2> QED BY <2>1, <2>2 DEF Effect
<1>3. CASE TouchSave(t)
  <2>1. /\ UNCHANGED <<phase, started, gaveUp>> /\ cache' = task[t].seen /\ task[t].pc = "touch_save"
    BY <1>3 DEF TouchSave, session, marks
  <2>2. cache' # NoOne /\ (started => cache' \in {"timer", "result"})
    BY <2>1 DEF Sure
  <2> QED BY <2>1, <2>2 DEF Effect
<1>4. CASE ContractSave(t)
  <2>1. UNCHANGED <<phase, started, gaveUp>> /\ cache' = "contract" /\ cache' # NoOne /\ task[t].pc = "contract_save"
    BY <1>0, <1>4 DEF ContractSave, SaveState, session, marks
  <2>2. ~started
    BY <2>1 DEF Sure
  <2> QED BY <2>1, <2>2 DEF Effect
<1>5. CASE StartSave(t) \/ EndSave(t)
  <2>1. UNCHANGED <<phase, started, gaveUp>> /\ cache' \in {"timer", "result"} /\ cache' # NoOne
    BY <1>0, <1>5 DEF StartSave, EndSave, SaveState, session, marks
  <2> QED BY <2>1 DEF Effect
<1>6. CASE ContractDB(t)
  <2>1. UNCHANGED <<started, cache, gaveUp>> /\ phase' = "contract" /\ task[t].pc = "contract_db"
    BY <1>6 DEF ContractDB, session, marks
  <2>2. ~started
    BY <2>1 DEF Sure
  <2> QED BY <2>1, <2>2 DEF Effect
<1>7. CASE StartDB(t)
  <2>1. task[t].pc = "start_db" /\ task'[t].pc = "start_read"
    BY <1>0, <1>7, GotoShape, PCsFacts DEF StartDB, IInv
  <2>2. started' /\ phase' = "timer" /\ cache' = cache /\ gaveUp' = gaveUp
    BY <1>7 DEF StartDB, marks
  <2> QED BY <2>1, <2>2 DEF Effect
<1>8. CASE GiveUpTx(t)
  <2>1. UNCHANGED <<phase, started, cache>> /\ gaveUp' = gaveUp \cup {task[t].who} /\ task[t].pc = "giveup_tx"
    BY <1>8 DEF GiveUpTx, Goto, session
  <2> QED BY <2>1 DEF Effect
<1>9. CASE EndDB(t)
  <2>1. UNCHANGED <<started, cache, gaveUp>> /\ phase' = "result"
    BY <1>9 DEF EndDB, marks
  <2> QED BY <2>1 DEF Effect
<1>10. CASE DeleteState(t)
  <2>1. UNCHANGED <<phase, started, gaveUp>> /\ cache' = NoOne /\ task[t].pc \in Deleting
    BY <1>10 DEF DeleteState, Goto, session, marks, Deleting
  <2> QED BY <2>1 DEF Effect
<1>11. CASE DeleteDB(t)
  <2>1. UNCHANGED <<started, cache, gaveUp>> /\ phase' = "closed" /\ task[t].pc \in Deleting
    BY <1>11 DEF DeleteDB, Goto, session, marks, Deleting
  <2> QED BY <2>1 DEF Effect
<1> QED BY <1>1, <1>2, <1>3, <1>4, <1>5, <1>6, <1>7, <1>8, <1>9, <1>10, <1>11, AdvanceMoves

LEMMA SureOwn ==
  ASSUME Closing, CInv, NEW t \in Tasks, Advance(t)
  PROVE  Sure(t)'
<1> USE DEF CInv
<1>0. /\ TypeOK /\ Sure(t) /\ Effect(t) /\ ReadGate(t) /\ StartGate(t) /\ CloseGate(t)
      /\ task'[t] = IdleTask \/ Within(task[t].pc, task'[t].pc)
  BY AdvanceEffect, AdvanceGates, AdvanceGoes DEF IInv, Gates, Goes
<1>1. NoOne # "lobby"
  BY NullAssumption DEF Phases
<1>2. ASSUME task'[t].pc \in Connecting \cup GivingUp, NEW u \in Tasks PROVE task[u].pc \notin Starting
  <2>1. task[t].pc \in Connecting \cup GivingUp
    BY <1>0, <1>2, IdleFields DEF Within, Connecting, GivingUp
  <2>2. task[t].pc \in Cached /\ task[t].pc \notin Starting
    BY <2>1 DEF Cached, Connecting, GivingUp, Starting
  <2> QED BY <2>2, StartAlone
<1>3. ASSUME task'[t].pc \in {"connect_save", "giveup_save"}
      PROVE  task'[t].seen # NoOne /\ (started' => task'[t].seen \in {"timer", "result"})
  <2>1. started => cache \in {"timer", "result", NoOne}
    BY <1>2, <1>3, ShownNow DEF Connecting, GivingUp
  <2> QED BY <1>0, <1>3, <2>1 DEF ReadGate
<1>4. ASSUME task'[t].pc \in {"contract_save", "contract_db", "start_db"} PROVE ~started'
  <2>1. CASE task'[t].pc = "contract_save"
    <3>1. started => cache \in {"timer", "result", NoOne}
      BY <1>2, <2>1, ShownNow DEF Connecting
    <3>2. cache = "lobby" /\ started' = started
      BY <1>0, <2>1 DEF ReadGate
    <3> QED BY <1>1, <3>1, <3>2
  <2>2. CASE task'[t].pc = "contract_db"
    BY <1>0, <2>2 DEF ReadGate, Sure
  <2>3. CASE task'[t].pc = "start_db"
    BY <1>0, <2>3 DEF StartGate, Sure
  <2> QED BY <1>4, <2>1, <2>2, <2>3
<1>5. ASSUME task'[t].pc \in {"start_db", "start_read", "start_save"} PROVE cache' # NoOne
  BY <1>0, <1>5 DEF StartGate, Sure
<1>6. ASSUME task'[t].pc \in Deleting PROVE phase' # "timer" \/ Members \subseteq gaveUp'
  <2>1. phase' = "timer" => phase = "timer"
    BY <1>0, <1>6 DEF Effect, Deleting
  <2> QED BY <1>0, <1>6, <2>1 DEF CloseGate, Sure, Effect
<1>7. task'[t].pc \notin {"touch_save", "start_sign"}
  BY <1>0 DEF ReadGate, StartGate
<1> QED BY <1>3, <1>4, <1>5, <1>6, <1>7 DEF Sure

LEMMA SureOther ==
  ASSUME Closing, CInv, NEW t \in Tasks, Advance(t), NEW u \in Tasks \ {t}
  PROVE  Sure(u)'
<1> USE DEF CInv
<1>0. TypeOK /\ Sure(u) /\ Effect(t) /\ task'[u] = task[u] /\ u # t
  BY AdvanceEffect, AdvanceGoes DEF IInv, Others
<1>1. CASE started' = started /\ (phase' = "timer" => phase = "timer")
  <2>1. ASSUME task[u].pc \in {"start_db", "start_read", "start_save"} PROVE cache' # NoOne
    <3>1. task[t].pc \notin Deleting
      BY <1>0, <2>1, StartAlone DEF Starting, Cached
    <3> QED BY <1>0, <2>1, <3>1 DEF Effect, Sure
  <2> QED BY <1>0, <1>1, <2>1 DEF Sure, Effect
<1>2. CASE task[t].pc = "start_db"
  <2>1. task[u].pc \notin Cached
    BY <1>0, <1>2, StartAlone DEF Starting
  <2> QED BY <1>0, <2>1 DEF Sure, Cached, Connecting, Starting, GivingUp, Deleting
<1> QED BY <1>0, <1>1, <1>2 DEF Effect

LEMMA ShownAdvance ==
  ASSUME Closing, CInv, NEW t \in Tasks, Advance(t)
  PROVE  Shown'
<1> USE DEF CInv
<1>0. TypeOK /\ Effect(t) /\ Sure(t) /\ StartGate(t) /\ Others(t) /\ (phase = "timer" => started)
  BY AdvanceEffect, AdvanceGates, AdvanceGoes DEF IInv, Gates, PhaseRecorded
<1>1. started' => phase' \in {"timer", "result", "closed"}
  BY <1>0 DEF Effect, Shown
<1>2. ASSUME started', \A u \in Tasks : task'[u].pc \notin {"start_read", "start_save"}
      PROVE  cache' \in {"timer", "result", NoOne}
  <2>1. started
    BY <1>0, <1>2 DEF Effect
  <2>2. ASSUME NEW u \in Tasks, task[u].pc \in {"start_read", "start_save"}
        PROVE  cache' \in {"timer", "result", NoOne}
    <3>1. u = t
      BY <1>0, <1>2, <2>2 DEF Others
    <3> QED BY <1>0, <1>2, <2>2, <3>1 DEF StartGate, Sure
  <2>3. ASSUME \A u \in Tasks : task[u].pc \notin {"start_read", "start_save"}
        PROVE  cache' \in {"timer", "result", NoOne}
    BY <1>0, <2>1, <2>3 DEF Effect, Shown
  <2> QED BY <2>2, <2>3
<1>3. ASSUME phase' = "timer", cache' = NoOne PROVE Members \subseteq gaveUp'
  BY <1>0, <1>3 DEF Effect, Shown, Sure
<1> QED BY <1>1, <1>2, <1>3 DEF Shown

LEMMA LastOutAdvance ==
  ASSUME Closing, CInv, NEW t \in Tasks, Advance(t)
  PROVE  LastOut'
<1> USE DEF CInv
<1> SUFFICES ASSUME Members \subseteq gaveUp', phase' \notin Over, \A u \in Tasks : task'[u].pc \notin Late
             PROVE  FALSE
  BY DEF LastOut
<1>0. /\ TypeOK /\ Effect(t) /\ Sure(t) /\ LateGate(t) /\ Others(t)
      /\ gaveUp # {} => started
      /\ task[t].pc = "giveup_tx" => started
  BY AdvanceEffect, AdvanceGates, AdvanceGoes DEF IInv, Gates, NothingBeforeStart, TasksRecorded, AfterStart
<1>1. started
  <2>1. CASE gaveUp' = gaveUp
    BY <1>0, <2>1 DEF Closing
  <2>2. CASE gaveUp' # gaveUp
    BY <1>0, <2>2 DEF Effect
  <2> QED BY <2>1, <2>2
<1>2. phase \notin Over
  BY <1>0, <1>1 DEF Effect, Over, Sure
<1>3. task[t].pc \notin Late \cup {"giveup_tx"}
  BY <1>0, <1>2 DEF LateGate, TypeOK, Over
<1>4. gaveUp' = gaveUp
  BY <1>0, <1>3 DEF Effect
<1> QED BY <1>0, <1>2, <1>3, <1>4 DEF LastOut, Late, Others

LEMMA CInvArrive ==
  ASSUME Closing, CInv, NEW t \in Tasks, Arrive(t)
  PROVE  Shown' /\ (\A u \in Tasks : Sure(u)') /\ LastOut'
<1> USE DEF CInv
<1>0. /\ TypeOK /\ Others(t) /\ task[t].pc = "idle" /\ UNCHANGED <<phase, started, cache, gaveUp>>
      /\ phase = "timer" => started
  BY ArriveShape DEF IInv, PhaseRecorded
<1>1. ASSUME NEW u \in Tasks \ {t} PROVE Sure(u)'
  BY <1>0 DEF Sure, Others
<1>2. task'[t].kind # "result" /\ started => cache \in {"timer", "result", NoOne}
  BY <1>0, StartAway, ShownNow
<1>3. Sure(t)'
  <2>1. ASSUME task'[t].pc = "touch_save" PROVE task'[t].seen # NoOne /\ (started => task'[t].seen \in {"timer", "result"})
    BY <1>0, <1>2, <2>1, ArriveShape, ArriveGates
  <2>2. task'[t].pc = "start_sign" => ~started
    BY <1>0, ArriveGates DEF Shown
  <2>3. ASSUME task'[t].pc \in Deleting PROVE phase # "timer" \/ Members \subseteq gaveUp
    BY <1>0, <1>2, <2>3, ArriveShape, ArriveGates DEF Deleting, Shown
  <2>4. task'[t].pc \notin {"connect_save", "giveup_save", "contract_save", "contract_db", "start_db", "start_read", "start_save"}
    BY <1>0, ArriveShape
  <2> QED BY <1>0, <2>1, <2>2, <2>3, <2>4 DEF Sure
<1>4. Shown'
  BY <1>0 DEF Shown, Others
<1>5. LastOut'
  BY <1>0 DEF LastOut, Late, Others, GivingUp
<1> QED BY <1>1, <1>3, <1>4, <1>5

LEMMA CInvPick ==
  ASSUME CInv, NEW w \in Workers, NEW j \in JobIds, PickJob(w, j)
  PROVE  Shown' /\ (\A u \in Tasks : Sure(u)') /\ LastOut'
<1> USE DEF CInv
<1>0. /\ TypeOK /\ Others(w) /\ w \in Tasks /\ task[w].pc = "idle" /\ task'[w].pc = "job_dispatch"
      /\ UNCHANGED <<phase, started, cache, gaveUp>>
  BY PickShape DEF IInv
<1>1. Shown' /\ LastOut'
  BY <1>0 DEF Shown, LastOut, Late, Others, GivingUp
<1>2. \A u \in Tasks : Sure(u)'
  BY <1>0 DEF Sure, Others, Deleting
<1> QED BY <1>1, <1>2

LEMMA CInvStep == ASSUME Closing, CInv, [Next]_vars PROVE CInv'
<1>1. IInv' /\ InFlight' /\ TypeOK
  BY NextIInv, FlightStep DEF CInv, IInv
<1> SUFFICES Shown' /\ (\A u \in Tasks : Sure(u)') /\ LastOut'
  BY <1>1 DEF CInv
<1>2. ASSUME NEW t \in Tasks, Advance(t) PROVE Shown' /\ (\A u \in Tasks : Sure(u)') /\ LastOut'
  BY <1>2, ShownAdvance, SureOwn, SureOther, LastOutAdvance
<1>3. ASSUME NEW t \in Tasks, Swallow(t) \/ Fail(t) PROVE FALSE
  BY <1>1, <1>3 DEF Swallow, Fail, MayFail, Closing, TypeOK
<1>4. ~Crash
  BY <1>1 DEF Crash, Closing, TypeOK
<1>5. ASSUME Tick \/ UNCHANGED vars PROVE Shown' /\ (\A u \in Tasks : Sure(u)') /\ LastOut'
  <2>1. UNCHANGED <<phase, started, cache, gaveUp, task>>
    BY <1>5 DEF Tick, vars, session, marks
  <2> QED BY <2>1 DEF CInv, Shown, Sure, LastOut
<1> QED BY <1>2, <1>3, <1>4, <1>5, CInvArrive, CInvPick DEF Next

LEMMA CInvInit == ASSUME Closing, Init PROVE CInv
<1>1. \A t \in Tasks : task[t].pc = "idle"
  BY IdleFields DEF Init
<1>2. Shown /\ LastOut
  BY DEF Init, Shown, LastOut, Closing
<1>3. \A t \in Tasks : Sure(t)
  BY <1>1 DEF Sure, Deleting
<1> QED BY <1>2, <1>3, InitIInv, FlightInit DEF CInv

LEMMA CInvHolds == ASSUME Closing PROVE Spec => []CInv
<1>1. ASSUME Closing PROVE Init => CInv
  BY <1>1, CInvInit
<1>2. ASSUME Closing PROVE CInv /\ [Next]_vars => CInv'
  BY <1>2, CInvStep
<1> QED BY <1>1, <1>2, PTL DEF Spec

\* Of several members who give up at once, one sees that all have and ends the
\* session: when the handlers are done, the room is over.
THEOREM LastOutEndsIt == ASSUME Closing PROVE Spec => []AllGaveUpMeansOver
<1>1. CInv => AllGaveUpMeansOver
  BY DEF CInv, LastOut, Late, AllGaveUpMeansOver, GivingUp
<1> QED BY <1>1, CInvHolds, PTL

\* handleRoomCleanup trusts a cached phase that other handlers write back, and
\* still never closes a running session that a member is in, as long as nothing
\* that touches the cached state overlaps with a start.
THEOREM RunningIsSpared == ASSUME Closing PROVE Spec => SessionProtected
<1>1. ASSUME CInv, [Next]_vars, Closing PROVE [phase = "timer" /\ phase' = "closed" => Members \subseteq gaveUp]_vars
  <2>0. TypeOK
    BY <1>1 DEF CInv, IInv
  <2>1. ASSUME NEW t \in Tasks, Advance(t), phase = "timer", phase' = "closed" PROVE Members \subseteq gaveUp
    <3>1. Effect(t) /\ Sure(t) /\ started
      BY <1>1, <2>1, AdvanceEffect DEF CInv, IInv, PhaseRecorded
    <3> QED BY <2>1, <3>1 DEF Effect, Sure
  <2>2. ASSUME NEW t \in Tasks, Arrive(t) \/ Swallow(t) \/ Fail(t) PROVE phase' = phase
    BY <2>0, <2>2, ArriveShape, SwallowShape, FailShape
  <2>3. ASSUME NEW w \in Workers, NEW j \in JobIds, PickJob(w, j) PROVE phase' = phase
    BY <2>0, <2>3, PickShape
  <2>4. Crash \/ Tick \/ UNCHANGED vars => phase' = phase
    BY <2>0, CrashShape DEF Tick, vars
  <2> QED BY <1>1, <2>1, <2>2, <2>3, <2>4 DEF Next
<1> QED BY <1>1, CInvHolds, PTL DEF Spec, SessionProtected

=============================================================================
