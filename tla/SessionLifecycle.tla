-------------------------- MODULE SessionLifecycle --------------------------
(***************************************************************************)
(* The life of one room's focus session, as the NestJS backend runs it:    *)
(* who moves the room's phase in PostgreSQL, what the copy of that phase   *)
(* in Redis says, which BullMQ jobs exist, and what happens to all of it   *)
(* when handlers interleave at their awaits, a call is rejected or the     *)
(* server restarts.                                                        *)
(*                                                                         *)
(* A task is one run of a handler: an HTTP request or socket event (a      *)
(* handler slot), a BullMQ job (a worker slot), or onModuleInit (Boot).    *)
(* Its pc names the await it stands at.  The cached room state is written  *)
(* back whole by every handler that changes any part of it, so a task      *)
(* keeps the phase it has read in seen.                                    *)
(***************************************************************************)
EXTENDS Integers, FiniteSets

CONSTANTS
  Members,     \* the room's members; the roster does not change here
  Notices,     \* the break-warning and break-start jobs of the template
  Handlers,    \* slots for requests and socket events in flight
  Workers,     \* slots of the BullMQ worker
  Boot,        \* the slot onModuleInit runs in
  Requests,    \* the kinds of request the environment issues
  Apart,       \* groups of kinds it does not have in flight together
  MaxStarts,   \* bound: start requests issued
  MaxCrashes,  \* bound: restarts of the server
  MaxFaults,   \* bound: rejected database, Redis or queue calls
  Mixed,       \* bound: whether a behaviour may have both
  NoOne        \* null: no member, no cached state, no job

RequestKinds == {"connect", "touch", "start", "giveup", "leave", "cleanup", "result"}

ASSUME ConstantsAssumption ==
  /\ Requests \subseteq RequestKinds /\ Apart \subseteq SUBSET RequestKinds
  /\ MaxStarts \in Nat /\ MaxCrashes \in Nat /\ MaxFaults \in Nat /\ Mixed \in BOOLEAN
  /\ Handlers \cap Workers = {} /\ Boot \notin Handlers \cup Workers

Phases == {"lobby", "contract", "timer", "result", "closed"}
Tasks  == Handlers \cup Workers \cup {Boot}

EndJob       == <<"end", NoOne>>
RevealJob(m) == <<"reveal", m>>
NoticeJobs   == {"notice"} \X Notices
RevealJobs   == {"reveal"} \X Members
JobIds       == {EndJob} \cup NoticeJobs \cup RevealJobs

JobStates == [state : {"none", "delayed", "active", "failed"}, left : 0..3]
Gone      == [state |-> "none", left |-> 0]

ASSUME NullAssumption == NoOne \notin Members \cup JobIds \cup Phases

PCs == {"idle", "connect_read", "connect_save", "contract_read", "contract_save", "contract_db",
        "touch_save",
        "start_sign", "start_db", "start_read", "start_save", "start_cancel",
        "start_end", "start_notices",
        "giveup_tx", "giveup_settle", "giveup_job", "giveup_read",
        "giveup_save", "giveup_count",
        "end_check", "end_db", "end_read", "end_save", "end_settle",
        "end_cancel", "end_reveal",
        "delete_both", "delete_db", "delete_state", "closed_cancel",
        "cleanup_active", "cleanup_count",
        "job_dispatch", "job_reveal", "result_settle", "result_reveal",
        "boot_scan", "boot_end", "boot_notices"}

TaskStates == [pc : PCs, kind : RequestKinds \cup {"none"},
               who : Members \cup {NoOne}, seen : Phases \cup {NoOne},
               job : JobIds \cup {NoOne}, todo : SUBSET JobIds]

IdleTask == [pc |-> "idle", kind |-> "none", who |-> NoOne, seen |-> NoOne,
             job |-> NoOne, todo |-> {}]

VARIABLES
  phase,     \* DB room.phase
  started,   \* DB room.startedAt is set
  ended,     \* DB room.endedAt is set
  gaveUp,    \* DB members with gaveUpAt
  settled,   \* DB members with a room_result and its drawn penalties
  revealed,  \* DB members whose penalties are all isRevealed
  cache,     \* Redis room:state phase, or NoOne when the key is absent
  queue,     \* BullMQ: the job behind every job id
  elapsed,   \* the planned duration has passed since startedAt
  task,      \* the handler run in every slot
  starts, crashes, faults   \* how much of each bound is used

session == <<started, ended, elapsed>>
marks   == <<gaveUp, settled, revealed>>
used    == <<starts, crashes, faults>>
vars    == <<phase, session, marks, cache, queue, task, used>>

TypeOK ==
  /\ phase \in Phases
  /\ started \in BOOLEAN /\ ended \in BOOLEAN /\ elapsed \in BOOLEAN
  /\ gaveUp \subseteq Members /\ settled \subseteq Members /\ revealed \subseteq Members
  /\ cache \in Phases \cup {NoOne}
  /\ queue \in [JobIds -> JobStates]
  /\ task \in [Tasks -> TaskStates]
  /\ starts \in Nat /\ crashes \in Nat /\ faults \in Nat

\* RoomService.create: a lobby room in the database and in Redis.
Init ==
  /\ phase = "lobby" /\ started = FALSE /\ ended = FALSE /\ elapsed = FALSE
  /\ gaveUp = {} /\ settled = {} /\ revealed = {}
  /\ cache = "lobby"
  /\ queue = [j \in JobIds |-> Gone]
  /\ task = [t \in Tasks |-> IdleTask]
  /\ starts = 0 /\ crashes = 0 /\ faults = 0

-----------------------------------------------------------------------------
(* Tasks and jobs *)

Goto(t, from, to) ==
  /\ task[t].pc = from
  /\ task' = [task EXCEPT ![t].pc = to]

\* Adding a job id that exists, in whatever state, does nothing; a job that a
\* worker holds cannot be removed, and the error is swallowed.
Added(q, ids, attempts) ==
  [j \in JobIds |-> IF j \in ids /\ q[j].state = "none"
                    THEN [state |-> "delayed", left |-> attempts] ELSE q[j]]
Cancelled(q) == [j \in JobIds |-> IF q[j].state = "active" THEN q[j] ELSE Gone]

\* The handler of t returns, leaving the jobs q; its own job is completed
\* and removed (removeOnComplete).
Return(t, q) ==
  /\ task' = [task EXCEPT ![t] = IdleTask]
  /\ queue' = [j \in JobIds |-> IF j = task[t].job THEN Gone ELSE q[j]]

\* RoomRepository.getState on the way to a write.  Without a state the
\* handler skips the write.
ReadState(t, from, save, skip) ==
  /\ task[t].pc = from
  /\ task' = [task EXCEPT ![t].pc = IF cache = NoOne THEN skip ELSE save,
                          ![t].seen = cache]
  /\ UNCHANGED <<phase, session, marks, cache, queue, used>>

\* RoomRepository.saveState: the whole state that was read, with phase p.
SaveState(t, from, to, p) ==
  /\ task[t].pc = from
  /\ task' = [task EXCEPT ![t].pc = to, ![t].seen = NoOne]
  /\ cache' = p
  /\ UNCHANGED <<phase, session, marks, queue, used>>

\* The environment issues a request into a free slot.
Issue(t, kind, pc, who) ==
  /\ t \in Handlers /\ task[t].pc = "idle"
  /\ kind \in Requests
  /\ \A g \in Apart : kind \in g => \A u \in Handlers : task[u].kind \notin g
  /\ task' = [task EXCEPT ![t] =
       [IdleTask EXCEPT !.pc = pc, !.kind = kind, !.who = who,
                        !.seen = IF kind = "touch" THEN cache ELSE NoOne]]

-----------------------------------------------------------------------------
(* Handlers that rewrite the cached state *)

\* setSigned, resetAllSigns, setMemberEdit, setAllEdit, setConnected(false):
\* the state is read, one member's entry is changed, all of it is saved.
Touch(t) ==
  /\ cache # NoOne
  /\ Issue(t, "touch", "touch_save", NoOne)
  /\ UNCHANGED <<phase, session, marks, cache, queue, used>>

TouchSave(t) ==
  /\ task[t].pc = "touch_save"
  /\ cache' = task[t].seen
  /\ Return(t, queue)
  /\ UNCHANGED <<phase, session, marks, used>>

\* handleConnection: refused when the room is over; isMember and join, then
\* setConnected(true) and transitionToContract, each on a state read afresh.
Connect(t) ==
  /\ cache \in {"lobby", "contract", "timer"}
  /\ Issue(t, "connect", "connect_read", NoOne)
  /\ UNCHANGED <<phase, session, marks, cache, queue, used>>

ConnectRead(t) == ReadState(t, "connect_read", "connect_save", "contract_read")
ConnectSave(t) == SaveState(t, "connect_save", "contract_read", task[t].seen)

\* Mutant: the transition is repeated for a room that has made it.
ContractReadAgain(t) ==
  /\ task[t].pc = "contract_read"
  /\ IF cache \in {"lobby", "contract"}
     THEN task' = [task EXCEPT ![t].pc = "contract_save"] /\ UNCHANGED queue
     ELSE Return(t, queue)
  /\ UNCHANGED <<phase, session, marks, cache, used>>

ContractRead(t) ==
  /\ task[t].pc = "contract_read"
  /\ IF cache = "lobby"
     THEN task' = [task EXCEPT ![t].pc = "contract_save"] /\ UNCHANGED queue
     ELSE Return(t, queue)
  /\ UNCHANGED <<phase, session, marks, cache, used>>

ContractSave(t) == SaveState(t, "contract_save", "contract_db", "contract")

ContractDB(t) ==
  /\ task[t].pc = "contract_db"
  /\ phase' = "contract"
  /\ Return(t, queue)
  /\ UNCHANGED <<session, marks, cache, used>>

-----------------------------------------------------------------------------
(* TimerService.startTimer, beginSession, scheduleSessionJobs *)

\* verifyHost and ensureContractPhase, on the database's phase.
Start(t) ==
  /\ phase = "contract"
  /\ starts < MaxStarts /\ starts' = starts + 1
  /\ Issue(t, "start", "start_sign", NoOne)
  /\ UNCHANGED <<phase, session, marks, cache, queue, crashes, faults>>

\* loadRoomTemplate and loadSignState: refused without a cached state, and
\* whenever a signature is missing.
StartSign(t) ==
  /\ task[t].pc = "start_sign"
  /\ \/ cache # NoOne /\ task' = [task EXCEPT ![t].pc = "start_db"] /\ UNCHANGED queue
     \/ Return(t, queue)
  /\ UNCHANGED <<phase, session, marks, cache, used>>

StartDB(t) ==
  /\ Goto(t, "start_db", "start_read")
  /\ phase' = "timer" /\ started' = TRUE /\ elapsed' = FALSE
  /\ UNCHANGED <<ended, marks, cache, queue, used>>

StartRead(t) == ReadState(t, "start_read", "start_save", "start_cancel")
StartSave(t) == SaveState(t, "start_save", "start_cancel", "timer")

StartCancel(t) ==
  /\ Goto(t, "start_cancel", "start_end")
  /\ queue' = Cancelled(queue)
  /\ UNCHANGED <<phase, session, marks, cache, used>>

StartEnd(t) ==
  /\ task[t].pc = "start_end"
  /\ task' = [task EXCEPT ![t].pc = "start_notices", ![t].todo = NoticeJobs]
  /\ queue' = Added(queue, {EndJob}, 3)
  /\ UNCHANGED <<phase, session, marks, cache, used>>

\* One awaited add per round; then destroyRoom, session:started and return.
Notify(t, pc, attempts) ==
  /\ task[t].pc = pc
  /\ \/ \E j \in task[t].todo :
          /\ queue' = Added(queue, {j}, attempts)
          /\ task' = [task EXCEPT ![t].todo = @ \ {j}]
     \/ task[t].todo = {} /\ Return(t, queue)
  /\ UNCHANGED <<phase, session, marks, cache, used>>

StartNotices(t) == Notify(t, "start_notices", 3)

-----------------------------------------------------------------------------
(* TimerService.giveUp *)

GiveUp(t, m) ==
  /\ phase = "timer" /\ m \notin gaveUp
  /\ Issue(t, "giveup", "giveup_tx", m)
  /\ UNCHANGED <<phase, session, marks, cache, queue, used>>

GiveUpTx(t) ==
  /\ Goto(t, "giveup_tx", "giveup_settle")
  /\ gaveUp' = gaveUp \cup {task[t].who}
  /\ UNCHANGED <<phase, session, settled, revealed, cache, queue, used>>

GiveUpSettle(t) ==
  /\ Goto(t, "giveup_settle", "giveup_job")
  /\ settled' = settled \cup {task[t].who}
  /\ UNCHANGED <<phase, session, gaveUp, revealed, cache, queue, used>>

GiveUpJob(t) ==
  /\ Goto(t, "giveup_job", "giveup_read")
  /\ queue' = Added(queue, {RevealJob(task[t].who)}, 3)
  /\ UNCHANGED <<phase, session, marks, cache, used>>

GiveUpRead(t) == ReadState(t, "giveup_read", "giveup_save", "giveup_count")
GiveUpSave(t) == SaveState(t, "giveup_save", "giveup_count", task[t].seen)

\* Mutant: the members are counted as they were before this one gave up.
GiveUpCountStale(t) ==
  /\ task[t].pc = "giveup_count"
  /\ IF Members \subseteq gaveUp \ {task[t].who}
     THEN task' = [task EXCEPT ![t].pc = "end_check"] /\ UNCHANGED queue
     ELSE Return(t, queue)
  /\ UNCHANGED <<phase, session, marks, cache, used>>

\* countActiveMembersInRoom: the last one out ends the session.
GiveUpCount(t) ==
  /\ task[t].pc = "giveup_count"
  /\ IF Members \subseteq gaveUp
     THEN task' = [task EXCEPT ![t].pc = "end_check"] /\ UNCHANGED queue
     ELSE Return(t, queue)
  /\ UNCHANGED <<phase, session, marks, cache, used>>

-----------------------------------------------------------------------------
(* TimerService.endSession *)

Over == {"result", "closed"}

EndCheck(t) ==
  /\ task[t].pc = "end_check"
  /\ IF phase \in Over THEN Return(t, queue)
     ELSE task' = [task EXCEPT ![t].pc = "end_db"] /\ UNCHANGED queue
  /\ UNCHANGED <<phase, session, marks, cache, used>>

\* Mutant: the update sets the phase and forgets endedAt.
EndDBNoTime(t) ==
  /\ Goto(t, "end_db", "end_read")
  /\ phase' = "result"
  /\ UNCHANGED <<session, marks, cache, queue, used>>

EndDB(t) ==
  /\ Goto(t, "end_db", "end_read")
  /\ phase' = "result" /\ ended' = TRUE
  /\ UNCHANGED <<started, elapsed, marks, cache, queue, used>>

EndRead(t) == ReadState(t, "end_read", "end_save", "end_settle")
EndSave(t) == SaveState(t, "end_save", "end_settle", "result")

\* PenaltyService.calculateAndSave, one transaction for all members.
EndSettle(t) ==
  /\ Goto(t, "end_settle", "end_cancel")
  /\ settled' = Members
  /\ UNCHANGED <<phase, session, gaveUp, revealed, cache, queue, used>>

EndCancel(t) ==
  /\ Goto(t, "end_cancel", "end_reveal")
  /\ queue' = Cancelled(queue)
  /\ UNCHANGED <<phase, session, marks, cache, used>>

\* session:ended, scheduleRevealJobs, return.
EndReveal(t) ==
  /\ task[t].pc = "end_reveal"
  /\ Return(t, Added(queue, RevealJobs, 3))
  /\ UNCHANGED <<phase, session, marks, cache, used>>

-----------------------------------------------------------------------------
(* Closing: the host leaves, or everybody has been disconnected for 10 s *)

Leave(t) ==
  /\ phase \in {"lobby", "contract"}
  /\ Issue(t, "leave", "delete_both", NoOne)
  /\ UNCHANGED <<phase, session, marks, cache, queue, used>>

\* handleRoomCleanup decides on the cached phase.
Cleanup(t) ==
  /\ cache # "result"
  /\ Issue(t, "cleanup", IF cache = "timer" THEN "cleanup_active" ELSE "cleanup_count", NoOne)
  /\ UNCHANGED <<phase, session, marks, cache, queue, used>>

\* Mutant: a timer room is cleaned up whoever is still in it.
CleanupActiveBlind(t) ==
  /\ Goto(t, "cleanup_active", "cleanup_count")
  /\ UNCHANGED <<phase, session, marks, cache, queue, used>>

CleanupActive(t) ==
  /\ task[t].pc = "cleanup_active"
  /\ IF Members \subseteq gaveUp
     THEN task' = [task EXCEPT ![t].pc = "cleanup_count"] /\ UNCHANGED queue
     ELSE Return(t, queue)
  /\ UNCHANGED <<phase, session, marks, cache, used>>

\* countConnectedMembers; who is connected is not part of this module.
CleanupCount(t) ==
  /\ task[t].pc = "cleanup_count"
  /\ \/ task' = [task EXCEPT ![t].pc = "delete_both"] /\ UNCHANGED queue
     \/ Return(t, queue)
  /\ UNCHANGED <<phase, session, marks, cache, used>>

\* Mutant: the key is overwritten with a marker instead of deleted.
DeleteStateMarks(t) ==
  /\ \/ Goto(t, "delete_both", "delete_db")
     \/ Goto(t, "delete_state", "closed_cancel")
  /\ cache' = "deleted"
  /\ UNCHANGED <<phase, session, marks, queue, used>>

\* deleteRoom: both writes are in flight at once, in either order ...
DeleteState(t) ==
  /\ \/ Goto(t, "delete_both", "delete_db")
     \/ Goto(t, "delete_state", "closed_cancel")
  /\ cache' = NoOne
  /\ UNCHANGED <<phase, session, marks, queue, used>>

DeleteDB(t) ==
  /\ \/ Goto(t, "delete_both", "delete_state")
     \/ Goto(t, "delete_db", "closed_cancel")
  /\ phase' = "closed"
  /\ UNCHANGED <<session, marks, cache, queue, used>>

\* ... then room.closed, to which handleRoomClosed answers.
ClosedCancel(t) ==
  /\ task[t].pc = "closed_cancel"
  /\ Return(t, Cancelled(queue))
  /\ UNCHANGED <<phase, session, marks, cache, used>>

-----------------------------------------------------------------------------
(* ResultService.getResult *)

Result(t) ==
  /\ phase = "result" \/ (phase = "closed" /\ ended)
  /\ Issue(t, "result", IF settled = Members THEN "result_reveal" ELSE "result_settle", NoOne)
  /\ UNCHANGED <<phase, session, marks, cache, queue, used>>

ResultSettle(t) ==
  /\ Goto(t, "result_settle", "result_reveal")
  /\ settled' = Members
  /\ UNCHANGED <<phase, session, gaveUp, revealed, cache, queue, used>>

\* revealExpiredPenalties: everything, once ten minutes have passed.
ResultReveal(t) ==
  /\ task[t].pc = "result_reveal"
  /\ revealed' \in {revealed, revealed \cup settled}
  /\ Return(t, queue)
  /\ UNCHANGED <<phase, session, gaveUp, settled, cache, used>>

-----------------------------------------------------------------------------
(* SessionProcessor and BullMQ *)

\* The end job is due when the planned duration has passed.
PickJob(w, j) ==
  /\ w \in Workers /\ task[w].pc = "idle"
  /\ queue[j].state = "delayed"
  /\ j = EndJob => elapsed
  /\ queue' = [queue EXCEPT ![j].state = "active"]
  /\ task' = [task EXCEPT ![w] = [IdleTask EXCEPT !.pc = "job_dispatch", !.job = j]]
  /\ UNCHANGED <<phase, session, marks, cache, used>>

\* process: every kind of job is skipped once the session is over; a notice
\* only sends messages.
JobDispatch(t) ==
  /\ task[t].pc = "job_dispatch"
  /\ LET j == task[t].job IN
     \/ (phase \in Over \/ j \in NoticeJobs) /\ Return(t, queue)
     \/ /\ phase \notin Over /\ j \notin NoticeJobs
        /\ task' = [task EXCEPT ![t].pc = IF j = EndJob THEN "end_check" ELSE "job_reveal"]
        /\ UNCHANGED queue
  /\ UNCHANGED <<phase, session, marks, cache, used>>

JobReveal(t) ==
  /\ task[t].pc = "job_reveal"
  /\ revealed' = revealed \cup {m \in settled : RevealJob(m) = task[t].job}
  /\ Return(t, queue)
  /\ UNCHANGED <<phase, session, gaveUp, settled, cache, used>>

-----------------------------------------------------------------------------
(* Time, rejected calls, restarts *)

Tick ==
  /\ started /\ ~elapsed
  /\ elapsed' = TRUE
  /\ UNCHANGED <<phase, started, ended, marks, cache, queue, task, used>>

\* Rejections that the handler catches: it goes on as if nothing happened.
Swallowed == [giveup_settle |-> "giveup_job", giveup_job |-> "giveup_read",
              end_settle |-> "end_cancel", boot_end |-> "boot_notices"]

MayFail == faults < MaxFaults /\ (Mixed \/ crashes = 0)

Swallow(t) ==
  /\ MayFail /\ faults' = faults + 1
  /\ task[t].pc \in DOMAIN Swallowed
  /\ task' = [task EXCEPT ![t].pc = Swallowed[task[t].pc]]
  /\ UNCHANGED <<phase, session, marks, cache, queue, starts, crashes>>

\* Any other rejection ends the handler; BullMQ retries a job until its
\* attempts are used up.  (Of deleteRoom's two calls, one has been made.)
Fail(t) ==
  /\ MayFail /\ faults' = faults + 1
  /\ task[t].pc \notin {"idle", "delete_both"} \cup DOMAIN Swallowed
  /\ task' = [task EXCEPT ![t] = IdleTask]
  /\ queue' = [j \in JobIds |->
                 IF j # task[t].job THEN queue[j]
                 ELSE IF queue[j].left > 1
                      THEN [state |-> "delayed", left |-> queue[j].left - 1]
                      ELSE [state |-> "failed", left |-> 0]]
  /\ UNCHANGED <<phase, session, marks, cache, starts, crashes>>

\* The process dies and comes back: every task is lost, BullMQ queues the
\* jobs that were active again, and onModuleInit runs.
Crash ==
  /\ crashes < MaxCrashes /\ (Mixed \/ faults = 0) /\ crashes' = crashes + 1
  /\ task' = [t \in Tasks |-> IF t = Boot THEN [IdleTask EXCEPT !.pc = "boot_scan"]
                              ELSE IdleTask]
  /\ queue' = [j \in JobIds |-> IF queue[j].state = "active"
                                THEN [queue[j] EXCEPT !.state = "delayed"] ELSE queue[j]]
  /\ UNCHANGED <<phase, session, marks, cache, starts, faults>>

\* Mutant: only sessions that are overdue are recovered.
BootScanOverdue(t) ==
  /\ task[t].pc = "boot_scan"
  /\ IF phase = "timer" /\ started /\ elapsed
     THEN task' = [task EXCEPT ![t].pc = "end_check"] /\ UNCHANGED queue
     ELSE Return(t, queue)
  /\ UNCHANGED <<phase, session, marks, cache, used>>

BootScan(t) ==
  /\ task[t].pc = "boot_scan"
  /\ IF phase = "timer" /\ started
     THEN /\ task' = [task EXCEPT ![t].pc = IF elapsed THEN "end_check" ELSE "boot_end"]
          /\ UNCHANGED queue
     ELSE Return(t, queue)
  /\ UNCHANGED <<phase, session, marks, cache, used>>

\* The end job is restored with a single attempt ...
BootEnd(t) ==
  /\ task[t].pc = "boot_end"
  /\ \E future \in SUBSET NoticeJobs :
       task' = [task EXCEPT ![t].pc = "boot_notices", ![t].todo = future]
  /\ queue' = Added(queue, {EndJob}, 1)
  /\ UNCHANGED <<phase, session, marks, cache, used>>

\* ... and so are the notices that are still to come.
BootNotices(t) == Notify(t, "boot_notices", 1)

-----------------------------------------------------------------------------
Arrive(t) ==
  \/ Touch(t) \/ Connect(t) \/ Start(t) \/ Leave(t) \/ Cleanup(t) \/ Result(t)
  \/ \E m \in Members : GiveUp(t, m)

Advance(t) ==
  \/ TouchSave(t) \/ ConnectRead(t) \/ ConnectSave(t)
  \/ ContractRead(t) \/ ContractSave(t) \/ ContractDB(t)
  \/ StartSign(t) \/ StartDB(t) \/ StartRead(t) \/ StartSave(t) \/ StartCancel(t)
  \/ StartEnd(t) \/ StartNotices(t)
  \/ GiveUpTx(t) \/ GiveUpSettle(t) \/ GiveUpJob(t) \/ GiveUpRead(t) \/ GiveUpSave(t)
  \/ GiveUpCount(t)
  \/ EndCheck(t) \/ EndDB(t) \/ EndRead(t) \/ EndSave(t) \/ EndSettle(t) \/ EndCancel(t)
  \/ EndReveal(t)
  \/ CleanupActive(t) \/ CleanupCount(t) \/ DeleteState(t) \/ DeleteDB(t) \/ ClosedCancel(t)
  \/ ResultSettle(t) \/ ResultReveal(t)
  \/ JobDispatch(t) \/ JobReveal(t)
  \/ BootScan(t) \/ BootEnd(t) \/ BootNotices(t)

Next ==
  \/ \E t \in Tasks : Arrive(t) \/ Advance(t) \/ Swallow(t) \/ Fail(t)
  \/ \E w \in Workers, j \in JobIds : PickJob(w, j)
  \/ Tick
  \/ Crash

Spec == Init /\ [][Next]_vars

\* A handler that runs goes on, the planned duration passes, and a due end job
\* is picked up: no more than the runtime, the clock and BullMQ provide.  No
\* request is ever guaranteed to come.
Fairness ==
  /\ \A t \in Tasks : WF_vars(Advance(t))
  /\ WF_vars(\E w \in Workers : PickJob(w, EndJob))
  /\ WF_vars(Tick)

FairSpec == Spec /\ Fairness

-----------------------------------------------------------------------------
(* Properties *)

\* Nobody is judged early: a member has a result only after giving up or after
\* the session's end was recorded (calculateAndSave and its callers).
SettledJustified == settled \subseteq gaveUp \/ ended

\* The end is recorded only of a session that was started, and nobody gives up
\* a session that was not: the jobs and handlers left over from a session
\* cannot end a room that never ran one.
NothingBeforeStart == (ended \/ gaveUp # {} \/ elapsed) => started

\* A running session never loses its end while no call is rejected: at every
\* moment, restarts included, the end job is queued or running, or a handler
\* stands where it will queue it or end the session.
EndInSight ==
  phase = "timer" /\ faults = 0 =>
    \/ queue[EndJob].state \in {"delayed", "active"}
    \/ \E t \in Tasks :
         task[t].pc \in {"start_read", "start_save", "start_cancel", "start_end",
                        "end_check", "end_db", "boot_scan", "boot_end"}

\* When the last member has given up, and the handlers are done, the session is
\* over: of several members giving up at once, one sees that all have.
AllGaveUpMeansOver ==
  (Members \subseteq gaveUp /\ \A t \in Tasks : task[t].pc = "idle") => phase \in Over

\* handleRoomCleanup never closes a running session that a member is still in.
SessionProtected == [][phase = "timer" /\ phase' = "closed" => Members \subseteq gaveUp]_vars

\* The room keeps the promise of RoomPhases.
Promise == INSTANCE RoomPhases
KeepsPromise == Promise!Spec

\* A reveal job that completes has made the member's penalties public.
RevealJobReveals ==
  [][\A m \in settled :
       queue[RevealJob(m)].state = "active" /\ queue'[RevealJob(m)] = Gone => m \in revealed']_vars

\* A running session ends, whatever restarts, unless a call is rejected.
SessionEnds == phase = "timer" ~> (phase \in Over \/ faults > 0)
=============================================================================
