-------------------------- MODULE PenaltySettlement --------------------------
(***************************************************************************)
(* Who draws a member's penalties, and who makes them public.  Penalties   *)
(* are drawn in a PostgreSQL transaction (READ COMMITTED) by a give-up, by *)
(* the end of the session, or by the fallbacks of the result and give-up   *)
(* pages; they are made public by the last spin, by leaving the roulette,  *)
(* by the reveal job and by a result page opened ten minutes after the end.*)
(*                                                                         *)
(* A row of room_result and its rows of result_penalty are written by one  *)
(* transaction and kept as one record.  What a transaction has inserted or *)
(* updated locks that row until it commits or is rolled back.              *)
(***************************************************************************)
EXTENDS Integers, FiniteSets

CONSTANTS
  Members,      \* the room's members
  Slots,        \* handlers in flight at once
  Requests,     \* the kinds of handler that occur
  MaxFaults,    \* bound: rejected database calls
  MaxCrashes,   \* bound: restarts of the server
  NoOne         \* null: no member, no row

RequestKinds == {"giveup", "end", "result", "giveup_result", "spin", "exit", "job"}

ASSUME ConstantsAssumption ==
  /\ Requests \subseteq RequestKinds
  /\ MaxFaults \in Nat /\ MaxCrashes \in Nat

\* basis: drawn from the escape time, or the most because the member gave up.
\* time: the rest of the session counts as escape time.  items: what was drawn;
\* a tier may ask for none, and the pool may be empty.
Rows == [basis : {"score", "forfeit"}, time : BOOLEAN, items : {"none", "hidden", "public"}]

ASSUME NullAssumption == NoOne \notin Members \cup Rows

PCs == {"idle", "giveup_tx", "end_db",
        "load", "processed", "find", "write", "commit",
        "reload", "expire", "spin_reveal", "exit_find", "exit_reveal", "job_reveal",
        "announce"}

Tasks == [pc : PCs, kind : RequestKinds \cup {"none"}, who : Members \cup {NoOne},
          snap : SUBSET Members,                  \* members with gaveUpAt, as loaded
          todo : SUBSET Members,                  \* members the transaction still visits
          at : Members \cup {NoOne}, found : BOOLEAN,
          ins : [Members -> Rows \cup {NoOne}],   \* rows inserted, uncommitted
          upd : SUBSET Members,                   \* rows updated, uncommitted
          seen : SUBSET Members]                  \* members with hidden penalties, as loaded

IdleTask == [pc |-> "idle", kind |-> "none", who |-> NoOne, snap |-> {}, todo |-> {},
             at |-> NoOne, found |-> FALSE, ins |-> [m \in Members |-> NoOne],
             upd |-> {}, seen |-> {}]

VARIABLES
  gaveUp,     \* members with gaveUpAt
  inTime,     \* those that had it when the end of the session was recorded
  over,       \* phase is result (or closed, with endedAt)
  late,       \* ROULETTE_TIMEOUT_MS have passed since endedAt
  row,        \* room_result and result_penalty
  announced,  \* members whose result:revealed a spin or an exit has sent
  task, faults, crashes

room == <<gaveUp, inTime, over, late>>
used == <<faults, crashes>>
vars == <<room, row, announced, task, used>>

TypeOK ==
  /\ gaveUp \subseteq Members /\ inTime \subseteq Members
  /\ over \in BOOLEAN /\ late \in BOOLEAN
  /\ row \in [Members -> Rows \cup {NoOne}]
  /\ announced \subseteq Members
  /\ task \in [Slots -> Tasks]
  /\ faults \in Nat /\ crashes \in Nat

\* A session that runs: phase timer, nobody judged.
Init ==
  /\ gaveUp = {} /\ inTime = {} /\ over = FALSE /\ late = FALSE
  /\ row = [m \in Members |-> NoOne]
  /\ announced = {}
  /\ task = [t \in Slots |-> IdleTask]
  /\ faults = 0 /\ crashes = 0

-----------------------------------------------------------------------------
Settled == {m \in Members : row[m] # NoOne}
Hidden  == {m \in Settled : row[m].items = "hidden"}

Locked(t, m) == \E u \in Slots \ {t} : task[u].ins[m] # NoOne \/ m \in task[u].upd

\* A handler starts, past its checks, in a free slot.
Issue(t, kind, pc, who, seen) ==
  /\ kind \in Requests
  /\ task[t].pc = "idle"
  /\ task' = [task EXCEPT ![t] = [IdleTask EXCEPT !.pc = pc, !.kind = kind, !.who = who,
                                                 !.seen = seen]]
  /\ UNCHANGED <<room, row, announced, used>>

Goto(t, from, to) ==
  /\ task[t].pc = from
  /\ task' = [task EXCEPT ![t].pc = to]

Return(t) == task' = [task EXCEPT ![t] = IdleTask]

-----------------------------------------------------------------------------
(* What leads to a settlement *)

\* TimerService.giveUp: still in the timer phase, not given up yet.
GiveUp(t, m) == ~over /\ m \notin gaveUp /\ Issue(t, "giveup", "giveup_tx", m, {})

GiveUpTx(t) ==
  /\ Goto(t, "giveup_tx", "load")
  /\ gaveUp' = gaveUp \cup {task[t].who}
  /\ UNCHANGED <<inTime, over, late, row, announced, used>>

\* endSession, past its check of the phase; the write does not repeat it.
End(t) == ~over /\ Issue(t, "end", "end_db", NoOne, {})

EndDB(t) ==
  /\ Goto(t, "end_db", "load")
  /\ over' = TRUE
  /\ inTime' = IF over THEN inTime ELSE gaveUp
  /\ UNCHANGED <<gaveUp, late, row, announced, used>>

\* getResult: the fallback settles everybody if somebody has no result.
Result(t) ==
  /\ over
  /\ Issue(t, "result", IF Settled = Members THEN "expire" ELSE "load", NoOne, Hidden)

\* getGiveUpResult: a page of the member's own, with a fallback of its own.
GiveUpResult(t, m) ==
  /\ m \in gaveUp \ Settled
  /\ Issue(t, "giveup_result", "load", m, {})

-----------------------------------------------------------------------------
(* calculateAndSave (everybody) and calculateAndSaveForGiveUp (who) *)

ForAll(t) == task[t].kind \in {"end", "result"}

\* Mutant: gaveUpAt is not among the loaded columns.
LoadNoGaveUp(t) ==
  /\ task[t].pc = "load"
  /\ task' = [task EXCEPT ![t].pc = IF ForAll(t) THEN "processed" ELSE "find",
                          ![t].todo = IF ForAll(t) THEN Members ELSE {task[t].who}]
  /\ UNCHANGED <<room, row, announced, used>>

Load(t) ==
  /\ task[t].pc = "load"
  /\ task' = [task EXCEPT ![t].pc = IF ForAll(t) THEN "processed" ELSE "find",
                          ![t].snap = gaveUp,
                          ![t].todo = IF ForAll(t) THEN Members ELSE {task[t].who}]
  /\ UNCHANGED <<room, row, announced, used>>

\* existingResults: who is settled is passed over, unless they gave up.
Processed(t) ==
  /\ task[t].pc = "processed"
  /\ task' = [task EXCEPT ![t].pc = "find",
                          ![t].todo = {m \in @ : m \notin Settled \/ m \in task[t].snap}]
  /\ UNCHANGED <<room, row, announced, used>>

\* tx.roomResult.findUnique sees what is committed by now.
Find(t) ==
  /\ task[t].pc = "find"
  /\ \/ \E m \in task[t].todo :
          task' = [task EXCEPT ![t].pc = "write", ![t].at = m, ![t].found = m \in Settled]
     \/ task[t].todo = {} /\ task' = [task EXCEPT ![t].pc = "commit"]
  /\ UNCHANGED <<room, row, announced, used>>

Visited(t) ==
  [task[t] EXCEPT !.pc = "find", !.todo = @ \ {task[t].at}, !.at = NoOne, !.found = FALSE]

\* A member that gave up is drawn the most; the settlement of all makes it public.
NewRows(t) ==
  IF task[t].at \in task[t].snap
  THEN [basis : {"forfeit"}, time : {TRUE}, items : {"none", IF ForAll(t) THEN "public" ELSE "hidden"}]
  ELSE [basis : {"score"}, time : {FALSE}, items : {"none", "hidden"}]

Insert(t) ==
  /\ task[t].pc = "write" /\ ~ task[t].found
  /\ LET m == task[t].at IN
     /\ ~ Locked(t, m) /\ row[m] = NoOne
     /\ \E r \in NewRows(t) : task' = [task EXCEPT ![t] = [Visited(t) EXCEPT !.ins[m] = r]]
  /\ UNCHANGED <<room, row, announced, used>>

\* The time and tier of a member who gave up are computed again.
Update(t) ==
  /\ task[t].pc = "write" /\ task[t].found
  /\ ForAll(t) /\ task[t].at \in task[t].snap
  /\ ~ Locked(t, task[t].at)
  /\ task' = [task EXCEPT ![t] = [Visited(t) EXCEPT !.upd = @ \cup {task[t].at}]]
  /\ UNCHANGED <<room, row, announced, used>>

KeepFound(t) ==
  /\ task[t].pc = "write" /\ task[t].found
  /\ ~ (ForAll(t) /\ task[t].at \in task[t].snap)
  /\ task' = [task EXCEPT ![t] = Visited(t)]
  /\ UNCHANGED <<room, row, announced, used>>

AfterSettlement(t) ==
  IF task[t].kind = "result" THEN [IdleTask EXCEPT !.pc = "reload", !.kind = "result"]
  ELSE IdleTask

\* Mutant: a member who gave up is drawn again.
CommitRedraws(t) ==
  /\ task[t].pc = "commit"
  /\ row' = [m \in Members |->
               IF task[t].ins[m] # NoOne THEN task[t].ins[m]
               ELSE IF m \in task[t].upd THEN [row[m] EXCEPT !.time = TRUE, !.items = "hidden"]
               ELSE row[m]]
  /\ task' = [task EXCEPT ![t] = AfterSettlement(t)]
  /\ UNCHANGED <<room, announced, used>>

Commit(t) ==
  /\ task[t].pc = "commit"
  /\ row' = [m \in Members |->
               IF task[t].ins[m] # NoOne THEN task[t].ins[m]
               ELSE IF m \in task[t].upd THEN [row[m] EXCEPT !.time = TRUE]
               ELSE row[m]]
  /\ task' = [task EXCEPT ![t] = AfterSettlement(t)]
  /\ UNCHANGED <<room, announced, used>>

\* Mutant: a fallback that failed goes on to the page.
RollbackGoesOn(t) ==
  /\ task' = [task EXCEPT ![t] = AfterSettlement(t)]
  /\ UNCHANGED <<room, row, announced>>

\* A transaction that is rolled back ends its handler's settlement: endSession
\* and giveUp swallow the error, the two pages answer 500.
Rollback(t) ==
  /\ Return(t)
  /\ UNCHANGED <<room, row, announced>>

\* Mutant: a conflict is answered by the same insert again.
ConflictAgain(t) ==
  /\ task[t].pc = "write" /\ ~ task[t].found
  /\ ~ Locked(t, task[t].at) /\ row[task[t].at] # NoOne
  /\ UNCHANGED vars

\* The insert of a row that has been committed since findUnique (P2002).
Conflict(t) ==
  /\ task[t].pc = "write" /\ ~ task[t].found
  /\ ~ Locked(t, task[t].at) /\ row[task[t].at] # NoOne
  /\ Rollback(t) /\ UNCHANGED used

\* A write that waits for another transaction's row is given up on after 5 s;
\* of two that wait for one another, the database picks a victim.
TxTimeout(t) ==
  /\ task[t].pc = "write" /\ Locked(t, task[t].at)
  /\ Rollback(t) /\ UNCHANGED used

-----------------------------------------------------------------------------
(* What makes penalties public *)

Reveal(ms) == row' = [m \in Members |-> IF m \in Hidden \cap ms THEN [row[m] EXCEPT !.items = "public"]
                                        ELSE row[m]]

\* Mutant: the room is not loaded again after a settlement.
ReloadNot(t) == Goto(t, "reload", "expire") /\ UNCHANGED <<room, row, announced, used>>

\* getResult loads the room again after a settlement ...
Reload(t) ==
  /\ task[t].pc = "reload"
  /\ task' = [task EXCEPT ![t].pc = "expire", ![t].seen = Hidden]
  /\ UNCHANGED <<room, row, announced, used>>

\* ... and reveals everything once the time is up: the members that were hidden
\* when the room was loaded are announced, if anything was revealed at all.
Expire(t) ==
  /\ task[t].pc = "expire"
  /\ Return(t)
  /\ IF late THEN Reveal(Members) ELSE UNCHANGED row
  /\ UNCHANGED <<room, announced, used>>

\* spinRoulette with the last index; a stale page may send it first.
Spin(t, m) ==
  /\ over \/ m \in gaveUp
  /\ m \in Hidden
  /\ Issue(t, "spin", "spin_reveal", m, {})

\* updateMany: zero rows updated means that somebody else was faster.
RevealOwn(t, from) ==
  /\ task[t].pc = from
  /\ Reveal({task[t].who})
  /\ task' = [task EXCEPT ![t] = IF task[t].who \in Hidden THEN [@ EXCEPT !.pc = "announce"]
                                 ELSE IdleTask]
  /\ UNCHANGED <<room, announced, used>>

\* Mutant: the spin broadcasts without looking at the count.
SpinRevealBlind(t) ==
  /\ Goto(t, "spin_reveal", "announce")
  /\ Reveal({task[t].who})
  /\ UNCHANGED <<room, announced, used>>

SpinReveal(t) == RevealOwn(t, "spin_reveal")

\* exitRoulette: the hidden penalties are read, then revealed, in a transaction.
Exit(t, m) == (over \/ m \in gaveUp) /\ Issue(t, "exit", "exit_find", m, {})

ExitFind(t) ==
  /\ task[t].pc = "exit_find"
  /\ IF task[t].who \in Hidden THEN task' = [task EXCEPT ![t].pc = "exit_reveal"]
     ELSE Return(t)
  /\ UNCHANGED <<room, row, announced, used>>

ExitReveal(t) == RevealOwn(t, "exit_reveal")

\* Mutant: the message goes out under the wrong id.
AnnounceSlot(t) ==
  /\ task[t].pc = "announce"
  /\ announced' = announced \cup {t}
  /\ Return(t)
  /\ UNCHANGED <<room, row, used>>

\* broadcastRevealed.
Announce(t) ==
  /\ task[t].pc = "announce"
  /\ announced' = announced \cup {task[t].who}
  /\ Return(t)
  /\ UNCHANGED <<room, row, used>>

\* The reveal-penalties job of a give-up, skipped once the session is over.
Job(t, m) == ~over /\ m \in gaveUp /\ Issue(t, "job", "job_reveal", m, {})

JobReveal(t) ==
  /\ task[t].pc = "job_reveal"
  /\ Reveal({task[t].who})
  /\ Return(t)
  /\ UNCHANGED <<room, announced, used>>

-----------------------------------------------------------------------------
(* Time, rejected calls, restarts *)

TimeUp ==
  /\ over /\ ~late /\ late' = TRUE
  /\ UNCHANGED <<gaveUp, inTime, over, row, announced, task, used>>

\* A rejected call ends the handler; its transaction, if any, is rolled back.
Fail(t) ==
  /\ faults < MaxFaults /\ faults' = faults + 1
  /\ task[t].pc # "idle"
  /\ Rollback(t) /\ UNCHANGED crashes

Crash ==
  /\ crashes < MaxCrashes /\ crashes' = crashes + 1
  /\ task' = [t \in Slots |-> IdleTask]
  /\ UNCHANGED <<room, row, announced, faults>>

-----------------------------------------------------------------------------
Arrive(t) ==
  \/ End(t) \/ Result(t)
  \/ \E m \in Members : GiveUp(t, m) \/ GiveUpResult(t, m) \/ Spin(t, m) \/ Exit(t, m) \/ Job(t, m)

Advance(t) ==
  \/ GiveUpTx(t) \/ EndDB(t) \/ Load(t) \/ Processed(t) \/ Find(t) \/ Insert(t) \/ Update(t)
  \/ KeepFound(t) \/ Commit(t) \/ Conflict(t) \/ TxTimeout(t)
  \/ Reload(t) \/ Expire(t) \/ SpinReveal(t) \/ ExitFind(t) \/ ExitReveal(t) \/ Announce(t)
  \/ JobReveal(t)

Next ==
  \/ \E t \in Slots : Arrive(t) \/ Advance(t) \/ Fail(t)
  \/ TimeUp
  \/ Crash

Spec == Init /\ [][Next]_vars

\* Handlers that run go on, and waiting for a row ends.
FairSpec == Spec /\ \A t \in Slots : WF_vars(Advance(t))

-----------------------------------------------------------------------------
(* Properties *)

\* The penalties of PenaltyLedger: drawn once and for all, public for good,
\* however the four settlements and the five reveals interleave.
Ledger == INSTANCE PenaltyLedger WITH
  basis <- [m \in Members |-> IF row[m] = NoOne THEN "open" ELSE row[m].basis],
  items <- [m \in Members |-> IF row[m] = NoOne THEN "none" ELSE row[m].items]
KeepsLedger == Ledger!Spec

\* Who has given up when the end is recorded is drawn the most, and the rest of
\* the session counts as escape time, even if the settlement of the give-up
\* itself failed: whoever settles afterwards must have loaded gaveUpAt.
ForfeitInTime ==
  \A m \in inTime \cap Settled : row[m].basis = "forfeit" /\ row[m].time

\* The result page is shown only when everybody is settled: a fallback that lost
\* its transaction does not get that far.
ResultComplete == \A t \in Slots : task[t].pc \in {"reload", "expire"} => Settled = Members

\* Of spins and exits in flight for one member, a single one reveals and tells
\* the room (roulette.service.ts, the checks of count).
OneWinner ==
  \A m \in Members :
    LET winners == {t \in Slots : task[t].pc = "announce" /\ task[t].who = m}
    IN  Cardinality(winners) + (IF m \in announced THEN 1 ELSE 0) <= 1

\* Nobody's penalties are announced while they are hidden or not drawn.
AnnouncedIsPublic == \A m \in announced : m \in Settled /\ row[m].items = "public"

\* A member's penalties are announced once, and only when everybody may see them.
AnnouncedOnce == OneWinner /\ AnnouncedIsPublic

\* revealExpiredPenalties announces the members that were hidden when it loaded
\* the room; whom it really reveals, an update later, is among them.
ExpiryAnnounced ==
  [][\A t \in Slots : task[t].pc = "expire" /\ task'[t].pc = "idle"
       => {m \in Members : row'[m] # row[m]} \subseteq task[t].seen]_vars

\* Every handler returns, whoever it waits for.
HandlersReturn == \A t \in Slots : task[t].pc # "idle" ~> task[t].pc = "idle"

\* Whoever has given up is drawn the most.
ForfeitAlways == \A m \in gaveUp \cap Settled : row[m].basis = "forfeit"
=============================================================================
