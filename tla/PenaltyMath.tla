----------------------------- MODULE PenaltyMath -----------------------------
(***************************************************************************)
(* The arithmetic of a session: where its focus slots lie, which part of a *)
(* member's escapes falls into them, and which tier that is.  Four places  *)
(* of the code compute on this timetable: the settlement of the end, the   *)
(* settlement of a give-up, the summary shown during the session, and the  *)
(* page's timer; the notices of a break are a fifth.  They have to agree.  *)
(*                                                                         *)
(* One member's logs are written while time passes, by handlers that may   *)
(* overlap, so that the logs the arithmetic is applied to are those the    *)
(* program can leave: touching, nested, two at once, open at the end,      *)
(* running on behind a give-up.                                            *)
(*                                                                         *)
(* Time is counted in minutes from startedAt; an escape lasts from its     *)
(* first to its last minute.  Percentages are compared exactly.            *)
(***************************************************************************)
EXTENDS Integers, Sequences, SequencesExt

CONSTANTS
  Focuses, Breaks, RoundCounts,  \* focusMin, breakMin and rounds of a contract
  TierLists,   \* tier lists somebody may submit
  MaxTotal,    \* MAX_TOTAL_MIN: the longest session
  LogIds,      \* bound: escape logs of the member
  MaxLate,     \* bound: minutes looked at behind the planned end
  Never        \* null: a time that has not been recorded

TimesAssumption ==
  /\ Focuses \cup Breaks \cup RoundCounts \subseteq Nat \ {0}
  /\ MaxTotal \in Nat /\ MaxLate \in Nat
  /\ Never \notin Int

Least(a, b) == IF a < b THEN a ELSE b
Most(a, b) == IF a > b THEN a ELSE b

-----------------------------------------------------------------------------
(* Contracts *)

\* validateTiers: each tier begins where the one before it ends.
ValidTiers(tiers) ==
  \A i \in 1 .. Len(tiers) - 1 : tiers[i].maxPct = tiers[i + 1].minPct

\* How long the session is planned to take; the last round has no break.
Planned(c) == c.focus * c.rounds + c.break * Most(0, c.rounds - 1)

\* The contracts createRoomRule accepts.
Contracts ==
  {c \in [focus : Focuses, break : Breaks, rounds : RoundCounts, tiers : TierLists] :
     /\ ValidTiers(c.tiers)
     /\ Planned(c) <= MaxTotal}

TotalFocus(c) == c.focus * c.rounds

-----------------------------------------------------------------------------
(* Escapes *)

Interval(from, to) == [start |-> from, end |-> to]

\* One round of mergeIntervals.
Absorb(merged, interval) ==
  LET last == Len(merged)
  IN  IF interval.start <= merged[last].end
        THEN [merged EXCEPT ![last].end = Most(@, interval.end)]
        ELSE Append(merged, interval)

MergeIntervals(intervals) ==
  LET sorted == SortSeq(intervals, LAMBDA a, b : a.start < b.start)
  IN  IF Len(intervals) <= 1 THEN intervals
      ELSE FoldLeft(Absorb, <<Head(sorted)>>, Tail(sorted))

\* getEffectiveFocusEscapeMs: what an interval shares with the first n focus slots.
FocusEscape(c, interval) ==
  LET Shared(i) == Most(0, Least(interval.end, i * (c.focus + c.break) + c.focus)
                             - Most(interval.start, i * (c.focus + c.break)))
      sum[n \in 0 .. c.rounds] == IF n = 0 THEN 0 ELSE sum[n - 1] + Shared(n - 1)
  IN  sum[c.rounds]

\* The sum over merged intervals that each of the three computations ends with.
EscapeTotal(c, intervals) ==
  LET merged == MergeIntervals(intervals)
      sum[n \in 0 .. Len(merged)] ==
        IF n = 0 THEN 0 ELSE sum[n - 1] + FocusEscape(c, merged[n])
  IN  sum[Len(merged)]

\* Mutant: a search that fails answers -1.
NotFound == -1
\* The tier of a percentage that no tier covers.
NoTier == 0

\* calculatePenaltyTier: the first tier that the percentage falls into.
PenaltyTier(c, total) ==
  LET sorted == SortSeq(c.tiers, LAMBDA a, b : /\ a.maxPct # Never
                                               /\ \/ b.maxPct = Never
                                                  \/ a.minPct < b.minPct)
      Fits(t) == /\ 100 * total >= t.minPct * TotalFocus(c)
                 /\ t.maxPct # Never => 100 * total < t.maxPct * TotalFocus(c)
      first[n \in 1 .. Len(sorted) + 1] ==
        IF n > Len(sorted) THEN NoTier
        ELSE IF Fits(sorted[n]) THEN sorted[n].tier ELSE first[n + 1]
  IN  first[1]

-----------------------------------------------------------------------------
(* The page's timer *)

PageElapsed(c, t) == Least(Most(0, t), Planned(c))
PageLastRound(c, t) == PageElapsed(c, t) >= (c.focus + c.break) * Most(0, c.rounds - 1)
PageInRound(c, t) ==
  IF PageLastRound(c, t)
    THEN PageElapsed(c, t) - (c.focus + c.break) * Most(0, c.rounds - 1)
    ELSE PageElapsed(c, t) % (c.focus + c.break)
\* Mutant: the minute at the boundary is still focus.
PageIsFocusLong(c, t) == PageLastRound(c, t) \/ PageInRound(c, t) <= c.focus
PageIsFocus(c, t) == PageLastRound(c, t) \/ PageInRound(c, t) < c.focus
PageRemaining(c, t) ==
  (IF PageIsFocus(c, t) THEN c.focus ELSE c.focus + c.break) - PageInRound(c, t)

(* The notices of the session's jobs. *)
WarnAt(c, r) == (c.focus + c.break) * r - 1
BreakStartAt(c, r) == c.focus * r + c.break * (r - 1)

-----------------------------------------------------------------------------
VARIABLES
  contract,   \* the template of the room
  now,        \* minutes since startedAt
  logs,       \* the member's escape logs
  opening,    \* logEscapeStart has found no open log and is about to create this one
  closing,    \* logEscapeEnd has found this log open and is about to close it
  gaveUpAt, endedAt,
  result,     \* the member's result
  away        \* history: the minutes during which a log was open

vars == <<contract, now, logs, opening, closing, gaveUpAt, endedAt, result, away>>

\* escapedAt, Never while the log does not exist; returnedAt, Never while it is open.
NoLog == Interval(Never, Never)
Times == 0 .. MaxTotal + MaxLate
OptTimes == Times \cup {Never}
Open(l) == logs[l].start # Never /\ logs[l].end = Never
Gone == gaveUpAt # Never
Over == endedAt # Never

TierNumbers(c) == {c.tiers[i].tier : i \in 1 .. Len(c.tiers)} \cup {0}

\* A result that has not been drawn has no total.
NoResult == [total |-> Never, tier |-> 0]
Settled == result # NoResult

TypeOK ==
  /\ contract \in Contracts
  /\ now \in Times
  /\ logs \in [LogIds -> [start : OptTimes, end : OptTimes]]
  /\ opening \subseteq LogIds /\ closing \subseteq LogIds
  /\ gaveUpAt \in OptTimes /\ endedAt \in OptTimes
  /\ result \in [total : OptTimes, tier : TierNumbers(contract)]
  /\ away \subseteq Times

Init ==
  /\ contract \in Contracts
  /\ now = 0
  /\ logs = [l \in LogIds |-> NoLog]
  /\ opening = {} /\ closing = {}
  /\ gaveUpAt = Never /\ endedAt = Never
  /\ result = NoResult
  /\ away = {}

Tick ==
  /\ now < Planned(contract) + MaxLate
  /\ now' = now + 1
  /\ away' = IF \E l \in LogIds : Open(l) THEN away \cup {now} ELSE away
  /\ UNCHANGED <<contract, logs, opening, closing, gaveUpAt, endedAt, result>>

\* logEscapeStart, up to the question whether a log is open ...
FindNone(l) ==
  /\ ~Over /\ ~Gone
  /\ logs[l] = NoLog /\ l \notin opening
  /\ \A k \in LogIds : ~Open(k)
  /\ opening' = opening \cup {l}
  /\ UNCHANGED <<contract, now, logs, closing, gaveUpAt, endedAt, result, away>>

\* ... and the log it creates.
EscapeStart(l) ==
  /\ l \in opening
  /\ opening' = opening \ {l}
  /\ logs' = [logs EXCEPT ![l] = Interval(now, Never)]
  /\ UNCHANGED <<contract, now, closing, gaveUpAt, endedAt, result, away>>

\* logEscapeEnd, up to the log it finds.  Of one log there is one such handler
\* in flight, of one member several.
FindOpen(l) ==
  /\ ~Gone
  /\ Open(l) /\ l \notin closing
  /\ closing' = closing \cup {l}
  /\ UNCHANGED <<contract, now, logs, opening, gaveUpAt, endedAt, result, away>>

\* It does not look again whether the log is still open.
EscapeEnd(l) ==
  /\ l \in closing
  /\ closing' = closing \ {l}
  /\ logs' = [logs EXCEPT ![l].end = now]
  /\ UNCHANGED <<contract, now, opening, gaveUpAt, endedAt, result, away>>

CloseOpen(at) == [l \in LogIds |-> IF Open(l) THEN Interval(logs[l].start, at) ELSE logs[l]]

\* giveUp and giveUpTransaction, which closes the open logs.
GiveUp ==
  /\ ~Over /\ ~Gone
  /\ gaveUpAt' = now
  /\ logs' = CloseOpen(now)
  /\ UNCHANGED <<contract, now, opening, closing, endedAt, result, away>>

\* endSession: by the end job, which is never early, or because everybody gave up.
End ==
  /\ ~Over
  /\ now >= Planned(contract) \/ Gone
  /\ endedAt' = now
  /\ UNCHANGED <<contract, now, logs, opening, closing, gaveUpAt, result, away>>

-----------------------------------------------------------------------------
(* Settlements.  They read and write in one step here; what others do in   *)
(* between is the subject of PenaltySettlement.                            *)

SessionEndedAt == IF Over THEN endedAt ELSE Planned(contract)

Written == {l \in LogIds : logs[l] # NoLog}

\* The logs as intervals, in any order; ends[l] is where a log is taken to end.
LogIntervals(ends) ==
  LET order == SetToSeq(Written)
  IN  [i \in DOMAIN order |-> Interval(logs[order[i]].start, ends[order[i]])]

Capped(intervals) == Least(EscapeTotal(contract, intervals), TotalFocus(contract))

\* Whoever gave up is charged for the rest of the session.
RestOfSession == IF Gone THEN <<Interval(gaveUpAt, Planned(contract))>> ELSE <<>>

\* Mutant: an open log counts for nothing.
EndIntervalsClosed ==
  LET ends == [l \in Written |-> IF Open(l) THEN logs[l].start ELSE logs[l].end]
  IN  LogIntervals(ends) \o RestOfSession

\* The intervals of calculateAndSave: nothing counts behind the end of the session.
EndIntervals ==
  LET ends == [l \in Written |-> Least(IF Open(l) THEN SessionEndedAt ELSE logs[l].end, SessionEndedAt)]
  IN  LogIntervals(ends) \o RestOfSession

\* The intervals of calculateAndSaveForGiveUp: a closed log is taken as it is.
GiveUpIntervals ==
  LET ends == [l \in Written |-> IF Open(l) THEN SessionEndedAt ELSE logs[l].end]
  IN  LogIntervals(ends) \o RestOfSession

Judged(total) == [total |-> total, tier |-> PenaltyTier(contract, total)]

\* calculateAndSave, for this member: skipped when a result is there, unless the
\* member gave up; then total and tier are computed again.
SettleEnd ==
  /\ Over
  /\ ~Settled \/ Gone
  /\ result' = Judged(Capped(EndIntervals))
  /\ logs' = CloseOpen(SessionEndedAt)
  /\ UNCHANGED <<contract, now, opening, closing, gaveUpAt, endedAt, away>>

\* calculateAndSaveForGiveUp: the logs are rewritten, a result that is there stays.
SettleGiveUp ==
  /\ Gone
  /\ result' = IF Settled THEN result ELSE Judged(Capped(GiveUpIntervals))
  /\ logs' = CloseOpen(SessionEndedAt)
  /\ UNCHANGED <<contract, now, opening, closing, gaveUpAt, endedAt, away>>

\* What getCurrentSummary reports of the member.
Summary ==
  LET ends == [l \in Written |-> IF Open(l) THEN now ELSE logs[l].end]
  IN  EscapeTotal(contract, LogIntervals(ends))

Next ==
  \/ Tick \/ GiveUp \/ End \/ SettleEnd \/ SettleGiveUp
  \/ \E l \in LogIds : FindNone(l) \/ EscapeStart(l) \/ FindOpen(l) \/ EscapeEnd(l)

Spec == Init /\ [][Next]_vars

-----------------------------------------------------------------------------
(* Properties *)

\* The contract's own definition of focus: a minute of a round that is not its break.
IsFocus(c, t) == t \in 0 .. Planned(c) - 1 /\ t % (c.focus + c.break) < c.focus

\* Whatever overlaps of handlers left the logs in, the total of a result is the
\* number of focus minutes with an open log, and for who gave up all that were
\* left (penalty.service.ts:99-155, 283-337); the others are charged what the
\* summary showed them (escape.service.ts:137-158).
ChargedAsShown ==
  Settled =>
    /\ result.total = Cardinality({t \in Times : /\ IsFocus(contract, t)
                                                 /\ t \in away \/ (Gone /\ t >= gaveUpAt)})
    /\ ~Gone => result.total = Summary

\* The page shows focus exactly while escapes are charged and has run out when the
\* session is due to end; a break's notices come at its first and its last minute
\* (Timer.tsx:124-151, timer.service.ts:590-621).
TimetableAgrees ==
  /\ now < Planned(contract) =>
       (PageIsFocus(contract, now) <=> FocusEscape(contract, Interval(now, now + 1)) = 1)
  /\ PageRemaining(contract, now) = 0 <=> now >= Planned(contract)
  /\ \A r \in 1 .. contract.rounds - 1 :
       /\ now = BreakStartAt(contract, r) =>
            PageRemaining(contract, now) = contract.break /\ ~PageIsFocus(contract, now)
       /\ now = WarnAt(contract, r) =>
            PageRemaining(contract, now) = 1 /\ ~PageIsFocus(contract, now)

=============================================================================
