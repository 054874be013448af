----------------------------- MODULE RoomPhases -----------------------------
(***************************************************************************)
(* What the backend promises about a room's phase, whatever handlers it    *)
(* takes to keep the promise: lobby, contract, timer, result, closed in    *)
(* that order (room.repository.ts, updatePhase), with two protections of   *)
(* room.gateway.ts, handleRoomCleanup: a running session is not closed     *)
(* while a member has not given up, and a room that shows its results is   *)
(* not closed.                                                             *)
(***************************************************************************)
CONSTANT Members
VARIABLES phase, gaveUp

vars == <<phase, gaveUp>>

Init == phase = "lobby" /\ gaveUp = {}

Move(from, to) == phase = from /\ phase' = to /\ UNCHANGED gaveUp

Close ==
  \/ Move("lobby", "closed")
  \/ Move("contract", "closed")
  \/ Move("timer", "closed") /\ Members \subseteq gaveUp

\* A give-up that was accepted while the timer ran may be recorded just after.
GiveUp ==
  /\ phase \in {"timer", "result", "closed"}
  /\ \E m \in Members : gaveUp' = gaveUp \cup {m}
  /\ UNCHANGED phase

Next == \/ Move("lobby", "contract") \/ Move("contract", "timer") \/ Move("timer", "result")
        \/ Close \/ GiveUp

Spec == Init /\ [][Next]_vars
=============================================================================
