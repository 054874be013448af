---------------------------- MODULE PenaltyLedger ----------------------------
(***************************************************************************)
(* What the backend promises about the penalties of a room's members: they *)
(* are drawn once, from the escape time (score) or for giving up           *)
(* (forfeit), several members at a time or one by one; what is drawn never *)
(* changes; and penalties that are public stay public.                     *)
(***************************************************************************)
CONSTANT Members
VARIABLES basis, items

vars == <<basis, items>>

Bases == {"open", "score", "forfeit"}
Items == {"none", "hidden", "public"}

Init == basis = [m \in Members |-> "open"] /\ items = [m \in Members |-> "none"]

Draw ==
  /\ basis' \in [Members -> Bases] /\ items' \in [Members -> Items]
  /\ \A m \in Members :
       \/ basis'[m] = basis[m] /\ items'[m] = items[m]
       \/ basis[m] = "open" /\ basis'[m] # "open"

Publish ==
  /\ items' \in [Members -> Items]
  /\ \A m \in Members : items'[m] # items[m] => items[m] = "hidden" /\ items'[m] = "public"
  /\ UNCHANGED basis

Next == Draw \/ Publish

Spec == Init /\ [][Next]_vars
=============================================================================
