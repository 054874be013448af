------------------------ MODULE MCPenaltySettlement ------------------------
(* Instances of PenaltySettlement for TLC. *)
EXTENDS PenaltySettlement, TLC

\* Members are interchangeable, and so are the slots.
Symmetry == Permutations(Members) \cup Permutations(Slots)
=============================================================================
