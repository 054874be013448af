------------------------- MODULE MCSessionLifecycle -------------------------
(* Instances of SessionLifecycle for TLC. *)
EXTENDS SessionLifecycle, TLC

\* Members, and the slots of one sort, are interchangeable.
Symmetry == Permutations(Members) \cup Permutations(Handlers) \cup Permutations(Workers)
=============================================================================
