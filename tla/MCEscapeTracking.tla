--------------------------- MODULE MCEscapeTracking ---------------------------
(* Instances of EscapeTracking for TLC. *)
EXTENDS MCEscapes, TLC

\* The slots are interchangeable, and so are the logs.
Symmetry == Permutations(Lanes) \cup Permutations(LogIds)
=============================================================================
