--------------------------- MODULE MCCommandCache ---------------------------
(* Instances of CommandCache for TLC. *)
EXTENDS CommandCache, TLC

MCSymmetry == Permutations(Tasks) \cup Permutations(Uids)
=============================================================================
