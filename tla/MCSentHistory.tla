--------------------------- MODULE MCSentHistory ---------------------------
(* Small instances of SentHistory for TLC. *)
EXTENDS SentHistory, TLC

Symmetry == Permutations(Roles) \cup Permutations(Records)
=============================================================================
