------------------------ MODULE MCSearchCoordinator ------------------------
(* Small instances of SearchCoordinator for TLC. *)
EXTENDS SearchCoordinator, TLC

CONSTANTS src1, src2

OneSource == {src1}
TwoSources == {src1, src2}
PlanOrder == [s \in Sources |-> IF s = src1 THEN 1 ELSE 2]

Symmetry == Permutations(Workers) \cup Permutations(Mains) \cup Permutations(Roles)
                \cup Permutations(Callers) \cup Permutations(Profiles)
=============================================================================
