------------------------- MODULE MCDiscoveredRoles -------------------------
(* Small instances of DiscoveredRoles for TLC. *)
EXTENDS DiscoveredRoles, TLC

CONSTANTS s1, s2

Symmetry == Permutations(Scans)
=============================================================================
