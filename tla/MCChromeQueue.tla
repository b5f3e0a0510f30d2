---------------------------- MODULE MCChromeQueue ----------------------------
(* Small instances of ChromeQueue for TLC. *)
EXTENDS ChromeQueue, TLC

CONSTANTS a1, a2, s1, s2

OneRole == {a1}
TwoRoles == {a1, a2}
NoRoles == {}

ModesUsed == {"full_time", "freelance"}
AllFullTime == [a \in Apps |-> "full_time"]
NoModeCap == [m \in ModesUsed |-> 9]

Symmetry == Permutations(Sessions) \cup Permutations(Attempts) \cup Permutations(Callers)
=============================================================================
