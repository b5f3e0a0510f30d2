---------------------------- MODULE MCSourceQuota ----------------------------
(* Small instances of SourceQuota for TLC. *)
EXTENDS SourceQuota, TLC

LengthUsed == [w \in Windows |-> IF w \in {"day", "credits_month"} THEN 2 ELSE 1]
LimitUsed == [w \in Windows |-> CASE w = "credits_month" -> 3 [] w = "day" -> 2 [] OTHER -> 1]

Symmetry == Permutations(Callers) \cup Permutations(Keys)
=============================================================================
