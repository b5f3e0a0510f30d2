------------------------ MODULE MCIdempotentRequests ------------------------
(* Small instances of IdempotentRequests for TLC. *)
EXTENDS IdempotentRequests, TLC

CONSTANTS r1, r2, r3, r4

ka == "ka"

(* r2 repeats r1; r3 has other data under the same key; r4 has no key. *)
KeyUsed == [r \in Reqs |-> IF r = r4 THEN NoKey ELSE ka]
PayloadUsed == [r \in Reqs |-> IF r = r3 THEN "other" ELSE "data"]
=============================================================================
