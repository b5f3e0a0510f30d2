----------------------------- MODULE AtomicStore -----------------------------
(***************************************************************************)
(* What the store promises its callers: every mutation takes effect at     *)
(* once and for good, none is lost under another, and the records of the   *)
(* retired JSON file come in once, into an empty store or not at all.      *)
(***************************************************************************)
EXTENDS Naturals

CONSTANT Reqs

VARIABLES
    applied,  \* how often the mutation of each request has taken effect
    legacy    \* the records of the JSON file are in the store

Init ==
    /\ applied = [r \in Reqs |-> 0]
    /\ legacy = FALSE

Apply(r) ==
    /\ applied' = [applied EXCEPT ![r] = @ + 1]
    /\ UNCHANGED legacy

Import ==
    /\ ~legacy /\ \A r \in Reqs : applied[r] = 0
    /\ legacy' = TRUE
    /\ UNCHANGED applied

Next == Import \/ \E r \in Reqs : Apply(r)

Spec == Init /\ [][Next]_<<applied, legacy>>
=============================================================================
